------------------------- MODULE KeeperMulticallProofs -------------------------
(***************************************************************************)
(* Theorems about KeeperMulticall: the trading core, the order book and    *)
(* the keeper's cycle together, for every value of the constants.  A cycle *)
(* may be undone at any point, so every invariant is carried twice: for    *)
(* the state under way and for the state the cycle started from.           *)
(***************************************************************************)
EXTENDS KeeperMulticall, PerpTradingProofs

-----------------------------------------------------------------------------
(* The inductive invariant.                                                *)

\* The state a revert would bring back.
Before == INSTANCE KeeperMulticall WITH
    latestPrice <- saved.latestPrice,
    latestPriceTimestamp <- saved.latestPriceTimestamp,
    pools <- saved.pools,
    fundingStates <- saved.fundingStates,
    positions <- saved.positions,
    nextPositionId <- saved.nextPositionId,
    userMarketPosition <- saved.userMarketPosition,
    openInterest <- saved.openInterest,
    vaultBalances <- saved.vaultBalances,
    insuranceBalances <- saved.insuranceBalances,
    held <- saved.held,
    accounts <- saved.accounts,
    orders <- saved.orders,
    history <- saved.history

\* In a cycle, no order was executed less often and, under a pause, no side
\* has more open interest than at its start.
KeeperInv ==
    /\ phase \in {"idle", "orders", "liquidations"}
    /\ SoundState
    /\ phase # "idle" =>
          /\ Before!SoundState
          /\ \A o \in OrderIds :
                saved.history[o].executions <= history[o].executions
          /\ \A m \in Markets, long \in BOOLEAN :
                globalPaused \/ marketPaused[m] =>
                   openInterest[m][OISide(long)] <= OIBefore(m, long)

-----------------------------------------------------------------------------
(* Orders.                                                                 *)

\* The types of what the order book adds to the core.
OrdersTyped ==
    /\ orders \in [OrderIds -> Order]
    /\ nextOrderId \in 0..MaxOrders
    /\ history \in [OrderIds -> [target : 0..MaxPositions, executions : Nat]]

OrdersInv == OrdersTyped /\ OrdersSound /\ ExecutedOnce

\* An order is written under the next id, for a user and with its target.
Placed(order, target) ==
    /\ order \in Order /\ order.user \in Users
    /\ order.orderType = "LIMIT" => order.limitPrice = order.triggerPrice
    /\ target \in 0..MaxPositions
    /\ nextOrderId < MaxOrders
    /\ nextOrderId' = nextOrderId + 1
    /\ orders' = [orders EXCEPT ![nextOrderId + 1] = order]
    /\ history' = [history EXCEPT ![nextOrderId + 1].target = target]

Cancelled(o) ==
    /\ SpendOrder(o)
    /\ UNCHANGED <<nextOrderId, history>>

Executed(o) ==
    /\ orders[o].active
    /\ SpendOrder(o)
    /\ CountExecution(o)
    /\ UNCHANGED nextOrderId

\* What a transaction does to the orders.
OrdersStep ==
    \/ UNCHANGED orderVars
    \/ \E order \in Order, target \in 0..MaxPositions : Placed(order, target)
    \/ \E o \in OrderIds : Cancelled(o) \/ Executed(o)

\* Spending an order only makes it inactive.
LEMMA SpentOrder ==
    ASSUME OrdersTyped, NEW o \in OrderIds, SpendOrder(o)
    PROVE  /\ orders' \in [OrderIds -> Order]
           /\ ~orders'[o].active
           /\ \A i \in OrderIds \ {o} : orders'[i] = orders[i]
  <1> DEFINE new == [orders[o] EXCEPT !.active = FALSE]
  <1>1. orders[o] \in Order
    BY DEF OrdersTyped
  <1>2. new \in Order /\ ~new.active
    BY <1>1 DEF Order
  <1>3. orders' = [orders EXCEPT ![o] = new]
    BY <1>1 DEF SpendOrder, OrdersTyped, Order
  <1> HIDE DEF new
  <1> QED
    BY <1>2, <1>3 DEF OrdersTyped

\* An order counted as executed is counted once more.
LEMMA CountedExecution ==
    ASSUME OrdersTyped, NEW o \in OrderIds, CountExecution(o)
    PROVE  /\ history' \in
                [OrderIds -> [target : 0..MaxPositions, executions : Nat]]
           /\ history'[o].executions = history[o].executions + 1
           /\ \A i \in OrderIds \ {o} : history'[i] = history[i]
  <1> DEFINE old == history[o]
             more == old.executions + 1
             new == [old EXCEPT !.executions = more]
  <1>1. old \in [target : 0..MaxPositions, executions : Nat]
    BY DEF OrdersTyped
  <1>2. more \in Nat
    BY <1>1
  <1>3. history' = [history EXCEPT ![o] = new]
    BY DEF CountExecution, OrdersTyped
  <1> HIDE DEF old, more
  <1>4. /\ new \in [target : 0..MaxPositions, executions : Nat]
        /\ new.executions = more
    BY <1>1, <1>2
  <1> HIDE DEF new
  <1> QED
    BY <1>3, <1>4 DEF OrdersTyped, more, old

\* No step of the order book writes a used id, revives an order or executes
\* one that was spent.
LEMMA OrdersInvNext ==
    ASSUME OrdersInv, OrdersStep
    PROVE  OrdersInv'
  <1>1. CASE UNCHANGED orderVars
    BY <1>1 DEF orderVars, OrdersInv, OrdersTyped, OrdersSound, ExecutedOnce
  <1>2. ASSUME NEW order \in Order, NEW target \in 0..MaxPositions,
               Placed(order, target)
        PROVE  OrdersInv'
    <2> DEFINE id == nextOrderId + 1
               new == [history[id] EXCEPT !.target = target]
    <2>1. id \in OrderIds /\ id > nextOrderId /\ id \in 0..MaxOrders
      BY <1>2, OrderAssumption DEF Placed, OrdersInv, OrdersTyped, OrderIds
    <2>2. /\ orders' \in [OrderIds -> Order]
          /\ orders'[id] = order
          /\ \A i \in OrderIds \ {id} : orders'[i] = orders[i]
      BY <1>2, <2>1 DEF Placed, OrdersInv, OrdersTyped
    <2>3. /\ new \in [target : 0..MaxPositions, executions : Nat]
          /\ new.executions = history[id].executions
      BY <2>1 DEF OrdersInv, OrdersTyped
    <2>4. history' = [history EXCEPT ![id] = new]
      BY <1>2, <2>1 DEF Placed, OrdersInv, OrdersTyped
    <2> HIDE DEF new
    <2>5. /\ history' \in
                [OrderIds -> [target : 0..MaxPositions, executions : Nat]]
          /\ \A i \in OrderIds :
                history'[i].executions = history[i].executions
      BY <2>1, <2>3, <2>4 DEF OrdersInv, OrdersTyped
    <2>6. history[id].executions = 0
      BY <2>1 DEF OrdersInv, OrdersSound
    <2>7. nextOrderId' = id
      BY <1>2 DEF Placed
    <2>8. OrdersTyped'
      BY <2>1, <2>2, <2>5, <2>7 DEF OrdersTyped
    <2>9. OrdersSound'
      <3>1. ASSUME NEW i \in OrderIds, i > id
            PROVE  ~orders'[i].active /\ history'[i].executions = 0
        <4>1. i > nextOrderId /\ i # id
          BY <2>1, <3>1 DEF OrderIds, OrdersInv, OrdersTyped
        <4> QED
          BY <2>2, <2>5, <4>1 DEF OrdersInv, OrdersSound
      <3>2. ASSUME NEW i \in OrderIds, orders'[i].active
            PROVE  /\ orders'[i].user \in Users
                   /\ history'[i].executions = 0
                   /\ orders'[i].orderType = "LIMIT" =>
                         orders'[i].limitPrice = orders'[i].triggerPrice
        <4>1. CASE i = id
          BY <1>2, <2>2, <2>5, <2>6, <4>1 DEF Placed
        <4>2. CASE i # id
          <5>1. orders'[i] = orders[i]
            BY <2>2, <4>2
          <5> QED
            BY <2>5, <3>2, <5>1 DEF OrdersInv, OrdersSound
        <4> QED
          BY <4>1, <4>2
      <3> QED
        BY <2>7, <3>1, <3>2 DEF OrdersSound
    <2>10. ExecutedOnce'
      BY <2>5 DEF OrdersInv, ExecutedOnce
    <2> QED
      BY <2>8, <2>9, <2>10 DEF OrdersInv
  <1>3. ASSUME NEW o \in OrderIds, Cancelled(o)
        PROVE  OrdersInv'
    <2>1. /\ orders' \in [OrderIds -> Order] /\ ~orders'[o].active
          /\ \A i \in OrderIds \ {o} : orders'[i] = orders[i]
          /\ UNCHANGED <<nextOrderId, history>>
      BY <1>3, SpentOrder DEF OrdersInv, Cancelled
    <2> QED
      BY <2>1 DEF OrdersInv, OrdersTyped, OrdersSound, ExecutedOnce
  <1>4. ASSUME NEW o \in OrderIds, Executed(o)
        PROVE  OrdersInv'
    <2>1. /\ orders' \in [OrderIds -> Order] /\ ~orders'[o].active
          /\ \A i \in OrderIds \ {o} : orders'[i] = orders[i]
      BY <1>4, SpentOrder DEF OrdersInv, Executed
    <2>2. /\ history' \in
                [OrderIds -> [target : 0..MaxPositions, executions : Nat]]
          /\ history'[o].executions = history[o].executions + 1
          /\ \A i \in OrderIds \ {o} : history'[i] = history[i]
      BY <1>4, CountedExecution DEF OrdersInv, Executed
    <2>3. history[o].executions = 0 /\ ~(o > nextOrderId)
      BY <1>4 DEF Executed, OrdersInv, OrdersSound
    <2>4. nextOrderId' = nextOrderId
      BY <1>4 DEF Executed
    <2>5. OrdersTyped'
      BY <2>1, <2>2, <2>4 DEF OrdersInv, OrdersTyped
    <2>6. ExecutedOnce'
      BY <2>2, <2>3 DEF OrdersInv, ExecutedOnce
    <2>7. OrdersSound'
      <3>1. \A i \in OrderIds : i > nextOrderId => i # o
        BY <2>3
      <3>2. \A i \in OrderIds : orders'[i].active => i # o
        BY <2>1
      <3> QED
        BY <2>1, <2>2, <2>4, <3>1, <3>2 DEF OrdersInv, OrdersSound
    <2> QED
      BY <2>5, <2>6, <2>7 DEF OrdersInv
  <1> QED
    BY <1>1, <1>2, <1>3, <1>4 DEF OrdersStep

-----------------------------------------------------------------------------
(* The core under the book and the cycle.                                  *)

CoreInv == LifeInv /\ TrackedBacked /\ OINeverOverstated

\* A position is entered and not counted: what a capped order leaves behind.
Uncounted(id, new) ==
    /\ ~positions[id].active
    /\ positions' = [positions EXCEPT ![id] = new]
    /\ UNCHANGED openInterest

CoreStep ==
    /\ TypeOK' /\ KeepsBacking
    /\ LifeStep
    /\ OIStep
    /\ \/ CountStep
       \/ \E id \in PositionIds, new \in Position : Uncounted(id, new)

\* Counting a size that was there, or not counting one that is new, leaves
\* the open interest at most the total.
LEMMA CoreInvNext ==
    ASSUME CoreInv, CoreStep
    PROVE  CoreInv'
  <1>1. LifeInv /\ TypeOK /\ LifeInv'
    BY LifeInvNext DEF CoreInv, CoreStep, LifeInv
  <1>2. TrackedBacked'
    BY DEF CoreInv, CoreStep, KeepsBacking
  <1>3. ASSUME NEW m \in Markets, NEW long \in BOOLEAN
        PROVE  openInterest'[m][OISide(long)] <= ActiveSize(positions', m, long)
    <2> DEFINE oi == openInterest[m][OISide(long)]
               next == openInterest'[m][OISide(long)]
               total == ActiveSize(positions, m, long)
               left == ActiveSize(positions', m, long)
    <2>1. oi \in Nat /\ total \in Nat /\ oi <= total
      BY <1>1, ActiveSizeNat DEF TypeOK, OISide, CoreInv, OINeverOverstated
    <2>2. ASSUME CountStep
          PROVE  next <= left
      <3>1. Tracks(oi, next, total, left)
        BY <1>1, <2>2, SideOfCount
      <3> HIDE DEF oi, next, total, left
      <3>2. next <= left
        BY <2>1, <3>1 DEF Tracks, SatSub
      <3> QED
        BY <3>2
    <2>3. ASSUME NEW id \in PositionIds, NEW new \in Position,
                 Uncounted(id, new)
          PROVE  next <= left
      <3>1. left = total - Share(positions[id], m, long) + Share(new, m, long)
        BY <1>1, <2>3, TotalOfWrite DEF Uncounted
      <3>2. Share(positions[id], m, long) = 0
        BY <2>3 DEF Uncounted, Share
      <3>3. Share(new, m, long) \in Nat
        BY ShareOfWeight
      <3>4. next = oi
        BY <2>3 DEF Uncounted
      <3> HIDE DEF oi, next, total, left
      <3> QED
        BY <2>1, <3>1, <3>2, <3>3, <3>4
    <2> HIDE DEF oi, next, total, left
    <2>4. next <= left
      BY <2>2, <2>3 DEF CoreStep
    <2> QED
      BY <2>4 DEF next, left
  <1>4. OINeverOverstated'
    BY <1>3 DEF OINeverOverstated, ActiveSize
  <1> QED
    BY <1>1, <1>2, <1>4 DEF CoreInv

\* An unchanged core is a step of it.
LEMMA CoreStutters ==
    ASSUME TypeOK, UNCHANGED vars
    PROVE  CoreStep
  <1>1. TypeOK' /\ KeepsBacking
    BY NextType
  <1>2. UNCHANGED <<positions, nextPositionId, userMarketPosition, openInterest>>
    BY DEF vars, positionVars
  <1> QED
    BY <1>1, <1>2 DEF CoreStep, LifeStep, Untouched, OIStep, CountStep

\* The facets' own transactions are steps of the core.
LEMMA CoreOfNext ==
    ASSUME LifeInv, Next
    PROVE  CoreStep
  <1>1. TypeOK /\ TypeOK' /\ KeepsBacking
    BY NextType DEF LifeInv
  <1> QED
    BY <1>1, LifeOfStep, CountOfStep, OIOfStep DEF CoreStep

\* The record an order opens is a position, at the oracle price.
LEMMA OrderedPositionType ==
    ASSUME TypeOK, NEW order \in Order, NEW fs \in FundingState
    PROVE  OrderedPosition(order, fs) \in Position
  <1> DEFINE t == order.collateralToken
             fee == TradingFeeTokens(t, order.sizeUsd, MakerFeeBps)
             net == SatSub(order.collateralAmount, fee)
             usd == normalizeToUsd(t, net)
             entry == latestPrice[order.marketId]
             index == FundingIndex(fs, order.isLong)
  <1>1. /\ t \in Tokens /\ order.sizeUsd \in Nat /\ order.marketId \in Markets
        /\ order.collateralAmount \in Nat /\ order.isLong \in BOOLEAN
        /\ order.user \in Users \cup {NoUser}
    BY DEF Order
  <1> HIDE DEF t
  <1>2. fee \in Nat
    BY <1>1, TradingFeeTokensNat
  <1> HIDE DEF fee
  <1>3. net \in Nat
    BY <1>1, <1>2, SatSubNat
  <1> HIDE DEF net
  <1>4. usd \in Nat
    BY <1>1, <1>3, UsdNat
  <1>5. entry \in Nat
    BY <1>1 DEF TypeOK
  <1>6. index \in Int
    BY <1>1, FundingIndexInt
  <1>7. OrderedPosition(order, fs) =
           [user |-> order.user, marketId |-> order.marketId,
            isLong |-> order.isLong, sizeUsd |-> order.sizeUsd,
            collateralUsd |-> usd, collateralToken |-> t,
            collateralAmount |-> net, entryPrice |-> entry,
            lastFundingIndex |-> index, active |-> TRUE]
    BY DEF OrderedPosition, t, fee, net
  <1> HIDE DEF usd, entry, index
  <1> QED
    BY <1>1, <1>3, <1>4, <1>5, <1>6, <1>7 DEF Position

\* What an order leaves to the insurance fund is unsigned.
LEMMA OrderFeeNat ==
    ASSUME NEW order \in Order
    PROVE  OrderFee(order) \in Nat
  <1>1. order.collateralToken \in Tokens /\ order.sizeUsd \in Nat
    BY DEF Order
  <1>2. TradingFeeTokens(order.collateralToken, order.sizeUsd, MakerFeeBps) \in Nat
    BY <1>1, TradingFeeTokensNat
  <1> QED
    BY <1>2, calculateInsuranceContributionNat DEF OrderFee

\* Entering a position under the next id is opening it, for an owner with no
\* other position in the market; whether it is counted is up to the caller.
LEMMA EnteredPosition ==
    ASSUME LifeInv, NEW order \in Order, order.user \in Users,
           NEW fs \in FundingState, ~MarketTaken(order.user, order.marketId),
           NextId \in PositionIds, EnterPosition(order, NextId, fs)
    PROVE  /\ positions' \in [PositionIds -> Position]
           /\ nextPositionId' \in 0..MaxPositions
           /\ userMarketPosition' \in [Users -> [Markets -> 0..MaxPositions]]
           /\ LifeStep
           /\ IncreaseOI(order.marketId, order.isLong, order.sizeUsd) => CountStep
           /\ UNCHANGED openInterest =>
                 \E id \in PositionIds, new \in Position : Uncounted(id, new)
  <1> DEFINE id == NextId
             new == OrderedPosition(order, fs)
             u == order.user
             m == order.marketId
  <1>1. new \in Position
    BY OrderedPositionType DEF LifeInv
  <1>2. /\ new.user = u /\ new.marketId = m /\ new.isLong = order.isLong
        /\ new.sizeUsd = order.sizeUsd /\ new.active
    BY DEF OrderedPosition
  <1>3. m \in Markets /\ order.sizeUsd \in Nat
    BY DEF Order
  <1>4. /\ nextPositionId' = id
        /\ positions' = [positions EXCEPT ![id] = new]
        /\ userMarketPosition' = [userMarketPosition EXCEPT ![u][m] = id]
    BY DEF EnterPosition
  <1>5. ~positions[id].active
    <2>1. id > nextPositionId
      BY DEF NextId, LifeInv, TypeOK
    <2> QED
      BY <2>1 DEF LifeInv, UnusedIds
  <1>6. userMarketPosition[u][m] # 0 => ~positions[userMarketPosition[u][m]].active
    BY DEF MarketTaken
  <1>7. id = nextPositionId + 1 /\ id \in PositionIds
    BY DEF NextId
  <1> HIDE DEF id, new, u, m
  <1>8. positions' \in [PositionIds -> Position]
    BY <1>1, <1>4 DEF LifeInv, TypeOK
  <1>9. nextPositionId' \in 0..MaxPositions
    BY <1>4, <1>7, CoreAssumption DEF PositionIds
  <1>10. userMarketPosition' \in [Users -> [Markets -> 0..MaxPositions]]
    BY <1>3, <1>4, <1>9 DEF LifeInv, TypeOK
  <1>11. LifeStep
    <2>1. Opened(u, m, id, new)
      BY <1>1, <1>2, <1>4, <1>6, <1>7 DEF Opened
    <2> QED
      BY <1>1, <1>3, <1>7, <2>1 DEF LifeStep, u
  <1>12. ASSUME IncreaseOI(m, order.isLong, order.sizeUsd)
         PROVE  CountStep
    <2>1. Weight(new) = Weight(positions[id]) + order.sizeUsd
      BY <1>2, <1>3, <1>5 DEF Weight
    <2>2. Reweighed(id, new, order.sizeUsd)
      BY <1>2, <1>4, <1>5, <1>12, <2>1 DEF Reweighed
    <2> QED
      BY <1>1, <1>3, <1>7, <2>2 DEF CountStep
  <1>13. UNCHANGED openInterest => Uncounted(id, new)
    BY <1>4, <1>5 DEF Uncounted
  <1> QED
    BY <1>1, <1>7, <1>8, <1>9, <1>10, <1>11, <1>12, <1>13 DEF m

\* executeOrder is a step of the core and spends the order it executes.
LEMMA ExecuteOrderStep ==
    ASSUME LifeInv, OrdersInv, NEW o \in OrderIds, ExecuteOrder(o)
    PROVE  CoreStep /\ OrdersStep
  <1> DEFINE order == orders[o]
             m == order.marketId
             t == order.collateralToken
  <1>1. /\ order \in Order /\ order.user \in Users /\ order.active
        /\ m \in Markets /\ t \in Tokens /\ order.collateralAmount \in Nat
        /\ order.sizeUsd \in Nat /\ order.isLong \in BOOLEAN
    BY DEF OrdersInv, OrdersTyped, OrdersSound, Order, ExecuteOrder
  <1>2. /\ NotPaused(m) /\ ~MarketTaken(order.user, m)
        /\ NextId \in PositionIds
        /\ LockCollateral(order.user, t, order.collateralAmount, 0)
        /\ CreditInsurance(t, OrderFee(order))
        /\ AccrueFunding(m)
        /\ EnterPosition(order, NextId, AccruedFunding(m))
        /\ IncreaseOI(m, order.isLong, order.sizeUsd)
        /\ TradeOnPool(m, order.sizeUsd, order.isLong, TRUE)
        /\ SpendOrder(o) /\ CountExecution(o)
        /\ UNCHANGED <<now, oracleVars, adminVars, outsideVars, nextOrderId>>
    BY DEF ExecuteOrder
  <1>3. TypeOK
    BY DEF LifeInv
  <1>4. AccruedFunding(m) \in FundingState
    BY <1>1, <1>3, AccruedFundingType DEF TypeOK
  <1>5. OrdersStep
    BY <1>1, <1>2 DEF OrdersStep, Executed
  <1>6. OrderFee(order) \in Nat
    BY <1>1, OrderFeeNat
  <1> HIDE DEF order, m, t
  <1>7. /\ positions' \in [PositionIds -> Position]
        /\ nextPositionId' \in 0..MaxPositions
        /\ userMarketPosition' \in [Users -> [Markets -> 0..MaxPositions]]
        /\ LifeStep
        /\ CountStep
    BY <1>1, <1>2, <1>4, EnteredPosition DEF m
  <1>8. /\ accounts' \in [Users -> Account]
        /\ vaultBalances' \in [Tokens -> Nat]
        /\ held' \in [Tokens -> Nat]
        /\ KeepsBacking
    BY <1>1, <1>2, <1>3, SlotsOfIds, LockCollateralType
  <1>9. insuranceBalances' \in [Tokens -> Nat]
    BY <1>1, <1>2, <1>3, <1>6, CreditInsuranceType
  <1>10. fundingStates' \in [Markets -> FundingState]
    BY <1>1, <1>2, <1>3, AccrueFundingType
  <1>11. openInterest' \in [Markets -> [long : Nat, short : Nat]]
    BY <1>1, <1>2, <1>3, OIType
  <1>12. pools' \in [Markets -> [base : Nat, quote : Nat]]
    BY <1>1, <1>2, <1>3, TradeOnPoolType
  <1>13. TypeOK'
    BY <1>2, <1>3, <1>7, <1>8, <1>9, <1>10, <1>11, <1>12
       DEF TypeOK, oracleVars, adminVars, outsideVars
  <1>14. OIStep
    BY <1>1, <1>2 DEF OIStep
  <1> QED
    BY <1>5, <1>7, <1>8, <1>13, <1>14 DEF CoreStep

\* Placing and cancelling leave the core alone.
LEMMA OrderStepStep ==
    ASSUME LifeInv, OrdersInv, OrderStep
    PROVE  CoreStep /\ OrdersStep
  <1>1. TypeOK
    BY DEF LifeInv
  <1>2. ASSUME NEW order \in Order, NEW target \in 0..MaxPositions,
               order.user \in Users,
               order.orderType = "LIMIT" =>
                  order.limitPrice = order.triggerPrice,
               Place(order, target)
        PROVE  CoreStep /\ OrdersStep
    <2>1. Placed(order, target) /\ UNCHANGED vars
      BY <1>2 DEF Place, Placed
    <2> QED
      BY <1>1, <1>2, <2>1, CoreStutters DEF OrdersStep
  <1>3. ASSUME NEW u \in Users, NEW m \in Markets, NEW long \in BOOLEAN,
               NEW type \in OrderTypes \cap OpeningTypes,
               NEW trigger \in TriggerPrices, NEW limit \in TriggerPrices,
               NEW size \in OrderSizes, NEW t \in Tokens, NEW a \in Amounts,
               PlaceOrder(u, m, long, type, trigger, limit, size, t, a)
        PROVE  CoreStep /\ OrdersStep
    <2> DEFINE order ==
          [user |-> u, marketId |-> m, isLong |-> long, orderType |-> type,
           triggerPrice |-> trigger, limitPrice |-> limit, sizeUsd |-> size,
           collateralToken |-> t, collateralAmount |-> a, active |-> TRUE]
    <2>1. Place(order, 0) /\ (type = "LIMIT" => limit = trigger)
      BY <1>3 DEF PlaceOrder
    <2>2. /\ trigger \in Nat /\ limit \in Nat /\ size \in Nat /\ a \in Nat
      BY OrderAssumption, CoreAssumption
    <2>3. order \in Order
      BY <2>2 DEF Order
    <2>4. /\ order.user \in Users
          /\ order.orderType = "LIMIT" => order.limitPrice = order.triggerPrice
      BY <2>1
    <2>5. 0 \in 0..MaxPositions
      BY CoreAssumption
    <2> HIDE DEF order
    <2> QED
      BY <1>2, <2>1, <2>3, <2>4, <2>5
  <1>4. ASSUME NEW id \in PositionIds, NEW type \in OrderTypes \cap ClosingTypes,
               NEW trigger \in TriggerPrices, PlaceCloseOrder(id, type, trigger)
        PROVE  CoreStep /\ OrdersStep
    <2> DEFINE pos == positions[id]
               order ==
          [user |-> pos.user, marketId |-> pos.marketId,
           isLong |-> pos.isLong, orderType |-> type,
           triggerPrice |-> trigger, limitPrice |-> trigger,
           sizeUsd |-> pos.sizeUsd, collateralToken |-> pos.collateralToken,
           collateralAmount |-> 0, active |-> TRUE]
    <2>1. Place(order, id) /\ pos.active
      BY <1>4 DEF PlaceCloseOrder
    <2>2. pos \in Position /\ pos.user \in Users
      BY <2>1 DEF LifeInv, TypeOK, NetMode
    <2> HIDE DEF pos
    <2>3. trigger \in Nat
      BY OrderAssumption
    <2>4. order \in Order
      BY <2>2, <2>3 DEF Order, Position
    <2>5. order.user \in Users /\ order.limitPrice = order.triggerPrice
      BY <2>2
    <2>6. id \in 0..MaxPositions
      BY CoreAssumption DEF PositionIds
    <2> HIDE DEF order
    <2> QED
      BY <1>2, <2>1, <2>4, <2>5, <2>6
  <1>5. ASSUME NEW o \in OrderIds, CancelOrder(o)
        PROVE  CoreStep /\ OrdersStep
    <2>1. Cancelled(o) /\ UNCHANGED vars
      BY <1>5 DEF CancelOrder, Cancelled
    <2> QED
      BY <1>1, <2>1, CoreStutters DEF OrdersStep
  <1> QED
    BY <1>3, <1>4, <1>5, ExecuteOrderStep DEF OrderStep

-----------------------------------------------------------------------------
(* The phases of a cycle.                                                  *)

\* Pushing prices, syncing pools and updating rates only touches what the
\* oracle and the markets keep.
LEMMA StartCycleStep ==
    ASSUME LifeInv, NEW batch \in SUBSET Markets,
           NEW price \in [batch -> Prices], NEW rate \in [batch -> FundingRates],
           StartCycle(price, rate)
    PROVE  CoreStep /\ OrdersStep
  <1>1. TypeOK /\ DOMAIN price = batch
    BY DEF LifeInv
  <1>2. \A m \in batch : m \in Markets /\ price[m] \in Nat /\ rate[m] \in Int
    BY CoreAssumption
  <1>3. latestPrice' \in [Markets -> Nat]
    BY <1>1, <1>2 DEF StartCycle, TypeOK
  <1>4. latestPriceTimestamp' \in [Markets -> Nat]
    BY <1>1, <1>2 DEF StartCycle, TypeOK
  <1>5. pools' \in [Markets -> [base : Nat, quote : Nat]]
    <2>1. ASSUME NEW m \in batch
          PROVE  SyncedPool(pools[m], price[m]) \in [base : Nat, quote : Nat]
      <3>1. pools[m] \in [base : Nat, quote : Nat] /\ price[m] \in Nat
        BY <1>1, <1>2 DEF TypeOK
      <3> QED
        BY <3>1, SyncedPoolNat
    <2> QED
      BY <1>1, <2>1 DEF StartCycle, TypeOK
  <1>6. fundingStates' \in [Markets -> FundingState]
    <2>1. ASSUME NEW m \in batch
          PROVE  [AccruedFunding(m) EXCEPT !.rate = rate[m]] \in FundingState
      <3> DEFINE accrued == AccruedFunding(m)
      <3>1. accrued \in FundingState
        BY <1>1, <1>2, AccruedFundingType DEF TypeOK
      <3> HIDE DEF accrued
      <3>2. [accrued EXCEPT !.rate = rate[m]] \in FundingState
        BY <1>2, <3>1 DEF FundingState
      <3> QED
        BY <3>2 DEF accrued
    <2> QED
      BY <1>1, <2>1 DEF StartCycle, TypeOK
  <1>7. UNCHANGED <<now, adminVars, positionVars, vaultVars, accounts,
                    outsideVars, orderVars>>
    BY DEF StartCycle
  <1>8. TypeOK' /\ KeepsBacking
    BY <1>1, <1>3, <1>4, <1>5, <1>6, <1>7
       DEF TypeOK, KeepsBacking, TrackedBacked, adminVars, positionVars,
           vaultVars, outsideVars
  <1> QED
    BY <1>7, <1>8 DEF CoreStep, OrdersStep, LifeStep, Untouched, OIStep,
                      CountStep, positionVars

\* An order executed in a cycle opens a position, counted and the order
\* spent, or uncounted and the order kept.
LEMMA CycleOpenStep ==
    ASSUME LifeInv, OrdersInv, NEW o \in OrderIds, CycleOpen(o)
    PROVE  CoreStep /\ OrdersStep
  <1> DEFINE order == orders[o]
             m == order.marketId
             t == order.collateralToken
  <1>1. /\ order \in Order /\ order.user \in Users /\ order.active
        /\ m \in Markets /\ t \in Tokens /\ order.collateralAmount \in Nat
        /\ order.sizeUsd \in Nat /\ order.isLong \in BOOLEAN
    BY DEF OrdersInv, OrdersTyped, OrdersSound, Order, CycleOpen, Opens, Routed
  <1>2. /\ NotPaused(m) /\ ~MarketTaken(order.user, m)
        /\ NextId \in PositionIds
        /\ LockCollateral(order.user, t, order.collateralAmount, NextId)
        /\ CreditInsurance(t, OrderFee(order))
        /\ EnterPosition(order, NextId, fundingStates[m])
        /\ \/ UNCHANGED <<openInterest, pools, orders, history>>
           \/ /\ IncreaseOI(m, order.isLong, order.sizeUsd)
              /\ TradeOnPool(m, order.sizeUsd, order.isLong, TRUE)
              /\ SpendOrder(o) /\ CountExecution(o)
        /\ UNCHANGED <<now, oracleVars, fundingStates, adminVars, outsideVars,
                       nextOrderId>>
    BY DEF CycleOpen, Opens, Routed
  <1>3. TypeOK
    BY DEF LifeInv
  <1>4. fundingStates[m] \in FundingState
    BY <1>1, <1>3 DEF TypeOK
  <1>5. OrdersStep
    BY <1>1, <1>2 DEF OrdersStep, Executed, orderVars
  <1>6. OrderFee(order) \in Nat
    BY <1>1, OrderFeeNat
  <1> HIDE DEF order, m, t
  <1>7. /\ positions' \in [PositionIds -> Position]
        /\ nextPositionId' \in 0..MaxPositions
        /\ userMarketPosition' \in [Users -> [Markets -> 0..MaxPositions]]
        /\ LifeStep
        /\ \/ CountStep
           \/ \E id \in PositionIds, new \in Position : Uncounted(id, new)
    BY <1>1, <1>2, <1>4, EnteredPosition DEF m
  <1>8. /\ accounts' \in [Users -> Account]
        /\ vaultBalances' \in [Tokens -> Nat]
        /\ held' \in [Tokens -> Nat]
        /\ KeepsBacking
    BY <1>1, <1>2, <1>3, SlotsOfIds, LockCollateralType
  <1>9. insuranceBalances' \in [Tokens -> Nat]
    BY <1>1, <1>2, <1>3, <1>6, CreditInsuranceType
  <1>10. openInterest' \in [Markets -> [long : Nat, short : Nat]]
    <2>1. CASE UNCHANGED openInterest
      BY <1>3, <2>1 DEF TypeOK
    <2>2. CASE IncreaseOI(m, order.isLong, order.sizeUsd)
      BY <1>1, <1>3, <2>2, OIType
    <2> QED
      BY <1>2, <2>1, <2>2
  <1>11. pools' \in [Markets -> [base : Nat, quote : Nat]]
    <2>1. CASE UNCHANGED pools
      BY <1>3, <2>1 DEF TypeOK
    <2>2. CASE TradeOnPool(m, order.sizeUsd, order.isLong, TRUE)
      BY <1>1, <1>3, <2>2, TradeOnPoolType
    <2> QED
      BY <1>2, <2>1, <2>2
  <1>12. TypeOK'
    BY <1>2, <1>3, <1>7, <1>8, <1>9, <1>10, <1>11
       DEF TypeOK, oracleVars, adminVars, outsideVars
  <1>13. OIStep
    BY <1>1, <1>2 DEF OIStep
  <1> QED
    BY <1>5, <1>7, <1>8, <1>12, <1>13 DEF CoreStep

\* Taking what is paid, and then more, off the tracked balance keeps it
\* within what is left of the tokens held.
LEMMA PaidAndReleased ==
    ASSUME TypeOK, NEW t \in Tokens, NEW paid \in Nat, NEW more \in Nat,
           paid <= held[t],
           held' = [held EXCEPT ![t] = @ - paid],
           vaultBalances' = [vaultBalances EXCEPT
                               ![t] = SatSub(SatSub(@, paid), more)]
    PROVE  /\ vaultBalances' \in [Tokens -> Nat]
           /\ held' \in [Tokens -> Nat]
           /\ KeepsBacking
  <1> DEFINE first == SatSub(vaultBalances[t], paid)
             tracked == SatSub(first, more)
             kept == held[t] - paid
  <1>1. vaultBalances[t] \in Nat /\ held[t] \in Nat
    BY DEF TypeOK
  <1>2. first \in Nat
    BY <1>1, SatSubNat
  <1>3. vaultBalances[t] <= held[t] => first <= kept
    BY <1>1 DEF SatSub
  <1> HIDE DEF first
  <1>4. tracked \in Nat /\ tracked <= first
    BY <1>2 DEF SatSub
  <1>5. kept \in Nat
    BY <1>1
  <1>6. vaultBalances[t] <= held[t] => tracked <= kept
    <2> HIDE DEF tracked, kept
    <2> QED
      BY <1>2, <1>3, <1>4, <1>5
  <1>7. /\ vaultBalances' = [vaultBalances EXCEPT ![t] = tracked]
        /\ held' = [held EXCEPT ![t] = kept]
    BY DEF first
  <1> HIDE DEF tracked, kept
  <1>8. KeepsBacking
    BY <1>6, <1>7 DEF KeepsBacking, TrackedBacked, TypeOK
  <1> QED
    BY <1>4, <1>5, <1>7, <1>8 DEF TypeOK

\* Retiring an active position and taking its size off its side.
LEMMA RetiredPosition ==
    ASSUME LifeInv, NEW id \in PositionIds, NEW new \in Position,
           positions[id].active, ~new.active,
           new.user = positions[id].user,
           new.marketId = positions[id].marketId,
           new.isLong = positions[id].isLong,
           positions' = [positions EXCEPT ![id] = new],
           ForgetEntry(new.user, new.marketId),
           UNCHANGED nextPositionId,
           DecreaseOI(new.marketId, new.isLong, positions[id].sizeUsd)
    PROVE  LifeStep /\ OIStep /\ CountStep
  <1>1. LifeStep
    <2>1. Retired(id, new)
      BY DEF Retired, Rewritten
    <2> QED
      BY <2>1 DEF LifeStep
  <1>2. CountStep
    <2>1. positions[id].sizeUsd \in Nat
      BY DEF LifeInv, TypeOK, Position
    <2>2. Weight(positions[id]) = Weight(new) + positions[id].sizeUsd
      BY <2>1 DEF Weight
    <2>3. Reweighed(id, new, positions[id].sizeUsd)
      BY <2>2 DEF Reweighed
    <2> QED
      BY <2>1, <2>3 DEF CountStep
  <1>3. OIStep
    BY DEF OIStep, LifeInv, TypeOK, Position
  <1> QED
    BY <1>1, <1>2, <1>3

\* A closing order closes the position its owner has in the market: the one
\* the pointer leads to, which net mode makes the owner's and the market's.
LEMMA CycleCloseStep ==
    ASSUME LifeInv, OrdersInv, NEW o \in OrderIds, CycleClose(o)
    PROVE  CoreStep /\ OrdersStep
  <1> DEFINE order == orders[o]
             u == order.user
             m == order.marketId
             id == userMarketPosition[u][m]
             old == positions[id]
             index == FundingIndex(fundingStates[old.marketId], old.isLong)
             pos == SettledAt(old, index)
             t == pos.collateralToken
             fee == TradingFeeTokens(t, pos.sizeUsd, TakerFeeBps)
             cut == calculateInsuranceContribution(fee)
             pnl == calculatePnl(pos, latestPrice[pos.marketId])
             payout == Payout(t, pos.collateralAmount, pnl, fee)
             new == [pos EXCEPT !.active = FALSE]
  <1>1. /\ order.active /\ MarketTaken(u, m)
        /\ payout <= held[t]
        /\ positions' = [positions EXCEPT ![id] = new]
        /\ ForgetEntry(u, m)
        /\ CreditInsurance(t, cut)
        /\ DecreaseOI(m, pos.isLong, pos.sizeUsd)
        /\ TradeOnPool(m, pos.sizeUsd, pos.isLong, FALSE)
        /\ vaultBalances' = [vaultBalances EXCEPT
              ![t] = SatSub(SatSub(@, payout), pos.collateralAmount)]
        /\ held' = [held EXCEPT ![t] = @ - payout]
        /\ accounts' = IF payout = 0 THEN accounts
                       ELSE [accounts EXCEPT ![u] = PayIn(@, t, payout, id)]
        /\ SpendOrder(o) /\ CountExecution(o)
        /\ UNCHANGED <<now, oracleVars, fundingStates, adminVars, outsideVars,
                       nextPositionId, nextOrderId>>
    BY DEF CycleClose, Closes, Routed, Closed, ClosePayout, CloseAccounting
  <1>2. TypeOK /\ order \in Order /\ u \in Users /\ m \in Markets
    BY <1>1 DEF LifeInv, OrdersInv, OrdersTyped, OrdersSound, Order
  <1>3. OrdersStep
    BY <1>1 DEF OrdersStep, Executed
  <1> HIDE DEF order, u, m
  <1>4. id # 0 /\ old.active
    BY <1>1 DEF MarketTaken
  <1>5. id \in PositionIds
    BY <1>2, <1>4, EntryIsId
  <1>6. old \in Position /\ old.user = u /\ old.marketId = m
    BY <1>2, <1>4, <1>5 DEF LifeInv, TypeOK, NetMode
  <1> HIDE DEF id, old
  <1>7. index \in Int
    BY <1>2, <1>6, FundingIndexInt DEF TypeOK, Position
  <1> HIDE DEF index
  <1>8. /\ pos \in Position
        /\ pos.user = u /\ pos.marketId = m /\ pos.isLong = old.isLong
        /\ pos.sizeUsd = old.sizeUsd
    BY <1>6, <1>7, SettledAtType
  <1> HIDE DEF pos
  <1>9. /\ t \in Tokens /\ pos.isLong \in BOOLEAN
        /\ pos.sizeUsd \in Nat /\ pos.collateralAmount \in Nat
    BY <1>8 DEF Position
  <1>10. /\ new \in Position /\ ~new.active
         /\ new.user = u /\ new.marketId = m /\ new.isLong = pos.isLong
    BY <1>8 DEF Position
  <1>11. pnl \in Int
    BY <1>2, <1>8, PositionPnlInt
  <1> HIDE DEF t, new, pnl
  <1>12. fee \in Nat
    BY <1>9, TradingFeeTokensNat
  <1> HIDE DEF fee
  <1>13. cut \in Nat
    BY <1>12, calculateInsuranceContributionNat
  <1>14. payout \in Nat
    BY <1>9, <1>11, <1>12, PayoutNat, CoreAssumption
  <1> HIDE DEF cut, payout
  <1>15. LifeStep /\ OIStep /\ CountStep
    BY <1>1, <1>4, <1>5, <1>6, <1>8, <1>10, RetiredPosition DEF old
  <1>16. /\ vaultBalances' \in [Tokens -> Nat]
         /\ held' \in [Tokens -> Nat]
         /\ KeepsBacking
    BY <1>1, <1>2, <1>9, <1>14, PaidAndReleased
  <1>17. accounts' \in [Users -> Account]
    BY <1>1, <1>2, <1>5, <1>9, <1>14, SlotsOfIds, PayInUsersType DEF TypeOK
  <1>18. positions' \in [PositionIds -> Position]
    BY <1>1, <1>2, <1>10 DEF TypeOK
  <1>19. openInterest' \in [Markets -> [long : Nat, short : Nat]]
    BY <1>1, <1>2, <1>9, OIType
  <1>20. pools' \in [Markets -> [base : Nat, quote : Nat]]
    BY <1>1, <1>2, <1>9, TradeOnPoolType
  <1>21. insuranceBalances' \in [Tokens -> Nat]
    BY <1>1, <1>2, <1>9, <1>13, CreditInsuranceType
  <1>22. userMarketPosition' \in [Users -> [Markets -> 0..MaxPositions]]
    BY <1>1, <1>2, ForgetEntryType
  <1>23. TypeOK'
    BY <1>1, <1>2, <1>16, <1>17, <1>18, <1>19, <1>20, <1>21, <1>22
       DEF TypeOK, oracleVars, adminVars, outsideVars
  <1> QED
    BY <1>3, <1>15, <1>16, <1>23 DEF CoreStep

\* A liquidation of the cycle pays the reward and writes the collateral off.
LEMMA CycleLiquidateStep ==
    ASSUME LifeInv, NEW id \in PositionIds, CycleLiquidate(id)
    PROVE  CoreStep /\ OrdersStep
  <1> DEFINE pos == positions[id]
             t == pos.collateralToken
             equity == Equity(pos, latestPrice[pos.marketId])
             remaining == RemainingCollateral(id)
             reward == KeeperReward(remaining)
             portion == InsurancePortion(remaining)
             new == [pos EXCEPT !.active = FALSE]
  <1>1. TypeOK /\ pos \in Position
    BY DEF LifeInv, TypeOK
  <1>2. /\ pos.active
        /\ reward <= held[t]
        /\ positions' = [positions EXCEPT ![id] = new]
        /\ ForgetEntry(pos.user, pos.marketId)
        /\ DecreaseOI(pos.marketId, pos.isLong, pos.sizeUsd)
        /\ CreditInsurance(t, portion)
        /\ held' = [held EXCEPT ![t] = @ - reward]
        /\ vaultBalances' = [vaultBalances EXCEPT
              ![t] = SatSub(SatSub(@, reward), pos.collateralAmount)]
        /\ UNCHANGED <<now, oracleVars, pools, fundingStates, adminVars,
                       nextPositionId, accounts, outsideVars, orderVars>>
    BY <1>1 DEF CycleLiquidate, CycleLiquidates, TypeOK, Position
  <1>3. remaining = IF equity > 0 THEN usdToTokens(t, equity) ELSE 0
    BY DEF RemainingCollateral
  <1> HIDE DEF pos, remaining
  <1>4. /\ t \in Tokens /\ pos.marketId \in Markets /\ pos.isLong \in BOOLEAN
        /\ pos.sizeUsd \in Nat /\ pos.collateralAmount \in Nat
        /\ pos.collateralUsd \in Nat
    BY <1>1 DEF Position
  <1>5. equity \in Int
    BY <1>1, <1>4, PositionPnlInt DEF Equity
  <1>6. /\ new \in Position /\ ~new.active
        /\ new.user = pos.user /\ new.marketId = pos.marketId
        /\ new.isLong = pos.isLong
    BY <1>1 DEF Position
  <1> HIDE DEF t, equity, new
  <1>7. remaining \in Nat
    <2>1. CASE equity > 0
      <3>1. equity \in Nat /\ t \in DOMAIN UsdScale
        BY <1>4, <1>5, <2>1, CoreAssumption
      <3> QED
        BY <1>3, <2>1, <3>1, usdToTokensNat
    <2>2. CASE ~(equity > 0)
      BY <1>3, <2>2
    <2> QED
      BY <2>1, <2>2
  <1>8. reward \in Nat /\ portion \in Nat
    BY <1>7, LiquidationSplit
  <1> HIDE DEF reward, portion
  <1>9. LifeStep /\ OIStep /\ CountStep
    BY <1>2, <1>6, RetiredPosition DEF pos
  <1>10. /\ vaultBalances' \in [Tokens -> Nat]
         /\ held' \in [Tokens -> Nat]
         /\ KeepsBacking
    BY <1>1, <1>2, <1>4, <1>8, PaidAndReleased
  <1>11. positions' \in [PositionIds -> Position]
    BY <1>1, <1>2, <1>6 DEF TypeOK
  <1>12. openInterest' \in [Markets -> [long : Nat, short : Nat]]
    BY <1>1, <1>2, <1>4, OIType
  <1>13. insuranceBalances' \in [Tokens -> Nat]
    BY <1>1, <1>2, <1>4, <1>8, CreditInsuranceType
  <1>14. userMarketPosition' \in [Users -> [Markets -> 0..MaxPositions]]
    BY <1>1, <1>2, <1>4, ForgetEntryType
  <1>15. TypeOK'
    BY <1>1, <1>2, <1>10, <1>11, <1>12, <1>13, <1>14
       DEF TypeOK, oracleVars, adminVars, outsideVars
  <1> QED
    BY <1>2, <1>9, <1>10, <1>15 DEF CoreStep, OrdersStep

-----------------------------------------------------------------------------
(* The revert.                                                             *)

\* What a cycle leaves alone until it ends, besides the state it saved.
Outside == <<now, adminVars, outsideVars, nextOrderId>>

\* The sets the two states are typed by are the same.
LEMMA SameSets ==
    /\ Before!PositionIds = PositionIds /\ Before!Position = Position
    /\ Before!FundingState = FundingState /\ Before!Account = Account
    /\ Before!OrderIds = OrderIds /\ Before!Order = Order
    /\ \A long \in BOOLEAN : Before!OISide(long) = OISide(long)
    /\ \A book, m, long :
          Before!ActiveSize(book, m, long) = ActiveSize(book, m, long)
  <1>1. Before!PositionIds = PositionIds /\ Before!Position = Position
    BY DEF Before!PositionIds, PositionIds, Before!Position, Position
  <1>2. Before!FundingState = FundingState /\ Before!Account = Account
    BY DEF Before!FundingState, FundingState, Before!Account, Account,
           Before!Slots, Slots
  <1>3. Before!OrderIds = OrderIds /\ Before!Order = Order
    BY DEF Before!OrderIds, OrderIds, Before!Order, Order,
           Before!OpeningTypes, OpeningTypes,
           Before!ClosingTypes, ClosingTypes
  <1>4. \A long \in BOOLEAN : Before!OISide(long) = OISide(long)
    BY DEF Before!OISide, OISide
  <1>5. \A book, m, long :
           Before!ActiveSize(book, m, long) = ActiveSize(book, m, long)
    BY <1>1 DEF Before!ActiveSize, ActiveSize, Before!Share, Share,
                Before!SumFunction, SumFunction,
                Before!SumFunctionOnSet, SumFunctionOnSet,
                Before!FoldFunctionOnSet, FoldFunctionOnSet,
                Before!MapThenFoldSet, MapThenFoldSet
  <1> QED
    BY <1>1, <1>2, <1>3, <1>4, <1>5

\* Being sound does not depend on what a cycle changes.
LEMMA SavedStaysSound ==
    ASSUME Before!SoundState, UNCHANGED <<saved, Outside>>
    PROVE  Before!SoundState'
  <1>1. Before!TypeOK'
    BY DEF Before!SoundState, Before!BookTypeOK, Before!TypeOK, Outside,
           adminVars, outsideVars
  <1>2. Before!BookTypeOK'
    BY <1>1 DEF Before!SoundState, Before!BookTypeOK, Outside
  <1>3. Before!UnusedIds' /\ Before!NetMode'
    BY DEF Before!SoundState, Before!UnusedIds, Before!NetMode
  <1>4. Before!TrackedBacked' /\ Before!OINeverOverstated'
    BY DEF Before!SoundState, Before!TrackedBacked, Before!OINeverOverstated
  <1>5. Before!OrdersSound' /\ Before!ExecutedOnce'
    BY DEF Before!SoundState, Before!OrdersSound, Before!ExecutedOnce, Outside
  <1> QED
    BY <1>2, <1>3, <1>4, <1>5 DEF Before!SoundState

\* The state a revert brings back is the one that was saved.
LEMMA RevertIsSound ==
    ASSUME Before!SoundState, RevertCycle
    PROVE  SoundState'
  <1>1. /\ latestPrice' = saved.latestPrice
        /\ latestPriceTimestamp' = saved.latestPriceTimestamp
        /\ pools' = saved.pools
        /\ fundingStates' = saved.fundingStates
        /\ positions' = saved.positions
        /\ nextPositionId' = saved.nextPositionId
        /\ userMarketPosition' = saved.userMarketPosition
        /\ openInterest' = saved.openInterest
        /\ vaultBalances' = saved.vaultBalances
        /\ insuranceBalances' = saved.insuranceBalances
        /\ held' = saved.held
        /\ accounts' = saved.accounts
        /\ orders' = saved.orders
        /\ history' = saved.history
        /\ UNCHANGED Outside
    BY DEF RevertCycle, Outside
  <1>2. TypeOK'
    BY <1>1, SameSets DEF Before!SoundState, Before!BookTypeOK, Before!TypeOK,
                          TypeOK, Outside, adminVars, outsideVars
  <1>3. BookTypeOK'
    BY <1>1, <1>2, SameSets DEF Before!SoundState, Before!BookTypeOK,
                                BookTypeOK, Outside
  <1>4. UnusedIds' /\ NetMode'
    BY <1>1, SameSets DEF Before!SoundState, Before!UnusedIds, UnusedIds,
                          Before!NetMode, NetMode
  <1>5. TrackedBacked' /\ OINeverOverstated'
    BY <1>1, SameSets DEF Before!SoundState, Before!TrackedBacked,
                          TrackedBacked, Before!OINeverOverstated,
                          OINeverOverstated
  <1>6. OrdersSound' /\ ExecutedOnce'
    BY <1>1, SameSets DEF Before!SoundState, Before!OrdersSound, OrdersSound,
                          Before!ExecutedOnce, ExecutedOnce, Outside
  <1> QED
    BY <1>3, <1>4, <1>5, <1>6 DEF SoundState

\* The state saved is as sound as the state it is taken from.
LEMMA SavedIsSound ==
    ASSUME SoundState, saved' = Snapshot, UNCHANGED Outside
    PROVE  Before!SoundState'
  <1>1. /\ saved'.latestPrice = latestPrice
        /\ saved'.latestPriceTimestamp = latestPriceTimestamp
        /\ saved'.pools = pools
        /\ saved'.fundingStates = fundingStates
        /\ saved'.positions = positions
        /\ saved'.nextPositionId = nextPositionId
        /\ saved'.userMarketPosition = userMarketPosition
        /\ saved'.openInterest = openInterest
        /\ saved'.vaultBalances = vaultBalances
        /\ saved'.insuranceBalances = insuranceBalances
        /\ saved'.held = held
        /\ saved'.accounts = accounts
        /\ saved'.orders = orders
        /\ saved'.history = history
    BY DEF Snapshot
  <1>2. Before!TypeOK'
    BY <1>1, SameSets DEF SoundState, BookTypeOK, TypeOK, Before!TypeOK,
                          Outside, adminVars, outsideVars
  <1>3. Before!BookTypeOK'
    BY <1>1, <1>2, SameSets DEF SoundState, BookTypeOK, Before!BookTypeOK,
                                Outside
  <1>4. Before!UnusedIds' /\ Before!NetMode'
    BY <1>1, SameSets DEF SoundState, UnusedIds, Before!UnusedIds,
                          NetMode, Before!NetMode
  <1>5. Before!TrackedBacked'
    BY <1>1, SameSets DEF SoundState, TrackedBacked, Before!TrackedBacked
  <1>6. Before!OINeverOverstated'
    BY <1>1, SameSets DEF SoundState, OINeverOverstated,
                          Before!OINeverOverstated
  <1>7. Before!OrdersSound' /\ Before!ExecutedOnce'
    BY <1>1, SameSets DEF SoundState, OrdersSound, Before!OrdersSound,
                          ExecutedOnce, Before!ExecutedOnce, Outside
  <1> QED
    BY <1>3, <1>4, <1>5, <1>6, <1>7 DEF SoundState, Before!SoundState

-----------------------------------------------------------------------------
(* Invariance.                                                             *)

\* A sound state, by the parts the two halves of the proof carry.
LEMMA SoundByParts ==
    /\ SoundState <=> CoreInv /\ OrdersInv
    /\ SoundState' <=> CoreInv' /\ OrdersInv'
  BY DEF SoundState, CoreInv, LifeInv, OrdersInv, OrdersTyped, BookTypeOK

\* Every step but a revert is a step of the core and one of the orders.
LEMMA KeeperStep ==
    ASSUME SoundState, KeeperNext, ~RevertCycle
    PROVE  CoreStep /\ OrdersStep
  <1>1. LifeInv /\ OrdersInv /\ TypeOK
    BY SoundByParts DEF CoreInv, LifeInv
  <1>2. CASE BookNext
    <2>1. CASE Next /\ UNCHANGED orderVars
      BY <1>1, <2>1, CoreOfNext DEF OrdersStep
    <2> QED
      BY <1>1, <1>2, <2>1, OrderStepStep DEF BookNext
  <1>3. ASSUME NEW batch \in SUBSET Markets,
               NEW price \in [batch -> Prices],
               NEW rate \in [batch -> FundingRates], StartCycle(price, rate)
        PROVE  CoreStep /\ OrdersStep
    BY <1>1, <1>3, StartCycleStep
  <1>4. CASE OrdersDone \/ EndCycle
    <2>1. UNCHANGED vars /\ UNCHANGED orderVars
      BY <1>4 DEF OrdersDone, EndCycle, bookVars
    <2> QED
      BY <1>1, <2>1, CoreStutters DEF OrdersStep
  <1> QED
    BY <1>1, <1>2, <1>3, <1>4, CycleOpenStep, CycleCloseStep, CycleLiquidateStep
       DEF KeeperNext, CycleStep

\* Executions are only counted up.
LEMMA ExecutionsGrow ==
    ASSUME OrdersInv, OrdersStep, NEW o \in OrderIds
    PROVE  history[o].executions <= history'[o].executions
  <1>1. history[o].executions \in Nat
    BY DEF OrdersInv, OrdersTyped
  <1>2. ASSUME NEW order, NEW target, Placed(order, target)
        PROVE  history'[o].executions = history[o].executions
    BY <1>2 DEF Placed, OrdersInv, OrdersTyped
  <1>3. ASSUME NEW i \in OrderIds, Executed(i)
        PROVE  history[o].executions <= history'[o].executions
    <2>1. /\ history'[i].executions = history[i].executions + 1
          /\ \A j \in OrderIds \ {i} : history'[j] = history[j]
      BY <1>3, CountedExecution DEF Executed, OrdersInv
    <2> QED
      BY <1>1, <2>1
  <1> QED
    BY <1>1, <1>2, <1>3 DEF OrdersStep, orderVars, Cancelled

\* While a cycle goes on, it leaves what it saved and what is outside it.
LEMMA CycleGoesOn ==
    ASSUME KeeperNext, ~RevertCycle, phase # "idle", phase' # "idle"
    PROVE  UNCHANGED <<saved, Outside>>
  <1>1. CASE \E o \in OrderIds : CycleOpen(o) \/ CycleClose(o)
    BY <1>1 DEF CycleOpen, CycleClose, cycleVars, Outside
  <1>2. CASE OrdersDone
    BY <1>2 DEF OrdersDone, bookVars, vars, orderVars, Outside
  <1>3. CASE \E id \in PositionIds : CycleLiquidate(id)
    BY <1>3 DEF CycleLiquidate, cycleVars, orderVars, Outside
  <1> QED
    BY <1>1, <1>2, <1>3 DEF KeeperNext, CycleStep, StartCycle, EndCycle

\* A cycle begins with what it saves.
LEMMA CycleBegins ==
    ASSUME KeeperNext, phase = "idle", phase' # "idle"
    PROVE  saved' = Snapshot /\ UNCHANGED <<Outside, history, openInterest>>
  <1>1. PICK batch \in SUBSET Markets :
           \E price \in [batch -> Prices], rate \in [batch -> FundingRates] :
              StartCycle(price, rate)
    BY DEF KeeperNext, CycleStep, CycleOpen, CycleClose, OrdersDone,
           CycleLiquidate, EndCycle, RevertCycle, cycleVars
  <1> QED
    BY <1>1 DEF StartCycle, Outside, positionVars, orderVars

\* The invariant at deployment.
LEMMA KeeperInvInit == KeeperInit => KeeperInv
  <1> SUFFICES ASSUME KeeperInit PROVE KeeperInv
    OBVIOUS
  <1>1. Init /\ OrderInit /\ phase = "idle"
    BY DEF KeeperInit, BookInit
  <1>2. LifeInv
    BY <1>1, LifeInvInit
  <1>3. TrackedBacked
    BY <1>1 DEF Init, TrackedBacked
  <1>4. OINeverOverstated
    <2>1. OIConsistent
      BY <1>1, OIConsistentInit
    <2>2. ASSUME NEW m \in Markets, NEW long \in BOOLEAN
          PROVE  ActiveSize(positions, m, long) \in Nat
      BY <1>2, ActiveSizeNat DEF LifeInv
    <2> QED
      BY <2>1, <2>2 DEF OIConsistent, OINeverOverstated
  <1>5. EmptyOrder \in Order /\ ~EmptyOrder.active
    BY CoreAssumption DEF EmptyOrder, Order, OpeningTypes
  <1>6. /\ \A o \in OrderIds : orders[o] = EmptyOrder
        /\ \A o \in OrderIds : history[o].executions = 0
    BY <1>1 DEF OrderInit
  <1>7. OrdersTyped
    BY <1>1, <1>5, CoreAssumption, OrderAssumption DEF OrderInit, OrdersTyped
  <1>8. OrdersSound /\ ExecutedOnce
    BY <1>5, <1>6 DEF OrdersSound, ExecutedOnce
  <1>9. SoundState
    BY <1>2, <1>3, <1>4, <1>7, <1>8, SoundByParts DEF CoreInv, OrdersInv
  <1> QED
    BY <1>1, <1>9 DEF KeeperInv

\* The invariant is kept: by the parts of a sound state while things go
\* forward, by the soundness of what was saved when they go back.
LEMMA KeeperInvForward ==
    ASSUME KeeperInv, CoreStep, OrdersStep,
           phase' \in {"idle", "orders", "liquidations"},
           \/ phase' = "idle"
           \/ /\ phase = "idle" /\ saved' = Snapshot
              /\ UNCHANGED <<Outside, history, openInterest>>
           \/ phase # "idle" /\ UNCHANGED <<saved, Outside>>
    PROVE  KeeperInv'
  <1>1. SoundState
    BY DEF KeeperInv
  <1>2. LifeInv /\ TypeOK /\ OrdersInv
    BY <1>1, SoundByParts DEF CoreInv, LifeInv
  <1>3. SoundState' /\ TypeOK' /\ OrdersInv'
    <2>1. CoreInv' /\ OrdersInv'
      BY <1>1, SoundByParts, CoreInvNext, OrdersInvNext
    <2> QED
      BY <2>1, SoundByParts DEF CoreStep
  <1>4. CASE phase' = "idle"
    BY <1>3, <1>4 DEF KeeperInv
  <1>5. CASE phase = "idle" /\ phase' # "idle"
    <2>1. /\ saved' = Snapshot /\ UNCHANGED Outside
          /\ history' = history /\ openInterest' = openInterest
      BY <1>5
    <2>2. Before!SoundState'
      BY <1>1, <2>1, SavedIsSound
    <2>3. saved'.history = history' /\ saved'.openInterest = openInterest'
      BY <2>1 DEF Snapshot
    <2>4. ASSUME NEW o \in OrderIds
          PROVE  history'[o].executions \in Nat
      BY <1>3 DEF OrdersInv, OrdersTyped
    <2>5. ASSUME NEW o \in OrderIds
          PROVE  saved'.history[o].executions <= history'[o].executions
      BY <2>3, <2>4
    <2>6. ASSUME NEW m \in Markets, NEW long \in BOOLEAN
          PROVE  openInterest'[m][OISide(long)] <= OIBefore(m, long)'
      <3>1. OIBefore(m, long)' = openInterest'[m][OISide(long)]
        BY <1>5, <2>3 DEF OIBefore
      <3>2. openInterest'[m][OISide(long)] \in Nat
        BY <1>3 DEF TypeOK, OISide
      <3> QED
        BY <3>1, <3>2
    <2> QED
      BY <1>3, <2>2, <2>5, <2>6 DEF KeeperInv
  <1>6. CASE phase # "idle" /\ phase' # "idle"
    <2>1. UNCHANGED <<saved, Outside>>
      BY <1>6
    <2>2. Before!SoundState'
      BY <1>6, <2>1, SavedStaysSound DEF KeeperInv
    <2>3. ASSUME NEW o \in OrderIds
          PROVE  saved'.history[o].executions <= history'[o].executions
      <3> DEFINE first == saved.history[o].executions
      <3>1. first \in Nat
        BY <1>6, SameSets DEF KeeperInv, Before!SoundState, Before!BookTypeOK
      <3>2. /\ history[o].executions \in Nat
            /\ history'[o].executions \in Nat
        BY <1>2, <1>3 DEF OrdersInv, OrdersTyped
      <3>3. first <= history[o].executions
        BY <1>6 DEF KeeperInv
      <3>4. history[o].executions <= history'[o].executions
        BY <1>2, ExecutionsGrow
      <3>5. saved'.history[o].executions = first
        BY <2>1
      <3> HIDE DEF first
      <3> QED
        BY <3>1, <3>2, <3>3, <3>4, <3>5
    <2>4. ASSUME NEW m \in Markets, NEW long \in BOOLEAN,
                 globalPaused' \/ marketPaused'[m]
          PROVE  openInterest'[m][OISide(long)] <= OIBefore(m, long)'
      <3> DEFINE first == saved.openInterest[m][OISide(long)]
                 oi == openInterest[m][OISide(long)]
                 next == openInterest'[m][OISide(long)]
      <3>1. globalPaused \/ marketPaused[m]
        BY <2>1, <2>4 DEF Outside, adminVars
      <3>2. OIBefore(m, long) = first /\ OIBefore(m, long)' = first
        BY <1>6, <2>1 DEF OIBefore
      <3>3. oi <= first
        BY <1>6, <3>1, <3>2 DEF KeeperInv
      <3>4. next <= oi
        BY <1>2, <3>1, PausedFalls DEF CoreStep
      <3>5. first \in Nat
        BY <1>6, SameSets DEF KeeperInv, Before!SoundState, Before!BookTypeOK,
                              Before!TypeOK, OISide
      <3>6. oi \in Nat /\ next \in Nat
        BY <1>2, <1>3 DEF TypeOK, OISide
      <3> HIDE DEF first, oi, next
      <3>7. next <= first
        BY <3>3, <3>4, <3>5, <3>6
      <3> QED
        BY <3>2, <3>7 DEF next
    <2> QED
      BY <1>3, <2>2, <2>3, <2>4 DEF KeeperInv
  <1> QED
    BY <1>4, <1>5, <1>6

LEMMA KeeperInvNext ==
    ASSUME KeeperInv, [KeeperNext]_keeperVars
    PROVE  KeeperInv'
  <1>1. SoundState /\ phase \in {"idle", "orders", "liquidations"}
    BY DEF KeeperInv
  <1>2. TypeOK
    BY <1>1, SoundByParts DEF CoreInv, LifeInv
  <1>3. CASE UNCHANGED keeperVars
    <2>1. /\ UNCHANGED vars /\ UNCHANGED orderVars
          /\ phase' = phase /\ saved' = saved
      BY <1>3 DEF keeperVars, bookVars, cycleVars
    <2>2. CoreStep /\ OrdersStep
      BY <1>2, <2>1, CoreStutters DEF OrdersStep
    <2>3. UNCHANGED <<saved, Outside>>
      BY <2>1 DEF vars, orderVars, Outside
    <2> QED
      BY <1>1, <2>1, <2>2, <2>3, KeeperInvForward
  <1>4. CASE RevertCycle
    <2>1. phase # "idle" /\ phase' = "idle"
      BY <1>4 DEF RevertCycle
    <2>2. SoundState'
      BY <1>4, <2>1, RevertIsSound DEF KeeperInv
    <2> QED
      BY <2>1, <2>2 DEF KeeperInv
  <1>5. CASE KeeperNext /\ ~RevertCycle
    <2>1. CoreStep /\ OrdersStep
      BY <1>1, <1>5, KeeperStep
    <2>2. phase' \in {"idle", "orders", "liquidations"}
      BY <1>1, <1>5 DEF KeeperNext, CycleStep, StartCycle, CycleOpen, CycleClose,
                        OrdersDone, CycleLiquidate, EndCycle, cycleVars
    <2> QED
      BY <1>5, <2>1, <2>2, KeeperInvForward, CycleBegins, CycleGoesOn
  <1> QED
    BY <1>3, <1>4, <1>5

LEMMA KeeperInvariant == KeeperSpec => []KeeperInv
  BY KeeperInvInit, KeeperInvNext, PTL DEF KeeperSpec

-----------------------------------------------------------------------------
(* Theorems.                                                               *)

\* Whatever users, keepers and administrators do, and wherever a cycle is
\* undone, the book and the core under it stay within their types.
THEOREM BookTypeCorrect == KeeperSpec => []BookTypeOK
  BY KeeperInvariant, PTL DEF KeeperInv, SoundState

\* However often keepers send it, in a cycle or by itself, and however it is
\* cancelled, an order is executed at most once.
THEOREM OrdersExecutedOnce == KeeperSpec => []ExecutedOnce
  BY KeeperInvariant, PTL DEF KeeperInv, SoundState

\* Net mode survives the order book: every path that executes an order asks
\* again whether its owner has a position in the market.
THEOREM BookNetMode == KeeperSpec => []NetMode
  BY KeeperInvariant, PTL DEF KeeperInv, SoundState

\* The vault never tracks more of a token than the diamond holds, though a
\* cycle pays rewards, writes collateral off and may be undone.
THEOREM CycleTrackedBacked == KeeperSpec => []TrackedBacked
  BY KeeperInvariant, PTL DEF KeeperInv, SoundState

\* A capped order of a cycle leaves a position that is not counted; no path
\* ever counts more open interest than there are active positions for.
THEOREM OIUnderstatedAtMost == KeeperSpec => []OINeverOverstated
  BY KeeperInvariant, PTL DEF KeeperInv, SoundState

\* While the protocol or a market is paused no transaction adds open interest
\* to it, executing orders in a cycle and undoing the cycle included.
THEOREM PauseHoldsInCycles == KeeperSpec => PausedAddsNone
  <1>1. ASSUME KeeperInv, [KeeperNext]_keeperVars,
               NEW m \in Markets, NEW long \in BOOLEAN,
               globalPaused \/ marketPaused[m]
        PROVE  openInterest'[m][OISide(long)] <= OIBefore(m, long)
    <2> DEFINE oi == openInterest[m][OISide(long)]
               next == openInterest'[m][OISide(long)]
               first == OIBefore(m, long)
    <2>1. SoundState /\ TypeOK
      BY <1>1, SoundByParts DEF KeeperInv, CoreInv, LifeInv
    <2>2. oi \in Nat
      BY <2>1 DEF TypeOK, OISide
    <2>3. first \in Nat /\ oi <= first
      <3>1. CASE phase = "idle"
        BY <2>2, <3>1 DEF OIBefore
      <3>2. CASE phase # "idle"
        <4>1. first = saved.openInterest[m][OISide(long)]
          BY <3>2 DEF OIBefore
        <4>2. first \in Nat
          BY <1>1, <3>2, <4>1, SameSets
             DEF KeeperInv, Before!SoundState, Before!BookTypeOK,
                 Before!TypeOK, OISide
        <4> QED
          BY <1>1, <3>2, <4>2 DEF KeeperInv
      <3> QED
        BY <3>1, <3>2
    <2>4. CASE RevertCycle
      <3>1. next = first
        BY <2>4 DEF RevertCycle, OIBefore
      <3> QED
        BY <2>3, <3>1
    <2>5. CASE ~RevertCycle
      <3>1. CoreStep
        <4>1. CASE KeeperNext
          BY <2>1, <2>5, <4>1, KeeperStep
        <4>2. CASE UNCHANGED keeperVars
          <5>1. UNCHANGED vars
            BY <4>2 DEF keeperVars, bookVars
          <5> QED
            BY <2>1, <5>1, CoreStutters
        <4> QED
          BY <1>1, <4>1, <4>2
      <3>2. next <= oi
        BY <1>1, <2>1, <3>1, PausedFalls DEF CoreStep
      <3>3. next \in Nat
        BY <3>1 DEF CoreStep, TypeOK, OISide
      <3> HIDE DEF oi, next, first
      <3>4. next <= first
        BY <2>2, <2>3, <3>2, <3>3
      <3> QED
        BY <3>4 DEF next, first
    <2> QED
      BY <2>4, <2>5
  <1>2. KeeperInv /\ [KeeperNext]_keeperVars =>
           [\A m \in Markets, long \in BOOLEAN :
               globalPaused \/ marketPaused[m] =>
                  openInterest'[m][OISide(long)] <= OIBefore(m, long)]_keeperVars
    BY <1>1
  <1> QED
    BY <1>2, KeeperInvariant, PTL DEF KeeperSpec, PausedAddsNone

\* What ExecutedAtLimit says of one order.
AtLimit(o) ==
    LET pos == positions'[nextPositionId']
        order == orders[o]
    IN  /\ <<pos.user, pos.marketId, pos.isLong, pos.sizeUsd>> =
           <<order.user, order.marketId, order.isLong, order.sizeUsd>>
        /\ WithinLimit(order, pos.entryPrice)

\* An opening order that is triggered enters at its limit or better: the
\* limit is looked at for a stop order and is the trigger of a limit order.
LEMMA EnteredAtLimit ==
    ASSUME TypeOK, OrdersInv, NEW o \in OrderIds, orders[o].active,
           orders[o].orderType \in OpeningTypes,
           Triggered(orders[o], latestPrice[orders[o].marketId]),
           NextId \in PositionIds, NEW fs, EnterPosition(orders[o], NextId, fs)
    PROVE  AtLimit(o)
  <1> DEFINE order == orders[o]
             price == latestPrice[order.marketId]
             pos == OrderedPosition(order, fs)
  <1>1. positions'[nextPositionId'] = pos
    BY DEF EnterPosition, TypeOK
  <1>2. /\ pos.user = order.user /\ pos.marketId = order.marketId
        /\ pos.isLong = order.isLong /\ pos.sizeUsd = order.sizeUsd
        /\ pos.entryPrice = price
    BY DEF OrderedPosition
  <1>3. order.isLong \in BOOLEAN
    BY DEF OrdersInv, OrdersTyped, Order
  <1>4. WithinLimit(order, price)
    <2>1. CASE order.orderType = "STOP_LIMIT"
      BY <2>1 DEF Triggered
    <2>2. CASE order.orderType = "LIMIT"
      BY <1>3, <2>2 DEF Triggered, TriggerMet, WithinLimit, OrdersInv, OrdersSound
    <2> QED
      BY <2>1, <2>2 DEF OpeningTypes
  <1> HIDE DEF pos, price
  <1> QED
    BY <1>1, <1>2, <1>4 DEF AtLimit

\* Only the step that executes an order counts it.
LEMMA CountedBy ==
    ASSUME KeeperInv, KeeperNext, NEW o \in OrderIds,
           history'[o].executions > history[o].executions
    PROVE  ExecuteOrder(o) \/ CycleOpen(o) \/ CycleClose(o)
  <1>1. OrdersInv
    BY SoundByParts DEF KeeperInv
  <1>2. history[o].executions \in Nat
    BY <1>1 DEF OrdersInv, OrdersTyped
  <1>3. ~UNCHANGED history
    BY <1>2
  <1>4. CASE RevertCycle
    <2> DEFINE first == saved.history[o].executions
    <2>1. phase # "idle" /\ history'[o].executions = first
      BY <1>4 DEF RevertCycle
    <2>2. first <= history[o].executions
      BY <2>1 DEF KeeperInv
    <2>3. first \in Nat
      BY <2>1, SameSets DEF KeeperInv, Before!SoundState, Before!BookTypeOK
    <2> HIDE DEF first
    <2> QED
      BY <1>2, <2>1, <2>2, <2>3
  <1>5. ASSUME NEW i \in OrderIds,
               ExecuteOrder(i) \/ CycleOpen(i) \/ CycleClose(i)
        PROVE  i = o
    <2>1. CountExecution(i)
      BY <1>3, <1>5 DEF ExecuteOrder, CycleOpen, CycleClose
    <2>2. \A j \in OrderIds \ {i} : history'[j] = history[j]
      BY <1>1, <2>1, CountedExecution DEF OrdersInv
    <2>3. SUFFICES ASSUME i # o PROVE FALSE
      OBVIOUS
    <2>4. history'[o] = history[o]
      BY <2>2, <2>3
    <2> QED
      BY <1>2, <2>4
  <1>6. ASSUME NEW order, NEW target, Place(order, target)
        PROVE  FALSE
    <2>1. history'[o].executions = history[o].executions
      BY <1>1, <1>6 DEF Place, OrdersInv, OrdersTyped
    <2> QED
      BY <1>2, <2>1
  <1>7. CASE BookNext
    <2>1. ~UNCHANGED orderVars /\ ~(\E i \in OrderIds : CancelOrder(i))
      BY <1>3 DEF orderVars, CancelOrder
    <2>2. ASSUME NEW u, NEW m, NEW long, NEW type, NEW trigger, NEW limit,
                 NEW size, NEW t, NEW a,
                 PlaceOrder(u, m, long, type, trigger, limit, size, t, a)
          PROVE  FALSE
      BY <1>6, <2>2 DEF PlaceOrder
    <2>3. ASSUME NEW id, NEW type, NEW trigger,
                 PlaceCloseOrder(id, type, trigger)
          PROVE  FALSE
      BY <1>6, <2>3 DEF PlaceCloseOrder
    <2>4. OrderStep
      BY <1>7, <2>1 DEF BookNext
    <2>5. \E i \in OrderIds : ExecuteOrder(i)
      BY <2>1, <2>2, <2>3, <2>4 DEF OrderStep
    <2> QED
      BY <1>5, <2>5
  <1>8. CASE CycleStep
    <2>1. ~OrdersDone /\ ~EndCycle
      BY <1>3 DEF OrdersDone, EndCycle, bookVars, orderVars
    <2>2. ~(\E id \in PositionIds : CycleLiquidate(id))
      BY <1>3 DEF CycleLiquidate, orderVars
    <2>3. ASSUME NEW price, NEW rate, StartCycle(price, rate)
          PROVE  FALSE
      BY <1>3, <2>3 DEF StartCycle, orderVars
    <2> QED
      BY <1>4, <1>5, <1>8, <2>1, <2>2, <2>3 DEF CycleStep
  <1> QED
    BY <1>7, <1>8 DEF KeeperNext

\* Whether executed by itself or in a cycle, a limit or stop order opens the
\* position its owner asked for, at the limit price or better.
THEOREM LimitsHold == KeeperSpec => ExecutedAtLimit
  <1>1. ASSUME KeeperInv, KeeperNext, NEW o \in OrderIds,
               orders[o].orderType \in OpeningTypes,
               history'[o].executions > history[o].executions
        PROVE  AtLimit(o)
    <2>1. TypeOK /\ OrdersInv
      BY <1>1, SoundByParts DEF KeeperInv, CoreInv, LifeInv
    <2>2. CASE ExecuteOrder(o)
      BY <1>1, <2>1, <2>2, EnteredAtLimit DEF ExecuteOrder
    <2>3. CASE CycleOpen(o)
      BY <1>1, <2>1, <2>3, EnteredAtLimit DEF CycleOpen, Opens, Routed
    <2>4. CASE CycleClose(o)
      BY <1>1, <2>4 DEF CycleClose, Closes, OpeningTypes, ClosingTypes
    <2> QED
      BY <1>1, <2>2, <2>3, <2>4, CountedBy
  <1>2. ASSUME KeeperInv, [KeeperNext]_keeperVars, ~UNCHANGED bookVars
        PROVE  KeeperNext
    BY <1>2 DEF keeperVars
  <1>3. KeeperInv /\ [KeeperNext]_keeperVars =>
           [\A o \in OrderIds :
               orders[o].orderType \in OpeningTypes
               /\ history'[o].executions > history[o].executions =>
                  AtLimit(o)]_bookVars
    BY <1>1, <1>2
  <1>4. KeeperInv /\ [KeeperNext]_keeperVars =>
           [\A o \in OrderIds :
               LET pos == positions'[nextPositionId']
                   order == orders[o]
               IN  order.orderType \in OpeningTypes
                   /\ history'[o].executions > history[o].executions =>
                      /\ <<pos.user, pos.marketId, pos.isLong, pos.sizeUsd>> =
                         <<order.user, order.marketId, order.isLong, order.sizeUsd>>
                      /\ WithinLimit(order, pos.entryPrice)]_bookVars
    BY <1>3 DEF AtLimit
  <1> QED
    BY <1>4, KeeperInvariant, PTL DEF KeeperSpec, ExecutedAtLimit
==============================================================================
