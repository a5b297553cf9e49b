--------------------------- MODULE KeeperMulticall ---------------------------
(***************************************************************************)
(* KeeperMulticallFacet.executeCycle over the order book: one transaction  *)
(* that pushes prices, syncs the pools and updates the funding rates of a  *)
(* batch of markets, then executes orders, then liquidates positions.  An  *)
(* item of the last two phases that fails is skipped and keeps what it has *)
(* already written; a call it makes to a token or an account that fails    *)
(* reverts the whole cycle.  The transaction is taken apart into one step  *)
(* for the first three phases and one per item after them; `saved' holds   *)
(* the state it started from, for the revert, and no other transaction     *)
(* runs before it ends.  executePriceCycle is a cycle without items.       *)
(***************************************************************************)
EXTENDS OrderBook

VARIABLES
    phase,      \* "idle", or the phase of executeCycle under way
    saved       \* the state the cycle started from; <<>> while idle

cycleVars == <<phase, saved>>
keeperVars == <<bookVars, cycleVars>>

KeeperInit == BookInit /\ phase = "idle" /\ saved = <<>>

Snapshot ==
    [latestPrice |-> latestPrice, latestPriceTimestamp |-> latestPriceTimestamp,
     pools |-> pools, fundingStates |-> fundingStates, positions |-> positions,
     nextPositionId |-> nextPositionId,
     userMarketPosition |-> userMarketPosition, openInterest |-> openInterest,
     vaultBalances |-> vaultBalances, insuranceBalances |-> insuranceBalances,
     held |-> held, accounts |-> accounts, orders |-> orders,
     history |-> history]

-----------------------------------------------------------------------------
(* Phases 1 to 3, for the markets of the batch.                            *)

\* _pushPrices, _syncAllVAMMs and _updateAllFundingRates.  The rate is any
\* of FundingRates, 0 without a pool, as in UpdateFundingRate.
StartCycle(price, rate) ==
    LET batch == DOMAIN price
    IN  /\ phase = "idle"
        /\ \A m \in batch : WithinDeviation(m, price[m])
        /\ \A m \in batch : pools[m].base = 0 => rate[m] = 0
        /\ phase' = "orders"
        /\ saved' = Snapshot
        /\ latestPrice' = [m \in Markets |->
              IF m \in batch THEN price[m] ELSE latestPrice[m]]
        /\ latestPriceTimestamp' = [m \in Markets |->
              IF m \in batch THEN now ELSE latestPriceTimestamp[m]]
        /\ pools' = [m \in Markets |->
              IF m \in batch /\ pools[m].base > 0
              THEN SyncedPool(pools[m], price[m]) ELSE pools[m]]
        /\ fundingStates' = [m \in Markets |->
              IF m \in batch THEN [AccruedFunding(m) EXCEPT !.rate = rate[m]]
                             ELSE fundingStates[m]]
        /\ UNCHANGED <<now, adminVars, positionVars, vaultVars, accounts,
                       outsideVars, orderVars>>

-----------------------------------------------------------------------------
(* Phase 4: orders.                                                        *)

\* What an order is skipped for before it is routed by type.
Routed(order) ==
    /\ order.active
    /\ NotPaused(order.marketId)
    /\ latestPrice[order.marketId] > 0
    /\ Triggered(order, latestPrice[order.marketId])

\* What _executeOpenOrder returns false for before it writes anything.
Opens(order) ==
    /\ Routed(order) /\ order.orderType \in OpeningTypes
    /\ ~MarketTaken(order.user, order.marketId)
    /\ marketEnabled[order.marketId]
    /\ accounts[order.user].exists

\* Everything is written before the cap is looked at: an order beyond it
\* leaves its position behind, uncounted, and stays active, not executed.
\* Funding is read as it stands, accrued in this cycle only for the markets
\* of the batch.
CycleOpen(o) ==
    LET order == orders[o]
        m == order.marketId
        t == order.collateralToken
        capped == openInterest[m][OISide(order.isLong)] + order.sizeUsd
                     > MaxOpenInterest
    IN  /\ phase = "orders"
        /\ Opens(order)
        /\ NextId \in PositionIds                    \* bound on position ids
        /\ LockCollateral(order.user, t, order.collateralAmount, NextId)
        /\ CreditInsurance(t, OrderFee(order))
        /\ EnterPosition(order, NextId, fundingStates[m])
        /\ \/ capped /\ UNCHANGED <<openInterest, pools, orders, history>>
           \/ /\ ~capped
              /\ IncreaseOI(m, order.isLong, order.sizeUsd)
              /\ TradeOnPool(m, order.sizeUsd, order.isLong, TRUE)
              /\ SpendOrder(o)
              /\ CountExecution(o)
        /\ UNCHANGED <<now, oracleVars, fundingStates, adminVars, outsideVars,
                       nextOrderId, cycleVars>>

\* The position _executeCloseOrder closes: whatever the owner has open in
\* the order's market, settled at the index as it stands.
Closed(order) ==
    LET pos == positions[userMarketPosition[order.user][order.marketId]]
    IN  SettledAt(pos, FundingIndex(fundingStates[pos.marketId], pos.isLong))

Closes(order) ==
    /\ Routed(order) /\ order.orderType \in ClosingTypes
    /\ MarketTaken(order.user, order.marketId)

ClosePayout(order) ==
    LET pos == Closed(order)
        t == pos.collateralToken
    IN  Payout(t, pos.collateralAmount,
               calculatePnl(pos, latestPrice[pos.marketId]),
               TradingFeeTokens(t, pos.sizeUsd, TakerFeeBps))

\* Payout and collateral both come off the tracked vault balance.
CloseAccounting_PayoutUntracked(t, payout, collateral) ==
    vaultBalances' = [vaultBalances EXCEPT ![t] = SatSub(@, collateral)]

CloseAccounting(t, payout, collateral) ==
    vaultBalances' = [vaultBalances EXCEPT
                        ![t] = SatSub(SatSub(@, payout), collateral)]

CycleClose(o) ==
    LET order == orders[o]
        m == order.marketId
        id == userMarketPosition[order.user][m]
        pos == Closed(order)
        t == pos.collateralToken
        payout == ClosePayout(order)
    IN  /\ phase = "orders"
        /\ Closes(order)
        /\ payout <= held[t]
        /\ positions' = [positions EXCEPT ![id] = [pos EXCEPT !.active = FALSE]]
        /\ ForgetEntry(order.user, m)
        /\ CreditInsurance(t, calculateInsuranceContribution(
                                 TradingFeeTokens(t, pos.sizeUsd, TakerFeeBps)))
        /\ DecreaseOI(m, pos.isLong, pos.sizeUsd)
        /\ TradeOnPool(m, pos.sizeUsd, pos.isLong, FALSE)
        /\ CloseAccounting(t, payout, pos.collateralAmount)
        /\ held' = [held EXCEPT ![t] = @ - payout]
        /\ accounts' = IF payout = 0 THEN accounts
                       ELSE [accounts EXCEPT ![order.user] =
                               PayIn(@, t, payout, id)]
        /\ SpendOrder(o)
        /\ CountExecution(o)
        /\ UNCHANGED <<now, oracleVars, fundingStates, adminVars, outsideVars,
                       nextPositionId, nextOrderId, cycleVars>>

OrdersDone ==
    /\ phase = "orders"
    /\ phase' = "liquidations"
    /\ UNCHANGED <<bookVars, saved>>

-----------------------------------------------------------------------------
(* Phase 5: liquidations.                                                  *)

\* The margin is the stored one: no funding is settled.
CycleLiquidates(id) ==
    LET pos == positions[id]
    IN  /\ pos.active
        /\ latestPrice[pos.marketId] > 0
        /\ MarginBelow(pos, latestPrice[pos.marketId], MaintenanceMarginBps)

RemainingCollateral(id) ==
    LET pos == positions[id]
        equity == Equity(pos, latestPrice[pos.marketId])
    IN  IF equity > 0 THEN usdToTokens(pos.collateralToken, equity) ELSE 0

\* The reward goes to the keeper; nothing is paid to the owner and the pool
\* is left as it is.
CycleLiquidate(id) ==
    LET pos == positions[id]
        t == pos.collateralToken
        remaining == RemainingCollateral(id)
        reward == KeeperReward(remaining)
    IN  /\ phase = "liquidations"
        /\ CycleLiquidates(id)
        /\ reward <= held[t]
        /\ positions' = [positions EXCEPT ![id].active = FALSE]
        /\ ForgetEntry(pos.user, pos.marketId)
        /\ DecreaseOI(pos.marketId, pos.isLong, pos.sizeUsd)
        /\ CreditInsurance(t, InsurancePortion(remaining))
        /\ held' = [held EXCEPT ![t] = @ - reward]
        /\ vaultBalances' = [vaultBalances EXCEPT
              ![t] = SatSub(SatSub(@, reward), pos.collateralAmount)]
        /\ UNCHANGED <<now, oracleVars, pools, fundingStates, adminVars,
                       nextPositionId, accounts, outsideVars, orderVars,
                       cycleVars>>

EndCycle ==
    /\ phase = "liquidations"
    /\ phase' = "idle"
    /\ saved' = <<>>
    /\ UNCHANGED bookVars

\* The calls that revert: the account refuses the lock, or the diamond does
\* not hold the tokens it is to pay out.
OrderReverts(order) ==
    \/ /\ Opens(order)
       /\ ~CanLock(accounts[order.user], order.collateralToken,
                   order.collateralAmount)
    \/ /\ Closes(order)
       /\ ClosePayout(order) > held[Closed(order).collateralToken]

LiquidationReverts(id) ==
    /\ CycleLiquidates(id)
    /\ KeeperReward(RemainingCollateral(id)) > held[positions[id].collateralToken]

RevertCycle ==
    /\ \/ phase = "orders" /\ \E o \in OrderIds : OrderReverts(orders[o])
       \/ phase = "liquidations" /\ \E id \in PositionIds : LiquidationReverts(id)
    /\ latestPrice' = saved.latestPrice
    /\ latestPriceTimestamp' = saved.latestPriceTimestamp
    /\ pools' = saved.pools
    /\ fundingStates' = saved.fundingStates
    /\ positions' = saved.positions
    /\ nextPositionId' = saved.nextPositionId
    /\ userMarketPosition' = saved.userMarketPosition
    /\ openInterest' = saved.openInterest
    /\ vaultBalances' = saved.vaultBalances
    /\ insuranceBalances' = saved.insuranceBalances
    /\ held' = saved.held
    /\ accounts' = saved.accounts
    /\ orders' = saved.orders
    /\ history' = saved.history
    /\ phase' = "idle"
    /\ saved' = <<>>
    /\ UNCHANGED <<now, adminVars, outsideVars, nextOrderId>>

-----------------------------------------------------------------------------
CycleStep ==
    \/ \E batch \in SUBSET Markets :
          \E price \in [batch -> Prices], rate \in [batch -> FundingRates] :
             StartCycle(price, rate)
    \/ \E o \in OrderIds : CycleOpen(o) \/ CycleClose(o)
    \/ OrdersDone
    \/ \E id \in PositionIds : CycleLiquidate(id)
    \/ EndCycle
    \/ RevertCycle

KeeperNext ==
    \/ phase = "idle" /\ BookNext /\ UNCHANGED cycleVars
    \/ CycleStep

KeeperSpec == KeeperInit /\ [][KeeperNext]_keeperVars

-----------------------------------------------------------------------------
(* Properties.                                                             *)

\* A soft failure may leave a position uncounted, and closing it takes its
\* size off what others hold; but no path ever counts more open interest
\* than the active positions have, so the cap never refuses wrongly.
OINeverOverstated ==
    \A m \in Markets, long \in BOOLEAN :
       openInterest[m][OISide(long)] <= ActiveSize(positions, m, long)

\* What every transaction leaves in force, and a revert brings back.
SoundState ==
    /\ BookTypeOK
    /\ UnusedIds /\ NetMode
    /\ TrackedBacked /\ OINeverOverstated
    /\ OrdersSound /\ ExecutedOnce

\* The open interest the transaction under way began with.
OIBefore(m, long) ==
    IF phase = "idle" THEN openInterest[m][OISide(long)]
                      ELSE saved.openInterest[m][OISide(long)]

\* While the protocol or a market is paused no transaction adds open interest
\* to it: what a cycle liquidates and then takes back by a revert does not
\* exceed what the cycle began with.
PausedAddsNone ==
    [][\A m \in Markets, long \in BOOLEAN :
          globalPaused \/ marketPaused[m] =>
             openInterest'[m][OISide(long)] <= OIBefore(m, long)]_keeperVars

-----------------------------------------------------------------------------
(* Statements of comments and documents, each checked by a run of its own. *)

\* "OI cap exceeded - skip": an order the cycle skips has no effect, so only
\* an order that is spent by the step opens a position.
SkippedLeavesNothing ==
    [][\A id \in PositionIds :
          phase = "orders" /\ ~positions[id].active /\ positions'[id].active
             => \E o \in OrderIds : orders[o].active /\ ~orders'[o].active
      ]_keeperVars

\* "one revert doesn't block the batch": a cycle whose prices were accepted
\* is carried through.
BatchNotBlocked == [][~RevertCycle]_keeperVars

\* "The position to close when trigger hits": a closing order closes the
\* position it was placed on.
ClosesItsPosition ==
    [][\A o \in OrderIds, id \in PositionIds :
          orders[o].orderType \in ClosingTypes
          /\ history'[o].executions > history[o].executions
          /\ positions[id].active /\ ~positions'[id].active =>
             id = history[o].target]_keeperVars

\* "Funding already accrued in Phase 3": a position owes nothing for the time
\* before it was opened.
NothingOwedAtBirth ==
    [][\A id \in PositionIds :
          ~positions[id].active /\ positions'[id].active =>
             PendingFunding(positions[id])' = 0]_keeperVars

\* "Remainder (if any): returned to the trader's UserVault": a liquidation
\* that leaves something after the penalty pays it to the owner.
RemainderReturned ==
    [][\A id \in PositionIds :
          LET pos == positions[id]
              t == pos.collateralToken
              remaining == RemainingCollateral(id)
          IN  phase = "liquidations" /\ pos.active /\ ~positions'[id].active =>
                 accounts'[pos.user].balance[t] =
                    accounts[pos.user].balance[t]
                      + SatSub(remaining, LiquidationPenalty(remaining))]_keeperVars
==============================================================================
