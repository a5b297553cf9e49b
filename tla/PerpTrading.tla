----------------------------- MODULE PerpTrading -----------------------------
(***************************************************************************)
(* The trading core of the diamond: PositionFacet, LiquidationFacet, the   *)
(* central vault, the insurance fund, the user accounts they move tokens   *)
(* to and from, and the oracle, funding and pause operations they read.    *)
(* The variables are the fields of AppStorage (storage/AppStorage.sol) and *)
(* the ERC-20 balances outside it.  Every external function is one         *)
(* transaction, hence one action; a failed require is a disabled action.   *)
(***************************************************************************)
EXTENDS LibPosition, VirtualPool, AccountState, FiniteSetsExt

CONSTANTS
    Users, Markets,
    NoUser,                      \* address(0) in Position.user
    MaxLeverage, MaintenanceMarginBps, MaxOpenInterest,  \* of every market
    MinPositionSizeUsd, MaxPriceStaleness, MaxPriceDeviationBps,
    AdlThreshold,                \* AppStorage.adlThreshold, in USD
    InitialPool,                 \* InitialPool.base = 0: no vAMM
    StartTime, MaxTime,          \* bounds of block.timestamp
    MaxSlotMargin,               \* bound on what a margin slot accumulates
    Prices, FundingRates,        \* values the oracle and the rate take
    Amounts, Leverages, CloseSizes,        \* inputs of the users
    VaultAmounts,                \* inputs of the funder and the insurance admin
    WalletFunds, TreasuryFunds,  \* tokens each user and the funder start with
    Switchable                   \* the pause switches the admin may toggle

ASSUME CoreAssumption ==
    /\ MaxPositions \in Nat
    /\ StartTime \in Nat \ {0} /\ MaxTime \in Nat
    /\ MaxSlotMargin \in Nat /\ AdlThreshold \in Nat
    /\ MaxPriceStaleness \in Nat /\ StartTime > MaxPriceStaleness
    /\ NoToken \notin Tokens /\ NoUser \notin Users
    /\ Markets # {} /\ Tokens # {}
    /\ MaxLeverage \in Nat /\ MaxOpenInterest \in Nat
    /\ MinPositionSizeUsd \in Nat /\ MaxPriceDeviationBps \in 0..BPS
    /\ Prices \subseteq Nat \ {0}
    /\ FundingRates \subseteq Int /\ 0 \in FundingRates
    /\ Amounts \subseteq Nat /\ CloseSizes \subseteq Nat
    /\ Leverages \subseteq Nat /\ VaultAmounts \subseteq Nat
    /\ WalletFunds \in Nat /\ TreasuryFunds \in Nat
    /\ MaintenanceMarginBps \in 1..(BPS - 1)
    /\ DOMAIN UsdScale = Tokens
    /\ InitialPool \in [base : Nat, quote : Nat]

VARIABLES
    now,                   \* block.timestamp
    latestPrice, latestPriceTimestamp, pools, fundingStates,
    globalPaused, marketPaused, marketEnabled,
    positions, nextPositionId, userMarketPosition, openInterest,
    vaultBalances, insuranceBalances,
    held,                  \* balanceOf(diamond), by token
    accounts,              \* the TradingAccount clone of each user
    wallets, treasury      \* tokens users and the funder keep outside

oracleVars   == <<latestPrice, latestPriceTimestamp>>
adminVars    == <<globalPaused, marketPaused, marketEnabled>>
positionVars == <<positions, nextPositionId, userMarketPosition, openInterest>>
vaultVars    == <<vaultBalances, insuranceBalances, held>>
outsideVars  == <<wallets, treasury>>
vars == <<now, oracleVars, pools, fundingStates, adminVars, positionVars,
          vaultVars, accounts, outsideVars>>

PositionIds == 1..MaxPositions

Position ==
    [user : Users \cup {NoUser}, marketId : Markets, isLong : BOOLEAN,
     sizeUsd : Nat, collateralUsd : Nat, collateralToken : Tokens,
     collateralAmount : Nat, entryPrice : Nat, lastFundingIndex : Int,
     active : BOOLEAN]

\* A storage slot never written: no user, no size.
EmptyPosition ==
    [user |-> NoUser, marketId |-> CHOOSE m \in Markets : TRUE,
     isLong |-> FALSE, sizeUsd |-> 0, collateralUsd |-> 0,
     collateralToken |-> CHOOSE t \in Tokens : TRUE, collateralAmount |-> 0,
     entryPrice |-> 0, lastFundingIndex |-> 0, active |-> FALSE]

Init ==
    /\ now = StartTime
    /\ latestPrice = [m \in Markets |-> 0]
    /\ latestPriceTimestamp = [m \in Markets |-> 0]
    /\ pools = [m \in Markets |-> InitialPool]
    /\ fundingStates = [m \in Markets |->
                          [long |-> 0, short |-> 0, last |-> 0, rate |-> 0]]
    /\ globalPaused = FALSE
    /\ marketPaused = [m \in Markets |-> FALSE]
    /\ marketEnabled = [m \in Markets |-> TRUE]
    /\ positions = [i \in PositionIds |-> EmptyPosition]
    /\ nextPositionId = 0
    /\ userMarketPosition = [u \in Users |-> [m \in Markets |-> 0]]
    /\ openInterest = [m \in Markets |-> [long |-> 0, short |-> 0]]
    /\ vaultBalances = [t \in Tokens |-> 0]
    /\ insuranceBalances = [t \in Tokens |-> 0]
    /\ held = [t \in Tokens |-> 0]
    /\ accounts = [u \in Users |-> EmptyAccount(FALSE)]
    /\ wallets = [u \in Users |-> [t \in Tokens |-> WalletFunds]]
    /\ treasury = [t \in Tokens |-> TreasuryFunds]

-----------------------------------------------------------------------------
(* Helpers the facets share.                                               *)

NotPaused_GlobalOnly(m) == ~globalPaused

NotPaused(m) == ~globalPaused /\ ~marketPaused[m]

PriceFresh(m) == now <= latestPriceTimestamp[m] + MaxPriceStaleness

AccruedFunding_SameSign(m) ==
    LET fs == fundingStates[m]
        accrued == fs.rate * (now - fs.last)
    IN  IF fs.last = 0 THEN [fs EXCEPT !.last = now]
        ELSE [fs EXCEPT !.long = @ + accrued, !.short = @ + accrued,
                        !.last = now]

\* The funding state of market m brought up to block.timestamp.
AccruedFunding(m) ==
    LET fs == fundingStates[m]
        accrued == fs.rate * (now - fs.last)
    IN  IF fs.last = 0 THEN [fs EXCEPT !.last = now]
        ELSE [fs EXCEPT !.long = @ + accrued, !.short = @ - accrued,
                        !.last = now]

FundingIndex(fs, isLong) == IF isLong THEN fs.long ELSE fs.short

\* A position brought to the given funding index: the payment comes out of,
\* or goes into, the collateral; what exceeds it drains it to zero.
SettledAt(pos, index) ==
    LET payment == mulFpSigned(pos.sizeUsd, index - pos.lastFundingIndex)
        tokens == usdToTokens(pos.collateralToken,
                              IF payment >= 0 THEN payment ELSE -payment)
        drained == payment > 0 /\ tokens >= pos.collateralAmount
    IN  [pos EXCEPT
           !.lastFundingIndex = index,
           !.collateralAmount = IF drained THEN 0
                                ELSE IF payment > 0 THEN @ - tokens
                                ELSE @ + tokens,
           !.collateralUsd = IF drained THEN 0
                             ELSE IF payment > 0 THEN SatSub(@, payment)
                             ELSE @ - payment]

\* _settleFundingForPosition: accrue, then settle at the accrued index.
Settled(pos) ==
    SettledAt(pos, FundingIndex(AccruedFunding(pos.marketId), pos.isLong))

AccrueFunding(m) == fundingStates' = [fundingStates EXCEPT ![m] = AccruedFunding(m)]

OISide(isLong) == IF isLong THEN "long" ELSE "short"

IncreaseOI(m, isLong, size) ==
    openInterest' = [openInterest EXCEPT ![m][OISide(isLong)] = @ + size]

DecreaseOI_WrongSide(m, isLong, size) ==
    openInterest' = [openInterest EXCEPT ![m][OISide(~isLong)] = SatSub(@, size)]

DecreaseOI(m, isLong, size) ==
    openInterest' = [openInterest EXCEPT ![m][OISide(isLong)] = SatSub(@, size)]

ForgetEntry_Kept(u, m) == UNCHANGED userMarketPosition

ForgetEntry(u, m) ==
    userMarketPosition' = [userMarketPosition EXCEPT ![u][m] = 0]

\* Opening a long and closing a short buy from the pool.
TradeOnPool(m, size, isLong, isOpen) ==
    pools' = [pools EXCEPT ![m] =
                ApplyVirtualTrade(@, size, isLong = isOpen)]

\* lockForPosition on the user's account, then the tokens are the vault's.
LockCollateral(u, t, amount, slot) ==
    /\ CanLock(accounts[u], t, amount)
    /\ accounts[u].margins[slot].locked + amount <= MaxSlotMargin   \* bound
    /\ accounts' = [accounts EXCEPT ![u] = LockForPosition(@, t, amount, slot)]
    /\ vaultBalances' = [vaultBalances EXCEPT ![t] = @ + amount]
    /\ held' = [held EXCEPT ![t] = @ + amount]

\* _payoutToVault; nothing happens to the tokens when the amount is 0.
PayoutToVault(u, t, amount, slot) ==
    /\ amount <= held[t]
    /\ vaultBalances' = [vaultBalances EXCEPT ![t] = SatSub(@, amount)]
    /\ held' = [held EXCEPT ![t] = @ - amount]
    /\ accounts' = IF amount = 0 THEN accounts
                   ELSE [accounts EXCEPT ![u] = PayIn(@, t, amount, slot)]

CreditInsurance(t, amount) ==
    insuranceBalances' = [insuranceBalances EXCEPT ![t] = @ + amount]

-----------------------------------------------------------------------------
(* PositionFacet: the life of a position.                                  *)

\* The fee in tokens on a trade of the given size.
TradingFeeTokens(t, size, feeBps) ==
    usdToTokens(t, calculateTradingFee(size, feeBps))

NextId_FreeList ==
    IF \E id \in PositionIds : ~positions[id].active
    THEN CHOOSE id \in PositionIds : ~positions[id].active
    ELSE MaxPositions + 1

NextId == nextPositionId + 1

\* openPosition locks the collateral under slot 0: positionId has not been
\* assigned yet when it is passed to lockForPosition.
OpenPosition(u, m, t, amount, leverage, isLong) ==
    LET usd == normalizeToUsd(t, amount)
        size == mulFp(usd, leverage)
        entry == ExecutionPrice(pools[m], latestPrice[m], size, isLong)
        fee == TradingFeeTokens(t, size, TakerFeeBps)
        feeTaken == fee > 0 /\ fee < amount
        net == IF feeTaken THEN amount - fee ELSE amount
        id == NextId
        fs == AccruedFunding(m)
    IN  /\ NotPaused(m) /\ marketEnabled[m]
        /\ userMarketPosition[u][m] # 0 =>
              ~positions[userMarketPosition[u][m]].active
        /\ size >= MinPositionSizeUsd
        /\ LeverageAllowed(size, usd, MaxLeverage)
        /\ openInterest[m][OISide(isLong)] + size <= MaxOpenInterest
        /\ PriceFresh(m)
        /\ entry > 0
        /\ id \in PositionIds                       \* bound on position ids
        /\ LockCollateral(u, t, amount, 0)
        /\ CreditInsurance(t, IF feeTaken
                              THEN calculateInsuranceContribution(fee) ELSE 0)
        /\ AccrueFunding(m)
        /\ nextPositionId' = id
        /\ positions' = [positions EXCEPT ![id] =
             [user |-> u, marketId |-> m, isLong |-> isLong, sizeUsd |-> size,
              collateralUsd |-> normalizeToUsd(t, net), collateralToken |-> t,
              collateralAmount |-> net, entryPrice |-> entry,
              lastFundingIndex |-> FundingIndex(fs, isLong), active |-> TRUE]]
        /\ userMarketPosition' = [userMarketPosition EXCEPT ![u][m] = id]
        /\ IncreaseOI(m, isLong, size)
        /\ TradeOnPool(m, size, isLong, TRUE)
        /\ UNCHANGED <<now, oracleVars, adminVars, outsideVars>>

AddCollateral_ClosedToo(id, amount) ==
    LET pos == positions[id]
        t == pos.collateralToken
    IN  /\ pos.user # NoUser
        /\ LockCollateral(pos.user, t, amount, id)
        /\ positions' = [positions EXCEPT
              ![id].collateralAmount = @ + amount,
              ![id].collateralUsd = @ + normalizeToUsd(t, amount)]
        /\ UNCHANGED <<now, oracleVars, pools, fundingStates, adminVars,
                       nextPositionId, userMarketPosition, openInterest,
                       insuranceBalances, outsideVars>>

\* No settlement of funding, no pause and no staleness check here.
AddCollateral(id, amount) ==
    LET pos == positions[id]
        t == pos.collateralToken
    IN  /\ pos.active
        /\ LockCollateral(pos.user, t, amount, id)
        /\ positions' = [positions EXCEPT
              ![id].collateralAmount = @ + amount,
              ![id].collateralUsd = @ + normalizeToUsd(t, amount)]
        /\ UNCHANGED <<now, oracleVars, pools, fundingStates, adminVars,
                       nextPositionId, userMarketPosition, openInterest,
                       insuranceBalances, outsideVars>>

\* The margin left must be twice the maintenance margin.
RemoveCollateral(id, amount) ==
    LET before == positions[id]
        pos == Settled(before)
        t == pos.collateralToken
        usd == SatSub(pos.collateralUsd, normalizeToUsd(t, amount))
        left == [pos EXCEPT !.collateralAmount = @ - amount,
                            !.collateralUsd = usd]
    IN  /\ before.active
        /\ amount > 0 /\ amount < before.collateralAmount
        /\ PriceFresh(pos.marketId)
        /\ usd > 0
        /\ amount <= pos.collateralAmount        \* checked subtraction
        /\ pos.sizeUsd > 0                       \* division by the size
        /\ Equity(left, latestPrice[pos.marketId]) > 0
        /\ ~MarginBelow(left, latestPrice[pos.marketId],
                        MaintenanceMarginBps * 2)
        /\ LeverageAllowed(pos.sizeUsd, usd, MaxLeverage)
        /\ positions' = [positions EXCEPT ![id] = left]
        /\ AccrueFunding(pos.marketId)
        /\ PayoutToVault(pos.user, t, amount, 0)
        /\ UNCHANGED <<now, oracleVars, pools, adminVars, nextPositionId,
                       userMarketPosition, openInterest, insuranceBalances,
                       outsideVars>>

\* addSize compares nothing with MaxOpenInterest and credits no insurance.
AddSize(id, amount, leverage) ==
    LET pos == Settled(positions[id])
        m == pos.marketId
        t == pos.collateralToken
        usd == normalizeToUsd(t, amount)
        size == mulFp(usd, leverage)
        net == SatSub(amount, TradingFeeTokens(t, size, TakerFeeBps))
    IN  /\ positions[id].active
        /\ NotPaused(m)
        /\ PriceFresh(m)
        /\ LeverageAllowed(size, usd, MaxLeverage)
        /\ LockCollateral(pos.user, t, amount, id)
        /\ positions' = [positions EXCEPT ![id] =
             [pos EXCEPT
                !.entryPrice = calculateAverageEntryPrice(
                                  pos.sizeUsd, @, size, latestPrice[m]),
                !.sizeUsd = @ + size,
                !.collateralAmount = @ + net,
                !.collateralUsd = @ + normalizeToUsd(t, net)]]
        /\ AccrueFunding(m)
        /\ IncreaseOI(m, pos.isLong, size)
        /\ TradeOnPool(m, size, pos.isLong, TRUE)
        /\ UNCHANGED <<now, oracleVars, adminVars, nextPositionId,
                       userMarketPosition, insuranceBalances, outsideVars>>

\* Close a fraction; a remainder below the minimum size is refused.
PartialClose(id, size) ==
    LET pos == Settled(positions[id])
        m == pos.marketId
        t == pos.collateralToken
        fraction == divFp(size, pos.sizeUsd)
        pnl == mulFpSigned(calculatePnl(pos, latestPrice[m]), fraction)
        released == mulFp(pos.collateralAmount, fraction)
        fee == TradingFeeTokens(t, size, TakerFeeBps)
    IN  /\ positions[id].active
        /\ size > 0 /\ size < pos.sizeUsd
        /\ pos.sizeUsd - size >= MinPositionSizeUsd
        /\ PriceFresh(m)
        /\ positions' = [positions EXCEPT ![id] =
             [pos EXCEPT !.sizeUsd = @ - size,
                         !.collateralAmount = @ - released,
                         !.collateralUsd = @ - mulFp(@, fraction)]]
        /\ AccrueFunding(m)
        /\ CreditInsurance(t, calculateInsuranceContribution(fee))
        /\ DecreaseOI(m, pos.isLong, size)
        /\ TradeOnPool(m, size, pos.isLong, FALSE)
        /\ PayoutToVault(pos.user, t, Payout(t, released, pnl, fee), 0)
        /\ UNCHANGED <<now, oracleVars, adminVars, nextPositionId,
                       userMarketPosition, outsideVars>>

\* The storage record stays, inactive, with its settled collateral.
ClosePosition(id) ==
    LET pos == Settled(positions[id])
        m == pos.marketId
        t == pos.collateralToken
        pnl == calculatePnl(pos, latestPrice[m])
        fee == TradingFeeTokens(t, pos.sizeUsd, TakerFeeBps)
    IN  /\ positions[id].active
        /\ PriceFresh(m)
        /\ positions' = [positions EXCEPT ![id] = [pos EXCEPT !.active = FALSE]]
        /\ ForgetEntry(pos.user, m)
        /\ AccrueFunding(m)
        /\ CreditInsurance(t, calculateInsuranceContribution(fee))
        /\ DecreaseOI(m, pos.isLong, pos.sizeUsd)
        /\ TradeOnPool(m, pos.sizeUsd, pos.isLong, FALSE)
        /\ PayoutToVault(pos.user, t,
                         Payout(t, pos.collateralAmount, pnl, fee), 0)
        /\ UNCHANGED <<now, oracleVars, adminVars, nextPositionId, outsideVars>>

-----------------------------------------------------------------------------
(* LiquidationFacet.                                                       *)

\* Anyone may liquidate, at whatever age the price has.  The tracked vault
\* balance is reduced by the reward, by the remainder returned to the user
\* and by the whole collateral; only the first two leave the diamond.
Liquidate(id) ==
    LET pos == Settled(positions[id])
        m == pos.marketId
        t == pos.collateralToken
        equity == Equity(pos, latestPrice[m])
        remaining == IF equity > 0 THEN usdToTokens(t, equity) ELSE 0
        reward == KeeperReward(remaining)
        remainder == SatSub(remaining, LiquidationPenalty(remaining))
    IN  /\ positions[id].active
        /\ latestPrice[m] > 0
        /\ MarginBelow(pos, latestPrice[m], MaintenanceMarginBps)
        /\ reward + remainder <= held[t]
        /\ positions' = [positions EXCEPT ![id] = [pos EXCEPT !.active = FALSE]]
        /\ ForgetEntry(pos.user, m)
        /\ AccrueFunding(m)
        /\ DecreaseOI(m, pos.isLong, pos.sizeUsd)
        /\ TradeOnPool(m, pos.sizeUsd, pos.isLong, FALSE)
        /\ CreditInsurance(t, InsurancePortion(remaining))
        /\ held' = [held EXCEPT ![t] = @ - reward - remainder]
        /\ vaultBalances' = [vaultBalances EXCEPT ![t] =
              SatSub(SatSub(SatSub(@, reward), remainder), pos.collateralAmount)]
        /\ accounts' = IF remainder = 0 THEN accounts
                       ELSE [accounts EXCEPT ![pos.user] =
                               PayIn(@, t, remainder, id)]
        /\ UNCHANGED <<now, oracleVars, adminVars, nextPositionId, outsideVars>>

ADLAllowed(id, size) ==
    /\ positions[id].active
    /\ size > 0 /\ size <= positions[id].sizeUsd
    /\ calculatePnl(positions[id], latestPrice[positions[id].marketId]) > 0

\* The keeper takes a fraction of a winning position out at its profit.
\* Funding is not settled first, nor is the insurance fund looked at.
AutoDeleverage(id, size) ==
    LET pos == positions[id]
        m == pos.marketId
        t == pos.collateralToken
        fraction == divFp(size, pos.sizeUsd)
        pnl == calculatePnl(pos, latestPrice[m])
        released == mulFp(pos.collateralAmount, fraction)
        payout == released + usdToTokens(t, mulFpSigned(pnl, fraction))
    IN  /\ ADLAllowed(id, size)
        /\ positions' = [positions EXCEPT ![id] =
             [pos EXCEPT !.sizeUsd = @ - size,
                         !.collateralAmount = @ - released,
                         !.collateralUsd = @ - mulFp(@, fraction),
                         !.active = size < pos.sizeUsd]]
        /\ IF size < pos.sizeUsd THEN UNCHANGED userMarketPosition
                                 ELSE ForgetEntry(pos.user, m)
        /\ DecreaseOI(m, pos.isLong, size)
        /\ PayoutToVault(pos.user, t, payout, id)
        /\ UNCHANGED <<now, oracleVars, pools, fundingStates, adminVars,
                       nextPositionId, insuranceBalances, outsideVars>>

-----------------------------------------------------------------------------
(* CentralVaultFacet and InsuranceFundFacet.                               *)

FundVault(t, amount) ==
    /\ amount > 0 /\ amount <= treasury[t]
    /\ treasury' = [treasury EXCEPT ![t] = @ - amount]
    /\ held' = [held EXCEPT ![t] = @ + amount]
    /\ vaultBalances' = [vaultBalances EXCEPT ![t] = @ + amount]
    /\ UNCHANGED <<now, oracleVars, pools, fundingStates, adminVars,
                   positionVars, insuranceBalances, accounts, wallets>>

DefundVault(t, amount) ==
    /\ amount > 0
    /\ vaultBalances[t] >= amount
    /\ held[t] >= amount
    /\ vaultBalances' = [vaultBalances EXCEPT ![t] = @ - amount]
    /\ held' = [held EXCEPT ![t] = @ - amount]
    /\ treasury' = [treasury EXCEPT ![t] = @ + amount]
    /\ UNCHANGED <<now, oracleVars, pools, fundingStates, adminVars,
                   positionVars, insuranceBalances, accounts, wallets>>

WithdrawInsurance_Untracked(t, amount) ==
    /\ amount > 0
    /\ insuranceBalances[t] >= amount
    /\ held[t] >= amount
    /\ insuranceBalances' = [insuranceBalances EXCEPT ![t] = @ - amount]
    /\ held' = [held EXCEPT ![t] = @ - amount]
    /\ UNCHANGED <<now, oracleVars, pools, fundingStates, adminVars,
                   positionVars, vaultBalances, accounts, outsideVars>>

\* Paid out of the central vault: insurance is a share of the same tokens.
WithdrawInsurance(t, amount) ==
    /\ amount > 0
    /\ insuranceBalances[t] >= amount
    /\ held[t] >= amount
    /\ insuranceBalances' = [insuranceBalances EXCEPT ![t] = @ - amount]
    /\ vaultBalances' = [vaultBalances EXCEPT ![t] = SatSub(@, amount)]
    /\ held' = [held EXCEPT ![t] = @ - amount]
    /\ UNCHANGED <<now, oracleVars, pools, fundingStates, adminVars,
                   positionVars, accounts, outsideVars>>

-----------------------------------------------------------------------------
(* The user's own account: VaultFactoryFacet and TradingAccount.           *)

CreateVault(u) ==
    /\ ~accounts[u].exists
    /\ accounts' = [accounts EXCEPT ![u] = EmptyAccount(TRUE)]
    /\ UNCHANGED <<now, oracleVars, pools, fundingStates, adminVars,
                   positionVars, vaultVars, outsideVars>>

\* Tokens between the user's wallet and account, locked ones staying out.
MoveToWallet(u, t, amount) ==
    /\ accounts' = [accounts EXCEPT ![u].balance[t] = @ - amount]
    /\ wallets' = [wallets EXCEPT ![u][t] = @ + amount]
    /\ UNCHANGED <<now, oracleVars, pools, fundingStates, adminVars,
                   positionVars, vaultVars, treasury>>

Deposit(u, t, amount) ==
    /\ accounts[u].exists
    /\ amount > 0 /\ amount <= wallets[u][t]
    /\ accounts' = [accounts EXCEPT ![u].balance[t] = @ + amount]
    /\ wallets' = [wallets EXCEPT ![u][t] = @ - amount]
    /\ UNCHANGED <<now, oracleVars, pools, fundingStates, adminVars,
                   positionVars, vaultVars, treasury>>

Withdraw(u, t, amount) ==
    /\ accounts[u].exists
    /\ amount > 0 /\ amount <= AvailableBalance(accounts[u], t)
    /\ MoveToWallet(u, t, amount)

EmergencyWithdraw(u, t) ==
    /\ accounts[u].exists
    /\ AvailableBalance(accounts[u], t) > 0
    /\ MoveToWallet(u, t, AvailableBalance(accounts[u], t))

-----------------------------------------------------------------------------
(* The oracle poster, the keeper and the administrators.                   *)

\* The first price of a market is accepted whatever it is.
WithinDeviation(m, price) ==
    latestPrice[m] > 0 /\ MaxPriceDeviationBps > 0 =>
       LET delta == IF price > latestPrice[m] THEN price - latestPrice[m]
                                              ELSE latestPrice[m] - price
       IN  (delta * BPS) \div latestPrice[m] <= MaxPriceDeviationBps

\* batchUpdatePrices, one market of the batch at a time.
UpdatePrice(m, price) ==
    /\ WithinDeviation(m, price)
    /\ latestPrice' = [latestPrice EXCEPT ![m] = price]
    /\ latestPriceTimestamp' = [latestPriceTimestamp EXCEPT ![m] = now]
    /\ UNCHANGED <<now, pools, fundingStates, adminVars, positionVars,
                   vaultVars, accounts, outsideVars>>

\* Accrue at the old rate, then set the rate.  The rate the code computes
\* from the 15-minute TWAP and the mark price is any of FundingRates; it is
\* 0 without a pool and left alone while the market has no price.
UpdateFundingRate(m, rate) ==
    /\ latestPrice[m] = 0 => rate = fundingStates[m].rate
    /\ latestPrice[m] > 0 /\ pools[m].base = 0 => rate = 0
    /\ fundingStates' = [fundingStates EXCEPT
                           ![m] = [AccruedFunding(m) EXCEPT !.rate = rate]]
    /\ UNCHANGED <<now, oracleVars, pools, adminVars, positionVars,
                   vaultVars, accounts, outsideVars>>

SyncToOracle(m) ==
    /\ pools[m].base > 0
    /\ latestPrice[m] > 0
    /\ pools' = [pools EXCEPT ![m] = SyncedPool(@, latestPrice[m])]
    /\ UNCHANGED <<now, oracleVars, fundingStates, adminVars, positionVars,
                   vaultVars, accounts, outsideVars>>

\* pauseGlobal and unpauseGlobal: each refuses the state it would set.
SwitchGlobalPause ==
    /\ "global" \in Switchable
    /\ globalPaused' = ~globalPaused
    /\ UNCHANGED <<now, oracleVars, pools, fundingStates, marketPaused,
                   marketEnabled, positionVars, vaultVars, accounts,
                   outsideVars>>

SwitchMarketPause(m) ==
    /\ "market" \in Switchable
    /\ marketPaused' = [marketPaused EXCEPT ![m] = ~@]
    /\ UNCHANGED <<now, oracleVars, pools, fundingStates, globalPaused,
                   marketEnabled, positionVars, vaultVars, accounts,
                   outsideVars>>

\* enableMarket and disableMarket.
SwitchMarketEnabled(m) ==
    /\ "enabled" \in Switchable
    /\ marketEnabled' = [marketEnabled EXCEPT ![m] = ~@]
    /\ UNCHANGED <<now, oracleVars, pools, fundingStates, globalPaused,
                   marketPaused, positionVars, vaultVars, accounts,
                   outsideVars>>

Tick ==
    /\ now < MaxTime                                   \* bound on the clock
    /\ now' = now + 1
    /\ UNCHANGED <<oracleVars, pools, fundingStates, adminVars, positionVars,
                   vaultVars, accounts, outsideVars>>

-----------------------------------------------------------------------------
PositionStep ==
    \/ \E u \in Users, m \in Markets, t \in Tokens, a \in Amounts,
          l \in Leverages, long \in BOOLEAN : OpenPosition(u, m, t, a, l, long)
    \/ \E id \in PositionIds :
          \/ \E a \in Amounts : AddCollateral(id, a)
          \/ \E a \in Amounts : RemoveCollateral(id, a)
          \/ \E a \in Amounts, l \in Leverages : AddSize(id, a, l)
          \/ \E size \in CloseSizes : PartialClose(id, size)
          \/ ClosePosition(id)

LiquidationStep ==
    \E id \in PositionIds :
       \/ Liquidate(id)
       \/ \E size \in CloseSizes : AutoDeleverage(id, size)

VaultStep ==
    \E t \in Tokens, a \in VaultAmounts :
       \/ FundVault(t, a)
       \/ DefundVault(t, a)
       \/ WithdrawInsurance(t, a)

AccountStep ==
    \E u \in Users :
       \/ CreateVault(u)
       \/ \E t \in Tokens :
             \/ \E a \in Amounts : Deposit(u, t, a)
             \/ \E a \in Amounts : Withdraw(u, t, a)
             \/ EmergencyWithdraw(u, t)

MarketStep ==
    \/ \E m \in Markets :
          \/ \E p \in Prices : UpdatePrice(m, p)
          \/ \E r \in FundingRates : UpdateFundingRate(m, r)
          \/ SyncToOracle(m)
          \/ SwitchMarketPause(m)
          \/ SwitchMarketEnabled(m)
    \/ SwitchGlobalPause

Next == \/ PositionStep \/ LiquidationStep \/ VaultStep
        \/ AccountStep \/ MarketStep \/ Tick

Spec == Init /\ [][Next]_vars

-----------------------------------------------------------------------------
(* What the views tell the keepers.                                        *)

\* The requirements of liquidate, as far as the position is concerned.
Liquidatable(id) ==
    LET pos == positions[id]
    IN  /\ pos.active
        /\ latestPrice[pos.marketId] > 0
        /\ MarginBelow(Settled(pos), latestPrice[pos.marketId],
                       MaintenanceMarginBps)

PendingFunding_LongOnly(pos) ==
    LET fs == fundingStates[pos.marketId]
        pending == fs.rate * SatSub(now, fs.last)
        index == IF pos.isLong THEN fs.long + pending ELSE fs.short + pending
    IN  mulFpSigned(pos.sizeUsd, index - pos.lastFundingIndex)

\* The pending payment checkLiquidatable takes off the equity.
PendingFunding(pos) ==
    LET fs == fundingStates[pos.marketId]
        pending == fs.rate * SatSub(now, fs.last)
        index == IF pos.isLong THEN fs.long + pending ELSE fs.short - pending
    IN  mulFpSigned(pos.sizeUsd, index - pos.lastFundingIndex)

CheckLiquidatable(id) ==
    LET pos == positions[id]
        price == latestPrice[pos.marketId]
        adjusted == Equity(pos, price) - PendingFunding(pos)
    IN  /\ pos.active /\ price > 0
        /\ \/ adjusted <= 0 \/ pos.sizeUsd = 0
           \/ (adjusted * BPS) \div pos.sizeUsd < MaintenanceMarginBps

ShouldTriggerADL(t) == normalizeToUsd(t, insuranceBalances[t]) < AdlThreshold

-----------------------------------------------------------------------------
(* Properties.                                                             *)

Account ==
    [exists : BOOLEAN, balance : [Tokens -> Nat], totalLocked : [Tokens -> Nat],
     margins : [Slots -> [token : Tokens \cup {NoToken}, locked : Nat]],
     active : Seq(Slots), index : [Slots -> Nat]]

FundingState == [long : Int, short : Int, last : Nat, rate : Int]

\* Every variable has the type of its AppStorage field; the counters that
\* are unsigned in the code never go below zero.
TypeOK ==
    /\ now \in Nat
    /\ latestPrice \in [Markets -> Nat]
    /\ latestPriceTimestamp \in [Markets -> Nat]
    /\ pools \in [Markets -> [base : Nat, quote : Nat]]
    /\ fundingStates \in [Markets -> FundingState]
    /\ globalPaused \in BOOLEAN
    /\ marketPaused \in [Markets -> BOOLEAN]
    /\ marketEnabled \in [Markets -> BOOLEAN]
    /\ positions \in [PositionIds -> Position]
    /\ nextPositionId \in 0..MaxPositions
    /\ userMarketPosition \in [Users -> [Markets -> 0..MaxPositions]]
    /\ openInterest \in [Markets -> [long : Nat, short : Nat]]
    /\ vaultBalances \in [Tokens -> Nat]
    /\ insuranceBalances \in [Tokens -> Nat]
    /\ held \in [Tokens -> Nat]
    /\ accounts \in [Users -> Account]
    /\ wallets \in [Users -> [Tokens -> Nat]]
    /\ treasury \in [Tokens -> Nat]

\* What net mode rests on: the ids not given out are unused.
UnusedIds ==
    \A id \in PositionIds : id > nextPositionId =>
       positions[id].user = NoUser /\ ~positions[id].active

\* Net mode: an active position is the one its owner's entry for the market
\* points to, so a user has at most one position per market, and an entry
\* that is not 0 points to an active position of that user in that market.
NetMode ==
    /\ \A id \in PositionIds : positions[id].active =>
          /\ positions[id].user \in Users
          /\ userMarketPosition[positions[id].user][positions[id].marketId] = id
    /\ \A u \in Users, m \in Markets : userMarketPosition[u][m] # 0 =>
          LET pos == positions[userMarketPosition[u][m]]
          IN  pos.active /\ pos.user = u /\ pos.marketId = m

\* What a position adds to the open interest of one side of market m.
Share(pos, m, long) ==
    IF pos.active /\ pos.marketId = m /\ pos.isLong = long
    THEN pos.sizeUsd ELSE 0

ActiveSize(book, m, long) ==
    SumFunction([id \in PositionIds |-> Share(book[id], m, long)])

\* The open interest of a side is the total size of its active positions:
\* no path that opens, resizes, closes or liquidates forgets its share.
OIConsistent ==
    \A m \in Markets, long \in BOOLEAN :
       openInterest[m][OISide(long)] = ActiveSize(positions, m, long)

\* The vault balance the diamond tracks is always backed by tokens it holds,
\* whatever order deposits, payouts, rewards and withdrawals come in.
TrackedBacked == \A t \in Tokens : vaultBalances[t] <= held[t]

\* What longs are charged per unit of size is what shorts are credited.
FundingOpposite ==
    \A m \in Markets : fundingStates[m].short = -fundingStates[m].long

\* A keeper that looks at checkLiquidatable misses no position liquidate
\* would accept, although one adjusts the equity and the other settles.
LiquidationsSeen ==
    \A id \in PositionIds : Liquidatable(id) => CheckLiquidatable(id)

\* A position is closed, liquidated or deleveraged for good: its record is
\* never written again and its id never reused.
ClosedIsFinal ==
    [][\A id \in PositionIds :
          positions[id].user # NoUser /\ ~positions[id].active =>
             positions'[id] = positions[id]]_vars

\* The facets implement the abstract life of positions: every transaction
\* opens one position under the next id, retires one that was active, or
\* leaves every owner, market and status alone, and a user who is let in by
\* the userMarketPosition pointer has no other position in the market.
Book == [id \in PositionIds |->
           [user |-> positions[id].user, marketId |-> positions[id].marketId,
            active |-> positions[id].active]]

Lifecycle == INSTANCE PositionLifecycle WITH book <- Book,
                                             lastId <- nextPositionId

ImplementsLifecycle == Lifecycle!Spec

\* While the protocol or a market is paused, no side of it gains open
\* interest; positions can still be reduced, closed and liquidated.
PausedNoNewExposure ==
    [][\A m \in Markets, long \in BOOLEAN :
          globalPaused \/ marketPaused[m] =>
             openInterest'[m][OISide(long)] <= openInterest[m][OISide(long)]]_vars

\* What a position is to user u in token t: its collateral while active.
Stake(pos, u, t) ==
    IF pos.active /\ pos.user = u /\ pos.collateralToken = t
    THEN pos.collateralAmount ELSE 0

\* What a user owns: the wallet, the account and the active collateral.
Owned(u, t) ==
    wallets[u][t] + accounts[u].balance[t]
      + SumFunction([id \in PositionIds |-> Stake(positions[id], u, t)])

\* At one constant price and without funding, no sequence of operations
\* leaves a user with more tokens than the user brought: rounding, fees and
\* penalties always go against the trader.
NoFreeMoney == \A u \in Users, t \in Tokens : Owned(u, t) <= WalletFunds

-----------------------------------------------------------------------------
(* Statements of the documentation, each checked by a run of its own.      *)

\* "Settled automatically on every position interaction": a step that
\* changes the size or the collateral of an active position leaves its
\* funding index at the market's current one.
FundingSettledOnInteraction ==
    [][\A id \in PositionIds :
          LET pos == positions[id] new == positions'[id]
          IN  pos.active /\ <<new.sizeUsd, new.collateralAmount>> #
                            <<pos.sizeUsd, pos.collateralAmount>> =>
                 new.lastFundingIndex =
                    FundingIndex(AccruedFunding(pos.marketId), pos.isLong)]_vars

\* "Max total OI per market": neither side exceeds the market's cap.
OIWithinCap ==
    \A m \in Markets, long \in BOOLEAN :
       openInterest[m][OISide(long)] <= MaxOpenInterest

\* "True if margin < maintenance": a position reported as liquidatable is
\* one that liquidate accepts.
ReportedIsLiquidatable ==
    \A id \in PositionIds : CheckLiquidatable(id) => Liquidatable(id)

\* "Only locked (in-position) collateral is inaccessible": a user without
\* an active position can withdraw all the account holds.
IdleWithdrawable ==
    \A u \in Users, t \in Tokens :
       (\A id \in PositionIds : positions[id].active => positions[id].user # u)
          => AvailableBalance(accounts[u], t) = accounts[u].balance[t]

\* "It only triggers when shouldTriggerADL() returns true."
ADLOnlyWhenTriggered ==
    [][\A id \in PositionIds, size \in CloseSizes :
          AutoDeleverage(id, size) =>
             ShouldTriggerADL(positions[id].collateralToken)]_vars

\* "Weighted average entry price": adding to a position moves its entry
\* price to a value between the old entry and the price of the addition.
AverageBetween ==
    [][\A id \in PositionIds :
          LET pos == positions[id] new == positions'[id]
              price == latestPrice[pos.marketId]
          IN  pos.active /\ new.sizeUsd > pos.sizeUsd =>
                 \/ pos.entryPrice <= new.entryPrice /\ new.entryPrice <= price
                 \/ price <= new.entryPrice
                    /\ new.entryPrice <= pos.entryPrice]_vars
==============================================================================
