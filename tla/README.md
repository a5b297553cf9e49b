# Sidiora Perpetual Protocol: TLA+ models and proofs

This directory models the Sidiora perpetual-futures protocol: the trading core
of the diamond (positions, liquidation, vault, insurance, user accounts), the
order book and the keeper's cycle over it, the four services that run beside it
(oracle, perps-engine, keeper, indexer), and the scripts that deploy and upgrade
it, with the TLC runs that check the models on small instances and TLAPS proofs
that hold for every value of the constants. `PROJECT.json` lists the components,
the runs, the lines of source each definition translates (`map`), the hazards
and the theorems.

To parse, check and prove, from this directory:

    tlasany PerpTrading.tla
    tlc -workers 2 -config MCPerpTradingLife.cfg MCPerpTrading
    tlapm PerpTradingProofs.tla

## 1. The system

Contracts (`contracts/`): one EIP-2535 diamond whose facets share one storage
struct, `AppStorage`, and one `TradingAccount` clone per user outside it.
Services (`.oracle`, `.perps-engine`, `.keeper`, `.indexer`): Node.js processes
that post prices, run cycles, liquidate and index events.

| Component | State it keeps | Operations | What makes it correct |
|---|---|---|---|
| PositionFacet | positions, id counter, `userMarketPosition`, open interest | open, add/remove collateral, addSize, partialClose, close | one position per user and market; open interest is the sum of active sizes; a closed record stays closed; no exposure added while paused; rounding never favours the trader |
| LiquidationFacet | the same | liquidate, checkLiquidatable, autoDeleverage | the view agrees with the transaction; payouts stay inside what the vault holds |
| CentralVault, InsuranceFund | `vaultBalances`, `insuranceBalances` | fund, defund, withdrawInsurance, shouldTriggerADL | tracked balance backed by tokens held |
| TradingAccount, VaultFactory | balances, locked totals, per-position margins, swap-and-pop list of active positions | create, deposit, withdraw, emergencyWithdraw, lock, unlock; delegation, transferMargin, topUp, margin mode | idle funds withdrawable; list and index agree; locked totals agree with margins |
| OracleFacet, PriceFeed, LibTWAP | latest price, time, bounded history | batchUpdatePrices, TWAP | deviation bound between posts; TWAP is a weighted mean of the window |
| VirtualAMM | base and quote reserve per market | sync to oracle, trade, execution price | reserves stay positive, spread against the trader |
| FundingRateFacet | cumulative index per side, rate, time | updateFundingRate, settlement inside every trade | what one side pays the other is credited |
| OrderBookFacet | limit, stop and TP/SL orders | place, cancel, executeOrder | an order executes at most once, at its trigger, and re-checks what changed |
| KeeperMulticallFacet | none of its own | executeCycle: prices, AMM, funding, orders, liquidations | an item that fails softly leaves nothing written |
| Pausable, MarketRegistry, AccessControl, CollateralFacet, QuoterFacet | switches, market parameters, roles | setters, views | read by every trading entry |
| Diamond, LibDiamond | selector and facet indices | add, replace, remove | the two indices are inverse; a removed facet has no selectors |
| oracle service | nothing across cycles but a failure counter | ask both sources, post one batch, retry, time out | prices reach the chain through outages and timeouts; an old price comes back only by an abandoned cycle; refusals are alerted |
| perps-engine | caches of orders, positions, market and funding settings; failure counter | fetch prices, scan, send one cycle transaction, retry, time out, refresh | the same for its prices; a job that is due is not forgotten; being stuck is alerted |
| keeper | event cursor, cached prices, caches of jobs, pending nonce, pools known | listen, poll, sync, execute, liquidate, refresh | no cycle beside another; a price change is noticed though its event was missed; a nonce gap heals |
| indexer | last indexed block, tables | catch up, poll, handle events, restart | no block skipped; the tables say what the chain says; nothing goes backwards on a second scan |
| deployment scripts | the manifest | deploy, cut, configure, fund, add markets, upgrade, verify | no function lost by an upgrade; the manifest is what the diamond serves; an interrupted step leaves nothing half usable |

Interactions. Facets call each other only through `AppStorage`, so a write by one
is seen by all in the next transaction. PositionFacet calls the user's
TradingAccount (`lockForPosition`, token pull) and pays back through
`unlockFromPosition`. The oracle poster and the keeper are outside accounts whose
transactions interleave with users'. The services see the chain through events
and reads, and change it through transactions that may be late, repeated or
reverted. Engine and keeper read their jobs from the indexer, and fall back to the
chain when it is away. The scripts change what every later transaction goes
through.

Hard behaviour:

- order of independent transactions: price, pause, funding and liquidation against
  what users do (the core model);
- seven paths that change open interest, three that return tokens, each with its own
  rounding (the core model);
- funding that accrues lazily and is predicted by views (the core model);
- orders that wait while everything they depend on changes (`OrderBook`);
- soft failures inside one transaction, `executeCycle` (`KeeperMulticall`);
- timeouts that leave work running, retries of what already happened, caches that
  go stale, nonces kept in memory, restarts between two writes (`PerpsEngine`,
  `OracleNode`, `KeeperExecutor`, `KeeperListener`, `Indexer`);
- scripts that stop between a cut and the record of it (`Deployment`).

`PROJECT.json` "hazards" lists each at its line, with the properties that cover it or
the reason none can.

## 2. Modules

| Module | What it models |
|---|---|
| `LibMath` | `libraries/LibMath.sol`: fixed-point multiplication and division with the code's truncation, saturating subtraction |
| `LibPosition` | `LibPosition.sol`, `LibFee.sol` and the token/USD conversion: PnL, margin, leverage, entry price, fees, payouts |
| `VirtualPool` | the vAMM of a market: execution price, reserves after a trade, damped sync |
| `AccountState` | one TradingAccount clone as a record, lock and unlock with the active list |
| `PerpTrading` | the core: one action per external function, the properties |
| `PositionLifecycle` | abstract specification: ids in order, one open position per user and market, retirement for good, no money and no pointer |
| `MCPerpTrading` | values for TLC; five `.cfg` files |
| `OrderBook` | `OrderBookFacet`, extending `PerpTrading`: orders placed, cancelled, executed by a keeper beside everything the core does |
| `KeeperMulticall` | `KeeperMulticallFacet`, extending `OrderBook`: the five phases of `executeCycle` |
| `MCOrderBook`, `MCKeeperMulticall` | values for TLC; one and four `.cfg` files |
| `EngineRules` | arithmetic shared by the services: source answers to 18-decimals prices, order triggers and margins as the scanners and as the facet compute them, the deviation bound |
| `PerpsEngine` | the engine's loop, its abandoned cycles, cache and submitter against a chain that mines in order |
| `OracleNode` | the oracle's loop over several sources and markets |
| `KeeperListener` | when the keeper's cycles run: event scans, the fallback poll, the flag |
| `KeeperExecutor` | what a cycle does: phases, simulated calls, retries, nonces, the refresh beside it |
| `ChainLog` | the chain as the services see it: blocks of logs by emitter, with the state they speak of |
| `IndexerTables` | the tables, the statement of each handler, the queries |
| `EventDelivery` | abstract specification: every entry handled before the mark passes it |
| `Indexer` | the indexer process over both, shown to implement `EventDelivery` |
| `DiamondCut` | `LibDiamond`: the routing table, its two indices, the cuts |
| `Deployment` | the scripts as sequences of effects on the diamond and the manifest |
| `MCPerpsEngine`, `MCOracleNode`, `MCKeeperListener`, `MCKeeperExecutor`, `MCIndexer`, `MCDeployment` | values for TLC |
| `PerpTradingProofs` | lemmas on the arithmetic, the account record, the pool and settlement, and on sums over finite sets; `TypeCorrect`, `TrackedAlwaysBacked`, `NetModeCorrect`, `ClosedStaysClosed`, `FundingAlwaysOpposite`, `PauseStopsExposure`, `OIAlwaysConsistent`, `LifecycleImplemented`, `LiquidationsAlwaysSeen`, `NoFreeMoneyEver` |
| `KeeperMulticallProofs` | of the core, the order book and the cycle together: `BookTypeCorrect`, `BookNetMode`, `CycleTrackedBacked`, `OIUnderstatedAtMost`, `PauseHoldsInCycles`, `OrdersExecutedOnce`, `LimitsHold` |
| `OracleNodeProofs` | `StaleNeedsLate` |
| `PerpsEngineProofs` | `EngineStaleNeedsLate` |
| `KeeperExecutorProofs` | `NonceTroubleAlwaysHeals` |
| `KeeperListenerProofs` | `KeeperCyclesExclusive` |
| `IndexerProofs` | `DeliveryImplemented`, `IndexerTypeCorrect`, `HistoryWrittenOnce`, `EndsStayInTables`, `TablesMirrorChain` |
| `DeploymentProofs` | `LoupeAlwaysConsistent`, `PoolsHavePrices`, `ManifestAlwaysTrue`, `ServiceAlwaysKept` |

### How PerpTrading corresponds to the code

The variables are fields of `AppStorage` under their own names (`positions`,
`nextPositionId`, `userMarketPosition`, `openInterest`, `vaultBalances`,
`insuranceBalances`, `latestPrice`, `fundingStates`, the switches) together with what
lives outside the diamond: `held` (the diamond's token balance), `accounts` (the
clones), `wallets` and `treasury`, and the clock `now`.

| Action | Code |
|---|---|
| `OpenPosition`, `AddCollateral`, `RemoveCollateral`, `AddSize`, `PartialClose`, `ClosePosition` | the functions of `PositionFacet.sol`, with funding settlement, fees, insurance share, open interest, pool trade and token movement |
| `Liquidate`, `AutoDeleverage` | `LiquidationFacet.sol` |
| `FundVault`, `DefundVault`, `WithdrawInsurance` | `CentralVaultFacet.sol`, `InsuranceFundFacet.sol` |
| `CreateVault`, `Deposit`, `Withdraw`, `EmergencyWithdraw` | `VaultFactoryFacet.sol`, `TradingAccount.sol` |
| `UpdatePrice`, `SyncToOracle`, `UpdateFundingRate` | `OracleFacet.sol`, `VirtualAMMFacet.sol`, `FundingRateFacet.sol` |
| `SwitchGlobalPause`, `SwitchMarketPause`, `SwitchMarketEnabled` | `PausableFacet.sol`, `MarketRegistryFacet.sol` |
| `Tick` | block time |

Modelling decisions:

- An external call is one transaction and so one action; a failed `require`, a checked
  underflow or a division by zero reverts it, so each is a conjunct of the guard. The
  reentrancy flag has its initial value between any two transactions and is not a variable.
- `ONE` stands for 1e18. With `ONE = 4` a price of 8 reads 2.0. Every division truncates
  where the code's does, so the rounding of the code is the rounding of the model, on
  numbers small enough to enumerate.
- `UsdScale` gives each token `10^(18-decimals)` as a ratio, which covers tokens of fewer,
  exactly and more than 18 decimals.
- Integers are unbounded. Solidity 0.8 reverts on overflow, and protocol amounts stay far
  below 2^256; going below zero is what `TypeOK` rules out.
- Roles are the environment: whoever may call does. Market parameters, fees, staleness and
  the ADL threshold are constants; every token is accepted collateral; pools exist from the
  start or not at all. The setters are left out.
- The funding rate an update sets is any member of `FundingRates`, 0 without a pool and
  unchanged while there is no price, as in the code. The formula behind it is left out.
- The ledger of the account, the list of past position ids and the timestamp of a position
  are written and never read by any operation, so they are left out.
- Liquidation rewards and withdrawn insurance leave the model.
- A batch of prices is one price at a time; batches of several that revert together
  are in `OracleNode`.

### How OrderBook and KeeperMulticall correspond to the code

`orders` and `nextOrderId` are the fields of `AppStorage`. `history` is not in the code: it
remembers the position a closing order was placed on and how often an order was executed,
which properties speak of and no guard reads. An order the cycle skips at the cap, after it wrote
the position, does not count as executed.

| Action | Code |
|---|---|
| `PlaceOrder` | `placeLimitOrder`, `placeStopLimitOrder`, `_placeOrder` |
| `PlaceCloseOrder` | `placeTakeProfitOrder`, `placeStopLossOrder`, `_placeCloseOrder` |
| `CancelOrder`, `ExecuteOrder` | `cancelOrder`, `executeOrder` of `OrderBookFacet.sol` |
| `StartCycle` | `_pushPrices`, `_syncAllVAMMs`, `_updateAllFundingRates` for any set of markets |
| `CycleOpen`, `CycleClose` | `_executeOpenOrder`, `_executeCloseOrder` |
| `CycleLiquidate` | one round of `_executeLiquidations` |
| `OrdersDone`, `EndCycle` | the end of phases 4 and 5 |
| `RevertCycle` | the revert of the transaction by a lock or a token transfer that fails |

`executeCycle` is one transaction. It is taken apart into a step for the first three phases
and a step per item, because what an item that is skipped leaves behind is the question:
`phase` is where the transaction is, `saved` the state it began with, and while `phase` is not
`idle` no other transaction runs. Items skipped without effect are no step, and ending a phase
at any moment stands for every list of ids a keeper may send. A market appears once in a batch.

`executeOrder` reads `positionId` before it is assigned, so it locks into slot 0 of the account;
the cycle assigns first. Both are modelled as they are.

### How the services correspond to the code

All of them are single-threaded Node.js processes: a step is the code between two
`await`s, and whatever may happen during an `await` is a step of something else.
The chain, the market and (for engine and keeper) the indexer are the environment,
modelled from how the service uses them. A wallet's transactions are mined in the
order of their nonces.

`PerpsEngine` and `OracleNode`. `Promise.race([cycle, timeout])` in the main loop does
not stop the cycle that loses, so several may be under way. They are `slot[c]`; `main`
is the one the loop waits for, and `late` marks one it has given up.

| Action | Code |
|---|---|
| `Begin` | the start of the main loop's cycle: in the engine with prices fetched and both scanners run, in the oracle all sources asked at once |
| `Fetch`, `FetchFails`, `Collect`, `Hang` (oracle) | `fetchPrices` of each source and what the aggregation makes of it; a call that never returns |
| `CycleTimeout`, `HungTimeout` | the race lost |
| `Send`, `AttemptFails`, `WaitTimeout`, `Confirm`, `GiveUp` | `_submitWithRetry`, `submitPrices`, `_waitWithTimeout`, and the health monitor's count |
| `FetchList`, `FetchListFails`, `ReadJob`, `ReadFails`, `Finish` (engine) | `refreshOrders`, `refreshPositions`, the settings, `checkIndexerHealth` |
| `Mine` | the chain: `executeCycle` or `batchUpdatePrices`, all or nothing |
| `Boot`, `Crash` | the process |

Prices go through `EngineRules`: what a source sends becomes an 18-decimals number by
`normalize` (Pyth: digits cut or filled) or `toPrice18` (Orderly: the first of mark, index and
last price, digits cut), and a posting is refused by the facet's deviation bound. Order
triggers and margins are there twice, as the scanners compute them and as the facet does.

`KeeperListener` and `KeeperExecutor` are two views of the keeper. The first has every
timer and no cycle content; the second has one cycle at a time, which the first shows.

| Action | Code |
|---|---|
| `ScanBegin`, `ScanFails`, `ScanFinds` | `_scanNewBlocks` of the event listener |
| `PollRead`, `PollCompare` | the fallback poll of `index.js` |
| `EnterCycle`, `EndCycle` | `executionCycle` with its flag |
| `BeginCycle`, `BeginPhase`, `EndPhase` | the three phases: sync pools, execute orders, liquidate |
| `AttendPool` | `_syncMarket` and the pools known to exist |
| `Proceed`, `Skip`, `Drop` | `checkLiquidatable` and the simulated call before a transaction |
| `Send`, `SendRefused`, `WaitTimeout`, `TxReverted`, `Confirm`, `GiveUp` | `_submitTx` and `_getNextNonce` |
| `Refresh`, `RefreshRead`, `RefreshReadFails` | `state-cache.js` beside the cycle |

Nonces are counted from the next one to be mined, so `-1` is one already used and mining
shifts all of them down. A nonce above the next free one leaves a gap behind which
nothing is mined: that is how a refused transaction costs its successors attempts.
`hit` remembers whether an attempt met a failure of its own; only the property reads it.

`Indexer` runs the handlers of `IndexerTables` over the log of `ChainLog`.

| Action | Code |
|---|---|
| `Boot`, `StartScan`, `GoLive` | `index.js`: the historical catch-up, then polling |
| `Execute`, `Fail`, `Refuse` | one SQL statement of a handler; an error or a column constraint ends the handler and is swallowed |
| `EndBlock`, `Record`, `RecordFails` | the end of a batch and `last_indexed_block` |
| `Signal`, `Exit`, `Crash` | SIGINT/SIGTERM, the graceful stop, the process dying |

The refinement to `EventDelivery` maps `acked` to the recorded block (or the block before
the deployment, when nothing is recorded) and `delivered` to the blocks handled.

### How DiamondCut and Deployment correspond to the code

`DiamondCut` is `LibDiamond` with its storage: `facetOf`, `posOf` and the selector list of each
address. A cut is a fold of its parts over the storage; `ok` is false from the first
refused part on, and then the transaction changes nothing.

`Deployment` writes each script of `scripts/` as the sequence of its effects (`Program`).
One effect is one step, so a script may die between any two. `mem` is the copy of the
manifest a script loaded at its start, `file` the manifest, and `torn` remembers a script
that sent a transaction and died before it saved. `AcceptCollateral`, `FundVault` and the
market effects have a disjunct in which the transaction is mined and the script does not
hear of it. `which` says how selectors are filtered before a cut: by the chain
(`filterNewSelectors`) or by the set `deploy-all.js` keeps itself. No second diamond is
deployed over a recorded one: the operator sees the manifest.

What the models of the services abstract from:

- the engine refreshes settings on intervals of their own; here with the lists;
- `hasSignificantDeviation` only logs; alert transport, balance checks and logging are left out;
- Orderly prices below 1e-6, which JavaScript prints in exponent form and `_toPrice18`
  refuses, are outside the digits given;
- the indexer calls itself synced within 5 blocks of the head; engine and keeper ignore it;
- `pool_state.oracle_price` is overwritten with 0 by every pool event (scanner.js:566,
  models.js:227), and the tables written like another one are not repeated;
- explorer verification marks in the manifest survive an upgrade of their facet.

### Fairness

None in the core, and none in `Deployment`: users, traders and the operator are obliged to nothing,
so the specification is `Init /\ [][Next]_vars` and the properties are safety.
`CHECK_DEADLOCK` is off only for the deployment, where the operator may stop for good.

The services do loop. Each `FairSpec` assumes weak fairness, and what it gives justice to is:

- engine: its own steps, the restart (`railway.json`, restart on failure), mining, and that
  the indexer comes back and catches up;
- oracle: its own steps and mining; no restart is assumed, so its properties speak of
  times it is up;
- keeper and listener: timers fire and their calls return or time out, mining, the indexer;
  no restart;
- indexer: its own steps while it is up.

Nobody is obliged to trade, to move a price or to fail. Faults are bounded (`MaxFaults`), so the
liveness properties say what happens when failures stop for long enough.

## 3. Runs

The bounds of the core: `MaxPositions` (position ids), `MaxTime` (clock), `MaxSlotMargin`
(what an account slot accumulates), `MaxOrders`, the input sets, and the tokens users and the
funder start with. Of the services: ticks of the price, `MaxPending` transactions,
`MaxFaults` failures of any kind, `MaxBlock` blocks. Of the deployment: `MaxRuns` scripts,
`MaxFaults`, and `MaxAddress` contracts of one diamond (a guard of the two actions that deploy;
the instance never reaches it).

| Run | Instance | Checks |
|---|---|---|
| `life` | two interchangeable users, one market, two position ids, two prices, resized and deleveraged in part or in whole, no outside money, all three switches; 107 072 states | `TypeOK`, `NetMode`, `OIConsistent`, `ImplementsLifecycle`, `ClosedIsFinal`, `PausedNoNewExposure` |
| `funding` | a small pool, three rates, three moments; 106 413 states | `FundingOpposite`, `LiquidationsSeen` |
| `flat_price` | one constant price, no funding, a token of fewer than 18 decimals, two amounts; 53 544 states | `TrackedBacked`, `NoFreeMoney` |
| `cycle` | one user, two orders of three kinds, two position ids, two prices, a market that may be paused, an open-interest cap of 12 that an order of 8 stays below and one of 16 passes; 1 153 508 states | `OINeverOverstated`, `TrackedBacked`, `NetMode`, `BookTypeOK`, `ExecutedOnce`, `ExecutedAtLimit`, `PausedAddsNone` |
| `indexer` | four blocks, the first before the deployment, batches of two, one fault; 1 603 977 states | `TypeOK`, `MirrorsChain`, `HistoryOnce`, `ImplementsDelivery`, `RowsOnlyAdvance`, `CatchesUp` |
| `engine` | two cycles at once, an order that reverts the batch, a job older than the fallback's window, three prices of which the second is out of reach, the indexer up or away at the start, one fault; 730 622 states | `StaleOnlyFromLate`, `PricesFlow`, `JobsServed`, `StuckIsAlerted` |
| `oracle` | two cycles at once, two sources with a market each, a price out of reach, two faults; 444 295 states | `StaleOnlyFromLate`, `PricesPosted`, `RefusalsAlerted` |
| `keeper` | a pool, an order, a position, two prices, two attempts, two faults; 765 488 states | `NonceTroubleHeals`, `JobsKnown` |
| `listener` | two overlapping scans and the poll, two markets, three blocks, one fault; 811 658 states | `CyclesExclusive`, `PricesNoticed`, `HeadReached` |
| `deploy` | seven facets, two releases, five runs of any of nine scripts and six upgrades of one facet, two faults; 921 316 states | `LoupeConsistent`, `ManifestTrue`, `PoolHasPrice`, `ServiceKept`, `DeployAllCompletes` |
| `oi_skip`, `step3` | the two refuted statements below | `SkippedLeavesNothing`, `NoDuplicateAdded` |

Why these are enough to be telling. Two users and two ids make a race for a market, a
second opening after a close, and two counterparties drawing on one vault happen. Prices
6 and 8 at leverage 2.0 liquidate a long and give a short a profit to deleverage. Close sizes
of 5 and 7 make the fractions and fees of `flat_price` truncate. Three moments are enough for an accrual
with one rate, a change, and an accrual with another.

In `cycle` two orders are enough for one to close what the other opened, and for a take-profit
to be placed on a position that is gone when it is due; what an order races with are its owner's own
transactions and the keeper's, all of which are there. An order of 16 passes the cap of 12 and so
fails softly, after its position is written; one of 8 does not.

Two cycles at once are what one timeout makes; the next needs a second fault and meets the
same cache and the same wallet. A price that leaves the deviation bound and returns is what
makes a batch be refused and then flow again. Two faults in `keeper` are one to leave a gap
in the nonces and one to meet it. Batches of two blocks of four give a partial last batch, and
one fault gives a range that is scanned twice. Five scripts are an installation in steps 05 to 09
or by `deploy-all` with upgrades of both kinds after it; two faults, one that tears the
manifest and one after it.

Two users are symmetric (no definition tells them apart); symmetry is used in `life`, whose
temporal properties are safety properties. No run with liveness uses it.

`NoFreeMoney` needs its precondition: with price moves or funding a trader may of course
gain. The price must also be a whole multiple of `ONE`: at 7 with `ONE` = 4 TLC finds it violated by
`addSize`, a partial close and a close, because the average of two entries at 7 comes out as 4 (the
`AverageBetween` row below). `LiquidationsSeen` is checked with an 18-decimals token: with fewer
decimals, a credited payment is rounded in tokens but not in USD, and `collateralUsd` can drift from
`collateralAmount` by dust. `PricesFlow` and `JobsServed` except the times a price is out of
one posting's reach or an order that reverts the batch is due, which is when the code does
stop (`MCPerpsEngineWedge`).

### Where documentation and code disagree

Two statements of comments are refuted by runs of `PROJECT.json`, whose "findings" quote them.

| Run | Statement | What the code does |
|---|---|---|
| `oi_skip` | an order beyond the cap is skipped | the position is already written and its collateral locked |
| `step3` | step 03 adds no duplicate selector | both `VirtualAMMFacet` and `PriceFeedFacet` have `getMarkPrice`; the filter asks the chain before either is added, and the diamond refuses the cut |

The statements below are refuted the same way. They are not among the runs;
`tlc -config <cfg> <module>` gives the behaviour of each. A property commented out in a
cfg is to be switched on in place of the active one.

| Configuration | Statement | What the code does |
|---|---|---|
| `MCPerpTradingRefuted.cfg` | `OIWithinCap`: `maxOpenInterest` is the maximum per market | `addSize` compares with nothing |
| the same | `AverageBetween`: weighted average entry price | division before scaling drops it to a whole dollar |
| the same | `IdleWithdrawable`: idle funds can always be withdrawn | a loss or a fee stays in `totalLocked`, which is subtracted from a balance it has left |
| the same | `ADLOnlyWhenTriggered`: "Only called when insurance fund is depleted." (LiquidationFacet.sol:180) | the facet does not look |
| `MCPerpTradingFundingRefuted.cfg` | `ReportedIsLiquidatable`: "True if margin < maintenance" (LiquidationFacet.sol:130) | the view takes all of the pending funding off the equity, `liquidate` forgets what exceeds the collateral |
| the same | `FundingSettledOnInteraction`: "Settled automatically on every position interaction." (FundingRateFacet.sol:11) | `addCollateral` and `autoDeleverage` do not settle |
| `MCOrderBookClose.cfg` | `CloseOrderExecutable`: a take-profit closes when its trigger is met | `executeOrder` treats it as an opening order and refuses it |
| `MCKeeperMulticallRefuted.cfg` | `BatchNotBlocked`: "one revert doesn't block the batch" (KeeperMulticallFacet.sol:19) | a lock the account refuses reverts the cycle |
| the same | `RemainderReturned`: what a liquidation leaves goes back to the trader | the cycle's liquidation pays the trader nothing |
| the same | `ClosesItsPosition`: "The position to close when trigger hits" (OrderBookFacet.sol:81) | the order stores the market and closes what is open there |
| `MCKeeperMulticallBirth.cfg` | `NothingOwedAtBirth`: "Funding already accrued in Phase 3" (KeeperMulticallFacet.sol:320) | only for the markets of the batch |
| `MCPerpsEngineWedge.cfg` | `BatchKeepsMoving`: the same line 19, of the engine's prices | the same order is sent again with every cycle, and no price is posted while it is due |
| `MCPerpsEngineMirror.cfg` | `TriggersMirror`: "Mirrors KeeperMulticallFacet._checkTrigger() exactly" (order-scanner.js:82) | the scanner takes the trigger price in place of a zero limit, the facet compares with zero |
| `MCOracleNodeOutage.cfg` | `OutageAlerted`: an outage of a source that lasts is alerted | a cycle without prices is not counted as a failure |
| the same | `MarketsIndependent`: one market's price does not hold back another's | one price out of reach reverts the batch |
| `MCIndexerListed.cfg` | `ModificationsListed`: trades holds "every trade event (opens, closes, modifications)" (docs/indexer-api.md) | column constraints refuse every modification, and the error is swallowed |
| the same | `AccountsListed`: "TRADING ACCOUNT EVENTS" (abi.js:97) | accounts emit from their own addresses, the scanner asks for the diamond's logs only |

What the indexer cannot mirror, and `MirrorsChain` therefore excepts: a deleveraged position
keeps its row open (scanner.js:408 records the event alone); sizes after a
reduction; prices posted by a keeper cycle (KeeperMulticallFacet.sol:148 emits a `PriceUpdated` that
`abi.js` does not list); what accounts emit (scanner.js:32, and abi.js:97-103 has other
signatures). `OrderExecutionFailed` and `LiquidationFailed` are declared and never emitted.

## 4. Proofs

The theorems hold for every value of the constants that the named assumptions of the modules
admit, and where a theorem names a hypothesis of its own, under that; they rest on nothing else. TLC evaluates the assumptions in every run.

| Assumption | Says |
|---|---|
| `CoreAssumption`, `ONEAssumption`, `FeeAssumption`, `UsdScaleAssumption`, `DampingAssumption` | parameters are naturals; fees, the damping factor and the maintenance margin lie within what their setters enforce; time starts later than the staleness window |
| `OrderAssumption` | order types are among the four of the facet; sizes and bounds are naturals, triggers positive |
| `OracleAssumption` | markets are finitely many and each has its source; cycles are numbered; quoted prices, digits and bounds are naturals |
| `EngineAssumption`, `KeeperAssumption` | jobs are numbered, orders and accounts apart; markets quote positive prices; retries, ages and caps are positive |
| `ListenerAssumption`, `BlockAssumption`, `IndexerAssumption` | finite sets of scans and markets; bounds, block numbers and batch sizes are naturals |
| `DeploymentAssumption` | the lists of facets, markets and tokens are sequences, each facet's code a sequence of selectors in each release, which may share selectors and repeat them; the runs are of the scripts there are; bounds are naturals |

### The trading core (`PerpTradingProofs`)

For every number of users, markets, tokens and positions, every price, rate and amount.

| Theorem | Property | Argument |
|---|---|---|
| `TypeCorrect` | `TypeOK` | inductive by itself; one lemma per action. The work is that no subtraction goes below zero: fractions are at most `ONE`, the fee fits the payout, the locked amount fits the balance, the pool keeps its reserves |
| `TrackedAlwaysBacked` | `TrackedBacked` | `TypeOK /\ TrackedBacked`. Every action moves `held` and `vaultBalances` together, or takes at least as much off the tracked balance |
| `NetModeCorrect` | `NetMode` | `LifeInv == TypeOK /\ UnusedIds /\ NetMode`. `NetMode` is not inductive: an id above `nextPositionId` must be known to be unwritten, or opening could overwrite an active record |
| `ClosedStaysClosed` | `ClosedIsFinal` | from `LifeInv`: only an active record, or the unwritten one under the next id, is ever written |
| `FundingAlwaysOpposite` | `FundingOpposite` | `TypeOK /\ FundingOpposite`; each action accrues both sides or neither |
| `PauseStopsExposure` | `PausedNoNewExposure` | only opening and `addSize` raise open interest, and both look at the two switches; the others use saturating subtraction |
| `OIAlwaysConsistent` | `OIConsistent` | `LifeInv /\ OIConsistent`. A transaction writes one record and changes the counter of that record's side by the difference (`CountStep`); a sum over a set in which one entry changes moves by that entry (`SumUpdate`). Saturation never bites because the share being taken off is part of the sum |
| `LifecycleImplemented` | `ImplementsLifecycle` | from `LifeInv`: each step maps to `Open`, `Retire` or a stutter of `PositionLifecycle` |
| `LiquidationsAlwaysSeen` | `LiquidationsSeen` | `TypeOK /\ FundingClock /\` every position `Covered`, under `EighteenDecimals` |
| `NoFreeMoneyEver` | `NoFreeMoney` | `FlatInv(p) /\ NoFreeMoney`, under `FlatPrice` |

The safety proofs do not go through the actions' arithmetic again. `LifeStep`, `OIStep` and
`CountStep` are abstractions of `Next` that keep only who writes which record and which counter; a
lemma shows that every action implies a disjunct of them, and the theorems on the life of
positions and on open interest are proved from these.

Sums are folds over finite sets, and the induction they need is not that of the library, whose
theorems take an operator. `NatInd` is induction of sets: a set of naturals that holds 0
and the successor of each of its members is all of them (from the well-foundedness of `<`). `TableExists` and `TableUnique` apply it to the table of partial sums.

The last two have hypotheses on the constants, because the properties need them.

`LiquidationsAlwaysSeen` assumes `EighteenDecimals`: a token amount is its USD amount. A position is
`Covered` when the USD value recorded is at most what its tokens are worth; the two counters are
written side by side, and every transaction keeps the relation if settling the funding does
(`CoveredOfStep`). That makes the checks agree: `liquidate` settles
first, and a payment the collateral cannot meet leaves nothing of either counter, so what the view takes
off the equity is no less than what settlement takes off the position. `SeenWhileCovered` says
this for one position and any token of at most 18 decimals; the hypothesis is needed for `Covered` to
survive a credited payment alone, whose token amount is rounded down.

`NoFreeMoneyEver` assumes `FlatPrice`: one price, a whole multiple of `ONE`, no funding, no virtual
liquidity, tokens of at most 18 decimals; the run `flat_price` is an instance. `FlatInv(p)` adds to
`LifeInv` that markets stand at 0 or `p` with zero indices, that an active position entered at `p`
in a market that has it, and that every position is `Covered`. The average of two entries at `p` is
`p` only if `p` is such a multiple. Every action that writes
a position is a `StakeMove`: what the record and its owner's account hold together does not grow,
and nobody else's tokens change; the sum over the positions follows from the one that changed. Fees, fractions, conversions and the penalty are left as unknown naturals
with the bounds that make them go against the trader.

### Orders and cycles (`KeeperMulticallProofs`)

`KeeperSpec` is the core, the order book and the keeper's cycle together, so these theorems also
carry `NetMode` and `TrackedBacked` over from the core to it.

| Theorem | Property | Argument |
|---|---|---|
| `BookTypeCorrect` | `BookTypeOK` | `KeeperInv` below |
| `BookNetMode` | `NetMode` | the same |
| `CycleTrackedBacked` | `TrackedBacked` | the same |
| `OIUnderstatedAtMost` | `OINeverOverstated` | the same; equality is lost where a capped order leaves its position uncounted, and this is the direction that survives: what is taken off later was in the sum |
| `PauseHoldsInCycles` | `PausedAddsNone` | in a cycle, no side of a paused market has more open interest than `saved` has |
| `OrdersExecutedOnce` | `ExecutedOnce` | not inductive: `OrdersSound` (an active order was never executed, ids above `nextOrderId` are unwritten) makes it so |
| `LimitsHold` | `ExecutedAtLimit` | the count in `history` rises only in the two actions that execute, both of which compare with the limit before they write |

A revert puts `saved` back, so every invariant is carried twice: `KeeperInv` says it of the state and,
by `INSTANCE KeeperMulticall WITH latestPrice <- saved.latestPrice, ...`, of the state a revert would
bring back. Steps are again abstracted, to `CoreStep` for positions, counters and money and `OrdersStep`
for orders and their history; each part of the invariant is proved from its abstraction, and
`RevertIsSound` and `SavedIsSound` move it between the two states.

### The services

| Theorem | Property | Argument |
|---|---|---|
| `StaleNeedsLate` | `StaleOnlyFromLate` (`OracleNode`) | `TypeOK /\ NoneAhead /\ OneAwaited /\ InOrder`: prices waiting to be mined, unless their transaction is late, are at least as new as what is posted and as each other in the order of the queue; a cycle awaits one transaction. Any number of cycles under way, sources, markets and faults |
| `EngineStaleNeedsLate` | `StaleOnlyFromLate` (`PerpsEngine`) | `TypeOK /\ NoneAhead /\ OneAwaited /\ LiveIsNewest /\ InOrder`. Unlike the oracle's loop the engine's goes on while a cycle it gave up on still runs, so `LiveIsNewest` is needed: the cycle the loop waits for is the only one that was not given up, and nothing posted, sent or held is newer than its prices. Any number of abandoned cycles, markets and faults |
| `NonceTroubleAlwaysHeals` | `NonceTroubleHeals` (`KeeperExecutor`) | `TypeOK /\ OneOfEach /\ RetriesFillHoles /\ NonceTroubleHeals`, under `MaxRetries > 1`: an attempt that repeats another asks the node for its nonce and so sends the first transaction that is missing; what is awaited then can be mined. With one attempt the property is false; `.keeper/config.js` has three. Any number of jobs, phases and faults |
| `KeeperCyclesExclusive` | `CyclesExclusive` (`KeeperListener`) | `IInv == TypeOK /\ FlagHeld /\ OneHolder`: the flag is up exactly while someone is in a cycle, and there is one such. The count of the property follows from these by the cardinality of the empty set and of a singleton. Any number of scans, markets and blocks |
| `DeliveryImplemented` | `ImplementsDelivery` (`Indexer`) | `IInv == ChainIsLog /\ MarkInv /\ ScanInv`: everything up to the mark and everything of the batch before its current block has been handled. Each step maps to a step of `EventDelivery` or a stutter |
| `IndexerTypeCorrect` | `TypeOK` (`Indexer`) | `IInv /\ TablesInv`, below |
| `HistoryWrittenOnce` | `HistoryOnce` | `HistoryTrue`: until a batch is cut short, each history row was written once and is of a recorded block or of a statement the batch has passed, so the statement at the cursor writes one that is not there |
| `EndsStayInTables` | `RowsOnlyAdvance` | `LogsTrue`: an end that was logged is true of the chain's state for good; `RowsTrue`: an end the tables show is the chain's. So a scan repeated over an older range can only write the same end again: an insert leaves a row that exists alone, and no other statement opens one |
| `TablesMirrorChain` | `MirrorsChain` | `IInv /\ TablesInv /\ ChainTold /\ TablesShown`, below; no assumption beyond those of the modules |

`DeliveryStep` in `IndexerProofs` keeps the mark, the batch and what has been handled, and forgets
the tables; the theorems on the tables add `TablesInv` (the cursor is at a statement of the event's
handler, the logs are true, rows say no more than the logs did), and one lemma per kind of statement
says what it does to the tables.

`MirrorsChain` is only about an indexer at the head that lost no handler; replays, crashes and lost
statements come before. What holds on the way there is said in two halves, both by event:

- `ChainTold` ties the contract state to the logs: a setting or a size is what the last event of
  its kinds wrote, an object that exists was announced, an end was logged, and what announces an object
  comes before what is said of it. A block has one event of any such kind (`OnePerBlock`,
  `OrdersApart`), so "the last" is the one of the highest block.
- `TablesShown` ties the tables to the logs: an event is *shown* once the batch has passed the
  statement that shows it and its handler was not cut short. Of what was shown the effect is there. A value
  in a table was written by some event (`LastRead`), and every event of the same row that was shown
  is of that block or an earlier one. Replaying an older range keeps this: what has been passed shrinks to the
  blocks below the cursor, and these are shown again in their order.

`ExecuteShows`, `SkipShows` and `OtherShows` say which events become shown in a step; `ShowsStay` and
`ShowsRun` carry `Shows` over a step that leaves a row alone and one that writes it. At the head
everything told is shown (`AllShown`), so the last event read is the last one written (`ReadsLast`). The
counts follow from a map between objects and blocks: a table's rows, single copies while nothing was
cut short, match the liquidated positions one to one (`LiquidationsCounted`); open positions are no
more than blocks (`ABlockEach`), so no page drops one (`ListsAll`). TLC held `ChainTold` and `TablesShown`
on every state of the `indexer` run, and on random runs of longer chains, before they were proved.

### The diamond and its scripts (`DeploymentProofs`)

For every set of facets, all code of theirs, any order of runs, and every point at which a script
dies, a call fails or a cut is refused.

| Theorem | Property | Argument |
|---|---|---|
| `LoupeAlwaysConsistent` | `LoupeConsistent` | `Midway(t, a)`: each facet's list holds exactly the selectors routed to it, each in the place it knows, and the list of facets exactly those with a selector, and `a`. While a cut adds to facet `a`, the facet may be listed without having a selector yet; with `a = 0` this is the property (`MidwayIsIndexed`). `SwapAndPop` and `AppendInPlace` are the two moves on a list, used for selectors and for facets |
| `PoolsHavePrices` | `PoolHasPrice` | `DeploymentInv`: what a running script has left to do is typed, the diamond is created only over a manifest without markets, an effect `"price"` names a market that exists and an effect `"pool"` one that has a price, and both manifests (on disk, in the script) list only markets with a pool |
| `ManifestAlwaysTrue` | `ManifestTrue` | `DeploymentInv /\ RecordInv`: the script's copy of the manifest is true of the routes its gathered cuts will make (`Staged`), not of those there are; the file is true until a script has sent a cut |
| `ServiceAlwaysKept` | `ServiceKept` | `DeploymentInv /\ RecordInv /\ ServiceInv`: every function is routed to a contract that has it, every record names a contract of its facet, and the staged cuts keep in service what is; under `FunctionsStay` |

The loops are folds, and what a round keeps the loop keeps: `AddFold`, `ReplaceFold`, `RemoveFold`,
`CutFold` and `KeepFold` show it for each, from the existence of a table of rounds (`RoundsExist`)
that the definition of the fold chooses. They are one argument written five times, because no lemma
can take the operator of a round as a parameter.

The last two theorems need what a whole transaction does to each selector, where the first needs only
that each round keeps the indices in step. `AddRoutes`, `ReplaceRoutes` and `RemoveRoutes` say it of
one cut: unless it is refused, the functions of its list go to the facet from where the cut asks them
to be, and no others move. A transaction is one cut after another (`CutsJoined`), which gives what a
deployment (`DeployMoves`) and an upgrade in each of its modes (`UpgradeMoves`) do.

`RecordInv` then relates five things: the routes, the contracts deployed, the file, the script's copy
and the effects left to run. Recorded addresses are apart and belong to contracts that exist
(`Apart`), so that recording one facet leaves the others true; a new contract's address serves
nothing (`NextUnrouted`). A facet's diff is taken from the routes as they are while cuts of other
facets wait, so `KeptOf` says that these do not touch functions of a recorded contract. And in every
program the cut comes before the manifest is written (`Orderly`, `ProgramsOrderly`): with a save
between a contract and its cut the file would be false although no script died.

`FunctionsStay` says that a release moves no function from one facet to another: one that was in a
facet's code and is in the release is still in the code of that facet. Facets may share functions, and functions may be
new or leave the protocol. The property needs it: a facet that lost a function to another is upgraded by itself, and the
function is removed until the other facet is upgraded too. The code of the runs has
it (`close` leaves `Position` and the second release, `getMarkPrice` is in two facets of both).

### Model-checked only

- Every liveness property (`PricesFlow`, `JobsServed`, `StuckIsAlerted`, `PricesPosted`,
  `RefusalsAlerted`, `JobsKnown`, `PricesNoticed`, `HeadReached`, `CatchesUp`): out of the prover's reach.
- `DeployAllCompletes` depends on what the scripts and the facets are; it is a statement about the
  instance, and the instance is the repository's.

## 5. Not modelled

- The SDK and the React hooks: wrappers around calls, without protocol state.
- `UserVault`: replaced by `TradingAccount`; the scripts still deploy it, which `Deployment` has.
- `QuoterFacet` and the other views that no operation reads; `PriceFeedFacet` and `LibTWAP`:
  a mean over the price history, used by the funding rate, which
  the core takes as any value of a set.
- Access control and the setters of parameters: roles are the environment, parameters are
  constants, checked against what the setters enforce.
- `TradingAccount`'s delegation, `transferMargin`, `topUpPosition` and margin mode: owner's calls on the
  account alone, which move margin between its slots and never call the diamond.
- The GraphQL schema and server, and resolvers that read a single table; the queries that
  combine or page are in `IndexerTables`. The page cap of the indexer's lists is reached above
  500 rows only.
- Configuration files, dry runs, recorded addresses, mocks, and what is printed.

A component is listed as partly modelled in `PROJECT.json` when it has one of these. Running
step 08 twice funds twice and running 09 twice duplicates markets; both are in `Deployment`,
where nothing forbids them.
