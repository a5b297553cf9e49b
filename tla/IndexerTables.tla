--------------------------- MODULE IndexerTables ----------------------------
(***************************************************************************)
(* The indexer's database: the tables of db/migrate.js, the statements of  *)
(* db/models.js as operators from one database to the next, the statements *)
(* each event handler of scanner.js runs, and the queries of               *)
(* graphql/resolvers.js.                                                   *)
(*                                                                         *)
(* Tables with a natural key (positions, orders, markets, collateral       *)
(* tokens, latest prices, fees) absorb a second execution; the others have *)
(* a serial key and gain a row each time, here a bag of <<table, block>>   *)
(* coordinates.  funding_rates and vault_events are written as             *)
(* protocol_events is, pool_state as fee_config is.                        *)
(***************************************************************************)
EXTENDS Integers, Sequences, FiniteSets, Bags

NoRow == [status |-> "none", size |-> 0]
NoHistory == EmptyBag

EmptyTables(Positions, Orders) ==
    [pos    |-> [p \in Positions |-> NoRow],
     ord    |-> [o \in Orders |-> "none"],
     market |-> "none", token |-> "none", prices |-> 0, fees |-> 0,
     vault  |-> "none", mode |-> "isolated", delegate |-> FALSE,
     rows   |-> NoHistory]

Insert(db, table, block) == [db EXCEPT !.rows = @ (+) SetToBag({<<table, block>>})]

\* ---- models.js ----------------------------------------------------------

\* Mutant: DO UPDATE instead of DO NOTHING.
insertPosition_Upserts(db, p, size) ==
    [db EXCEPT !.pos[p] = [status |-> "open", size |-> size]]

insertPosition(db, p, size) ==
    IF db.pos[p] = NoRow
    THEN [db EXCEPT !.pos[p] = [status |-> "open", size |-> size]]
    ELSE db                                         \* ON CONFLICT DO NOTHING

updatePositionModified(db, p, size) ==
    IF db.pos[p] = NoRow THEN db ELSE [db EXCEPT !.pos[p].size = size]

closePosition(db, p, status) ==
    IF db.pos[p] = NoRow THEN db ELSE [db EXCEPT !.pos[p].status = status]

insertOrder(db, o) == IF db.ord[o] = "none" THEN [db EXCEPT !.ord[o] = "active"] ELSE db
resolveOrder(db, o, status) ==
    IF db.ord[o] = "none" THEN db ELSE [db EXCEPT !.ord[o] = status]

upsertMarket(db) == IF db.market = "none" THEN [db EXCEPT !.market = "on"] ELSE db
setMarketEnabled(db, flag) == IF db.market = "none" THEN db ELSE [db EXCEPT !.market = flag]
upsertCollateralToken(db) == [db EXCEPT !.token = "on"]
removeCollateralToken(db) == IF db.token = "none" THEN db ELSE [db EXCEPT !.token = "off"]

insertUserVault(db) == IF db.vault = "none" THEN [db EXCEPT !.vault = "on"] ELSE db
updateMarginMode(db, mode) ==
    IF db.vault = "none" THEN db ELSE [db EXCEPT !.mode = mode]
insertTradingAccountEvent(db, block) == Insert(db, "trading_account_events", block)
upsertDelegate(db) == [db EXCEPT !.delegate = TRUE]
removeDelegate(db) == [db EXCEPT !.delegate = FALSE]

\* History and latest price in one database transaction.
insertPriceUpdates(db, block, price) ==
    [Insert(db, "price_updates", block) EXCEPT !.prices = price]
upsertFeeConfig(db, fees) == [db EXCEPT !.fees = fees]

\* ---- the statements of a handler, in order ------------------------------

PositionStatements(kind) ==
    CASE kind = "PositionOpened"   -> <<"insertPosition", "insertTrade">>
      [] kind = "PositionModified" -> <<"updatePositionModified", "insertNullTrade">>
      [] kind = "PartiallyClosed"  -> <<"insertTrade">>
      [] kind = "PositionClosed"   -> <<"closePosition", "insertTrade">>
PositionKinds == {"PositionOpened", "PositionModified", "PartiallyClosed", "PositionClosed"}

\* Mutant: a liquidation is recorded and the position left open.
LiquidationStatements_LeavesOpen == <<"insertLiquidation", "insertTrade">>

LiquidationStatements == <<"insertLiquidation", "liquidatePosition", "insertTrade">>

OrderStatements(kind) ==
    CASE kind = "OrderPlaced"    -> <<"insertOrder">>
      [] kind = "OrderExecuted"  -> <<"executeOrder">>
      [] kind = "OrderCancelled" -> <<"cancelOrder">>
OrderKinds == {"OrderPlaced", "OrderExecuted", "OrderCancelled"}

SettingStatements(kind) ==
    CASE kind = "PricesUpdated"     -> <<"insertPriceUpdates">>
      [] kind = "FeesUpdated"       -> <<"upsertFeeConfig">>
      [] kind = "MarketCreated"     -> <<"upsertMarket">>
      [] kind = "MarketEnabled"     -> <<"enableMarket">>
      [] kind = "MarketDisabled"    -> <<"disableMarket">>
      [] kind = "CollateralAdded"   -> <<"upsertCollateralToken">>
      [] kind = "CollateralRemoved" -> <<"removeCollateralToken">>
      [] kind = "VaultCreated"      -> <<"insertUserVault">>
SettingKinds == {"PricesUpdated", "FeesUpdated", "MarketCreated", "MarketEnabled",
                 "MarketDisabled", "CollateralAdded", "CollateralRemoved", "VaultCreated"}

\* Events of a user's account, if any were ever delivered.
AccountStatements(kind) ==
    CASE kind \in {"MarginLocked", "MarginReleased", "MarginTransferred"}
                                        -> <<"insertTradingAccountEvent">>
      [] kind = "LedgerEntryRecorded" -> <<"insertLedgerEntry">>
      [] kind = "DelegateAdded"       -> <<"upsertDelegate">>
      [] kind = "DelegateRemoved"     -> <<"removeDelegate">>
      [] kind = "MarginModeChanged"   -> <<"updateMarginMode", "insertTradingAccountEvent">>
AccountKinds == {"MarginLocked", "MarginReleased", "MarginTransferred", "LedgerEntryRecorded",
                 "DelegateAdded", "DelegateRemoved", "MarginModeChanged"}

\* Events of vaults, pools, pauses, roles and cuts, then those of keeper
\* cycles: a history row each.
RecordStatements == <<"insertProtocolEvent">>
CycleStatements == <<"insertKeeperCycle">>

\* _handleEvent
Statements(kind) ==
    IF kind \in PositionKinds THEN PositionStatements(kind)
    ELSE IF kind = "Liquidation" THEN LiquidationStatements
    ELSE IF kind \in OrderKinds THEN OrderStatements(kind)
    ELSE IF kind \in SettingKinds THEN SettingStatements(kind)
    ELSE IF kind \in AccountKinds THEN AccountStatements(kind)
    ELSE IF kind = "KeeperCycle" THEN CycleStatements
    ELSE RecordStatements

\* The row of a modification has no user and no market, and both columns are
\* NOT NULL: the database refuses it, always.
Refused(stmt) == stmt = "insertNullTrade"

Run(db, stmt, e, block) ==
    CASE stmt = "insertPosition"         -> insertPosition(db, e.id, e.val)
      [] stmt = "updatePositionModified" -> updatePositionModified(db, e.id, e.val)
      [] stmt = "closePosition"          -> closePosition(db, e.id, "closed")
      [] stmt = "liquidatePosition"      -> closePosition(db, e.id, "liquidated")
      [] stmt = "insertTrade"            -> Insert(db, "trades", block)
      [] stmt = "insertLiquidation"      -> Insert(db, "liquidations", block)
      [] stmt = "insertOrder"            -> insertOrder(db, e.id)
      [] stmt = "executeOrder"           -> resolveOrder(db, e.id, "executed")
      [] stmt = "cancelOrder"            -> resolveOrder(db, e.id, "cancelled")
      [] stmt = "insertPriceUpdates"     -> insertPriceUpdates(db, block, e.val)
      [] stmt = "upsertFeeConfig"        -> upsertFeeConfig(db, e.val)
      [] stmt = "upsertMarket"           -> upsertMarket(db)
      [] stmt = "enableMarket"           -> setMarketEnabled(db, "on")
      [] stmt = "disableMarket"          -> setMarketEnabled(db, "off")
      [] stmt = "upsertCollateralToken"  -> upsertCollateralToken(db)
      [] stmt = "removeCollateralToken"  -> removeCollateralToken(db)
      [] stmt = "insertUserVault"        -> insertUserVault(db)
      [] stmt = "updateMarginMode"       -> updateMarginMode(db, "cross")
      [] stmt = "upsertDelegate"         -> upsertDelegate(db)
      [] stmt = "removeDelegate"         -> removeDelegate(db)
      [] stmt = "insertLedgerEntry"      -> Insert(db, "account_ledger", block)
      [] stmt = "insertTradingAccountEvent" -> insertTradingAccountEvent(db, block)
      [] stmt = "insertProtocolEvent"    -> Insert(db, "protocol_events", block)
      [] stmt = "insertKeeperCycle"      -> Insert(db, "keeper_cycles", block)

\* ---- resolvers.js -------------------------------------------------------

\* paginate: what is asked for, never more than the cap.
Page(limit, cap) == IF limit < cap THEN limit ELSE cap

\* One page of a list, newest ids first.
Newest(ids, limit, cap) ==
    {i \in ids : Cardinality({j \in ids : j >= i}) <= Page(limit, cap)}

positions(db, status, limit, cap) ==
    Newest({p \in DOMAIN db.pos : db.pos[p].status = status}, limit, cap)
orders(db, status, limit, cap) ==
    Newest({o \in DOMAIN db.ord : db.ord[o] = status}, limit, cap)

\* Rows of a history table, in all and of one block.
Copies(db, table, block) ==
    IF BagIn(<<table, block>>, db.rows) THEN db.rows[<<table, block>>] ELSE 0
Rows(db, table) ==
    LET of == {r \in DOMAIN db.rows : r[1] = table}
    IN  BagCardinality([r \in of |-> db.rows[r]])

Counted(db, status) == Cardinality({p \in DOMAIN db.pos : db.pos[p].status = status})

userStats(db) ==
    [total  |-> Cardinality({p \in DOMAIN db.pos : db.pos[p] # NoRow}),
     open   |-> Counted(db, "open"), closed |-> Counted(db, "closed"),
     liquidated |-> Counted(db, "liquidated"), trades |-> Rows(db, "trades")]

\* accountLedger, delegates, tradingAccountEvents, of the one user there is.
accountActivity(db) ==
    [ledger |-> Rows(db, "account_ledger"), delegates |-> db.delegate,
     events |-> Rows(db, "trading_account_events")]

\* Of the one market there is.
marketStats(db) ==
    [open |-> Counted(db, "open"), liquidations |-> Rows(db, "liquidations"),
     latestPrice |-> db.prices]
=============================================================================
