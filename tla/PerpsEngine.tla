----------------------------- MODULE PerpsEngine -----------------------------
(***************************************************************************)
(* The perps-engine (.perps-engine): one loop that fetches prices, picks   *)
(* triggered orders and liquidatable positions from its cache, and sends   *)
(* everything in one transaction, retried when it fails or is not          *)
(* confirmed in time.  The loop races each cycle against a timeout; the    *)
(* loser is not stopped, so an abandoned cycle goes on beside its          *)
(* successor, with the same cache and wallet.  Cycles run in slots.        *)
(*                                                                         *)
(* The chain is external: transactions of the wallet take effect in the    *)
(* order of sending, a cycle transaction all or nothing.  The market's     *)
(* price moves along QuoteAt; the tick stands for its age.  The source     *)
(* always answers: OracleNode has its outages.  Jobs are orders to execute *)
(* and positions to liquidate.                                             *)
(***************************************************************************)
EXTENDS EngineRules, Sequences, FiniteSets

Api == INSTANCE IndexerTables

CONSTANTS
    Slots,              \* 1 .. n: cycles that may run at once (one live, the rest abandoned)
    Orders, Accounts,   \* ids of orders and of positions
    OrderData, PosData, \* what they hold
    Poison,             \* orders whose execution reverts the transaction
    Old,                \* jobs older than the window of the chain fallback
    QuoteAt,            \* by tick, what the market's source sends
    Source,             \* "pyth" or "orderly"
    Decimals,           \* of a price on the chain (18)
    MaxDeviationBps, MaintenanceBps,
    PageCap,            \* most rows the indexer returns
    MaxRetries, RefreshEvery, AlertAfter,
    MaxFaults,          \* bound on timeouts, failing calls, crashes, soft failures
    MaxPending          \* bound on unmined transactions

Jobs == Orders \cup Accounts
MaxTick == Len(QuoteAt) - 1
Prices == [t \in 0 .. MaxTick |->
              IF Source = "pyth" THEN pythPrice(QuoteAt[t + 1], Decimals)
                                 ELSE orderlyPrice(QuoteAt[t + 1], Decimals)]
Price(t) == Prices[t]

ASSUME EngineAssumption ==
    /\ Orders \subseteq Nat /\ Accounts \subseteq Nat /\ Orders \cap Accounts = {}
    /\ Poison \subseteq Orders /\ Old \subseteq Jobs
    /\ Slots \subseteq Nat \ {0}
    /\ Decimals \in Nat /\ QuoteAt # <<>> /\ \A t \in 0 .. MaxTick : Price(t) > 0
    /\ {MaxRetries, RefreshEvery, AlertAfter, PageCap, MaxPending} \subseteq Nat \ {0}

VARIABLES
    \* the market, the chain and the indexer
    \* (a transaction's slot is that of the cycle that waits for it, or 0)
    tick, posted, status, queue, view, indexerUp,
    \* the engine's memory
    up, cache, known, available, age, slot, main, failures, alerted,
    faults

worldVars == <<tick, posted, status, queue, view, indexerUp>>
engineVars == <<up, cache, known, available, age, slot, main, failures, alerted>>
vars == <<worldVars, engineVars, faults>>

Idle == [pc |-> "off", tick |-> 0, ids |-> {}, tries |-> 0, late |-> FALSE, todo |-> {}]

\* The engine may be started while the indexer is away.
Init ==
    /\ tick = 0 /\ posted = 0
    /\ status = [j \in Jobs |-> "none"]
    /\ queue = <<>>
    /\ view = {} /\ indexerUp \in BOOLEAN
    /\ up = FALSE
    /\ cache = {} /\ known = {} /\ available = TRUE /\ age = 0
    /\ slot = [c \in Slots |-> Idle]
    /\ main = 0
    /\ failures = 0 /\ alerted = FALSE
    /\ faults = 0

Fault == faults < MaxFaults /\ faults' = faults + 1
-----------------------------------------------------------------------------
(* The world.                                                              *)

MarketMoves ==
    /\ tick < MaxTick
    /\ tick' = tick + 1
    /\ UNCHANGED <<posted, status, queue, view, indexerUp, engineVars, faults>>

\* A user opens a position or places an order.
Place(j) ==
    /\ status[j] = "none"
    /\ status' = [status EXCEPT ![j] = "active"]
    /\ UNCHANGED <<tick, posted, queue, view, indexerUp, engineVars, faults>>

\* ... and closes or cancels it.
Withdraw(j) ==
    /\ status[j] = "active"
    /\ status' = [status EXCEPT ![j] = "gone"]
    /\ UNCHANGED <<tick, posted, queue, view, indexerUp, engineVars, faults>>

IndexerCatchesUp ==
    /\ indexerUp
    /\ view' = {j \in Jobs : status[j] = "active"}
    /\ UNCHANGED <<tick, posted, status, queue, indexerUp, engineVars, faults>>

IndexerFails ==
    /\ indexerUp /\ Fault
    /\ indexerUp' = FALSE
    /\ UNCHANGED <<tick, posted, status, queue, view, engineVars>>

IndexerReturns ==
    /\ ~indexerUp
    /\ indexerUp' = TRUE
    /\ UNCHANGED <<tick, posted, status, queue, view, engineVars, faults>>

\* What the facet does with a submitted job at a price.
Accepts(j, price) ==
    IF j \in Orders THEN checkTrigger(OrderData[j], price)
                    ELSE cycleLiquidates(PosData[j], price, MaintenanceBps)

Blocked(tx) ==
    \/ ~WithinDeviation(Price(posted), Price(tx.tick), MaxDeviationBps)
    \/ \E j \in tx.ids \cap Poison : status[j] = "active" /\ Accepts(j, Price(tx.tick))

\* The oldest transaction is mined: reverted, or prices posted and jobs done,
\* except those in soft, which fail without reverting.
Mine(soft) ==
    LET tx == Head(queue)
        done == {j \in tx.ids \ soft : status[j] = "active" /\ Accepts(j, Price(tx.tick))}
        outcome == IF Blocked(tx) THEN "reverted" ELSE "mined"
    IN  /\ queue # <<>>
        /\ soft \subseteq tx.ids
        /\ IF soft = {} THEN UNCHANGED faults ELSE Fault
        /\ queue' = Tail(queue)
        /\ IF Blocked(tx) THEN UNCHANGED <<posted, status>>
           ELSE /\ posted' = tx.tick
                /\ status' = [j \in Jobs |-> IF j \in done THEN "gone" ELSE status[j]]
        /\ slot' = IF tx.slot # 0 THEN [slot EXCEPT ![tx.slot].pc = outcome] ELSE slot
        /\ UNCHANGED <<tick, view, indexerUp, up, cache, known, available, age, main,
                       failures, alerted>>
-----------------------------------------------------------------------------
(* The engine.                                                             *)

ActiveNow(js) == {j \in js : status[j] = "active"}

\* What a refresh goes through: a page of each list from the indexer, or what
\* the events of the last blocks name.
ListedOrders == Api!Newest(view \cap Orders, PageCap, PageCap)
ListedPositions == Api!Newest(view \cap Accounts, PageCap, PageCap)
RecentOrders == {o \in Orders \ Old : status[o] # "none"}
RecentPositions == {p \in Accounts \ Old : status[p] # "none"}
Candidates(useIndexer) ==
    IF useIndexer THEN ListedOrders \cup ListedPositions
                  ELSE RecentOrders \cup RecentPositions

Settings == {"market", "funding"}

\* refreshMarketConfigs, refreshFundingStates: what cannot be read stays as it is.
RefreshSettings ==
    \/ known' = Settings /\ UNCHANGED faults
    \/ \E setting \in Settings \ known : known' = Settings \ {setting} /\ Fault

\* Start: caches are filled before the loop begins.
Boot ==
    /\ ~up
    /\ up' = TRUE
    /\ available' = indexerUp
    /\ cache' = ActiveNow(Candidates(indexerUp))
    /\ RefreshSettings
    /\ UNCHANGED <<worldVars, age, slot, main, failures, alerted>>

Crash ==
    /\ up /\ Fault
    /\ up' = FALSE
    /\ cache' = {} /\ known' = {} /\ available' = TRUE /\ age' = 0
    /\ slot' = [c \in Slots |-> Idle] /\ main' = 0
    /\ failures' = 0 /\ alerted' = FALSE
    /\ queue' = [i \in DOMAIN queue |-> [queue[i] EXCEPT !.slot = 0]]
    /\ UNCHANGED <<tick, posted, status, view, indexerUp>>

\* OrderScanner.scan and LiquidationScanner.scan over the cache: no position of
\* a market whose configuration could not be read, no funding that was not.
TriggeredOrders(price) == {o \in cache \cap Orders : isTriggered(OrderData[o], price)}
LiquidatablePositions(price) ==
    {p \in cache \cap Accounts :
        /\ "market" \in known
        /\ IF "funding" \in known THEN scanLiquidatable(PosData[p], price, MaintenanceBps)
                                  ELSE cycleLiquidates(PosData[p], price, MaintenanceBps)}
Scan(price) == TriggeredOrders(price) \cup LiquidatablePositions(price)

\* Slots are names: the first free one is taken.
FreeSlot ==
    LET free == {c \in Slots : slot[c].pc = "off"}
    IN  IF free = {} THEN 0 ELSE CHOOSE c \in free : \A d \in free : c <= d

\* Mutant: the loop starts a cycle although the last one is not over.
Begin_Overlaps(c) ==
    /\ up /\ c = FreeSlot
    /\ slot' = [slot EXCEPT ![c] = [Idle EXCEPT !.pc = "send", !.tick = tick,
                                                !.ids = Scan(Price(tick))]]
    /\ main' = c
    /\ age' = IF age < RefreshEvery THEN age + 1 ELSE age
    /\ UNCHANGED <<worldVars, up, cache, known, available, failures, alerted, faults>>

\* A cycle has its prices and scans, all before the next await.  A cycle
\* without prices ends at once and changes nothing.
Begin(c) ==
    /\ up /\ main = 0 /\ c = FreeSlot
    /\ slot' = [slot EXCEPT ![c] = [Idle EXCEPT !.pc = "send", !.tick = tick,
                                                !.ids = Scan(Price(tick))]]
    /\ main' = c
    /\ age' = IF age < RefreshEvery THEN age + 1 ELSE age
    /\ UNCHANGED <<worldVars, up, cache, known, available, failures, alerted, faults>>

\* The loop gives up on its cycle; the cycle does not know.
CycleTimeout ==
    /\ main # 0 /\ Fault
    /\ slot' = [slot EXCEPT ![main].late = TRUE]
    /\ main' = 0
    /\ UNCHANGED <<worldVars, up, cache, known, available, age, failures, alerted>>

\* CycleBuilder: the cycle's prices and what it picked, in one transaction.
Submission(c) == [slot |-> c, tick |-> slot[c].tick, ids |-> slot[c].ids,
                  late |-> slot[c].late]

\* _submitWithRetry: one attempt.
Send(c) ==
    /\ slot[c].pc = "send" /\ Len(queue) < MaxPending
    /\ queue' = Append(queue, Submission(c))
    /\ slot' = [slot EXCEPT ![c].pc = "wait"]
    /\ UNCHANGED <<tick, posted, status, view, indexerUp, up, cache, known, available,
                   age, main, failures, alerted, faults>>

\* Mutant: attempts are not counted.
AfterAttempt_Hangs(c) == [slot EXCEPT ![c].pc = "send"]
AfterAttempt(c) ==
    [slot EXCEPT ![c].tries = @ + 1,
                 ![c].pc = IF slot[c].tries + 1 < MaxRetries THEN "send" ELSE "failed"]

\* The node refuses the transaction, or it was mined and reverted.
AttemptFails(c) ==
    /\ \/ slot[c].pc = "send" /\ Fault
       \/ slot[c].pc = "reverted" /\ UNCHANGED faults
    /\ slot' = AfterAttempt(c)
    /\ UNCHANGED <<worldVars, up, cache, known, available, age, main, failures, alerted>>

\* _waitWithTimeout: nobody awaits the transaction any more, it stays pending.
WaitTimeout(c) ==
    /\ slot[c].pc = "wait" /\ Fault
    /\ slot' = AfterAttempt(c)
    /\ queue' = [i \in DOMAIN queue |->
                   IF queue[i].slot = c THEN [queue[i] EXCEPT !.slot = 0] ELSE queue[i]]
    /\ UNCHANGED <<tick, posted, status, view, indexerUp, up, cache, known, available,
                   age, main, failures, alerted>>

\* Success: what was submitted leaves the cache, executed or not.
Confirm(c) ==
    /\ slot[c].pc = "mined"
    /\ slot' = [slot EXCEPT ![c] = [Idle EXCEPT !.pc = "refresh"]]
    /\ cache' = cache \ slot[c].ids
    /\ failures' = 0
    /\ UNCHANGED <<worldVars, up, known, available, age, main, alerted, faults>>

\* Whether an alert has gone out; the cooldown only spaces repetitions.
AlertedAt(count) == alerted \/ count >= AlertAfter

\* Mutant: the counter starts over with every failed cycle.
GiveUp_Recounts(c) ==
    /\ slot[c].pc = "failed"
    /\ slot' = [slot EXCEPT ![c] = [Idle EXCEPT !.pc = "refresh"]]
    /\ failures' = 1
    /\ alerted' = AlertedAt(failures')
    /\ UNCHANGED <<worldVars, up, cache, known, available, age, main, faults>>

\* All attempts failed; checkAfterCycle alerts from a threshold on.
GiveUp(c) ==
    /\ slot[c].pc = "failed"
    /\ slot' = [slot EXCEPT ![c] = [Idle EXCEPT !.pc = "refresh"]]
    /\ failures' = IF failures < AlertAfter THEN failures + 1 ELSE failures
    /\ alerted' = AlertedAt(failures')
    /\ UNCHANGED <<worldVars, up, cache, known, available, age, main, faults>>

\* refreshOrders, refreshPositions: the list from the indexer, from the
\* chain's recent events when it does not answer; the cache is emptied.
FetchList(c) ==
    /\ slot[c].pc = "refresh" /\ age >= RefreshEvery
    /\ LET useIndexer == available /\ indexerUp
       IN  /\ available' = useIndexer
           /\ slot' = [slot EXCEPT ![c].pc = "read",
                                   ![c].todo = Candidates(useIndexer)]
    /\ cache' = {}
    /\ UNCHANGED <<worldVars, up, known, age, main, failures, alerted, faults>>

\* The fallback's query fails: the cache is left as it is until next time.
FetchListFails(c) ==
    /\ slot[c].pc = "refresh" /\ age >= RefreshEvery
    /\ ~(available /\ indexerUp) /\ Fault
    /\ available' = FALSE
    /\ slot' = [slot EXCEPT ![c].pc = "read"]
    /\ UNCHANGED <<worldVars, up, cache, known, age, main, failures, alerted>>

Next1(js) == CHOOSE j \in js : \A k \in js : j >= k

\* One read of the chain per listed job; only active ones are kept.
ReadJob(c) ==
    LET j == Next1(slot[c].todo)
    IN  /\ slot[c].pc = "read" /\ slot[c].todo # {}
        /\ slot' = [slot EXCEPT ![c].todo = @ \ {j}]
        /\ cache' = cache \cup ActiveNow({j})
        /\ UNCHANGED <<worldVars, up, known, available, age, main, failures, alerted, faults>>

\* The read fails: an order is skipped, a position taken from the indexer's row.
ReadFails(c) ==
    LET j == Next1(slot[c].todo)
    IN  /\ slot[c].pc = "read" /\ slot[c].todo # {} /\ Fault
        /\ slot' = [slot EXCEPT ![c].todo = @ \ {j}]
        /\ cache' = IF available THEN cache \cup ({j} \cap Accounts) ELSE cache
        /\ UNCHANGED <<worldVars, up, known, available, age, main, failures, alerted>>

\* Mutant: the indexer, once given up, is not asked again.
Finish_NoHealthCheck(c) ==
    /\ \/ slot[c].pc = "refresh" /\ age < RefreshEvery /\ UNCHANGED <<age, known, faults>>
       \/ slot[c].pc = "read" /\ slot[c].todo = {} /\ age' = 0 /\ RefreshSettings
    /\ slot' = [slot EXCEPT ![c] = Idle]
    /\ main' = IF main = c THEN 0 ELSE main
    /\ UNCHANGED <<worldVars, up, cache, available, failures, alerted>>

\* The end of a cycle: settings are read again, on their own intervals, which
\* the lists' stands for, and checkIndexerHealth.
Finish(c) ==
    /\ \/ slot[c].pc = "refresh" /\ age < RefreshEvery /\ UNCHANGED <<age, known, faults>>
       \/ slot[c].pc = "read" /\ slot[c].todo = {} /\ age' = 0 /\ RefreshSettings
    /\ available' = (available \/ indexerUp)
    /\ slot' = [slot EXCEPT ![c] = Idle]
    /\ main' = IF main = c THEN 0 ELSE main
    /\ UNCHANGED <<worldVars, up, cache, failures, alerted>>

CycleStep(c) ==
    \/ Send(c) \/ AttemptFails(c) \/ Confirm(c) \/ GiveUp(c)
    \/ FetchList(c) \/ ReadJob(c) \/ Finish(c)

Next ==
    \/ MarketMoves \/ IndexerCatchesUp \/ IndexerFails \/ IndexerReturns
    \/ \E j \in Jobs : Place(j) \/ Withdraw(j)
    \/ \E soft \in {{}} \cup {{j} : j \in Jobs} : Mine(soft)
    \/ Boot \/ Crash \/ CycleTimeout
    \/ \E c \in Slots : Begin(c) \/ CycleStep(c) \/ WaitTimeout(c)
                        \/ FetchListFails(c) \/ ReadFails(c)

Spec == Init /\ [][Next]_vars

\* The engine's own steps and its restart (railway.json), the mining of sent
\* transactions, the indexer's return and catching up.  Users, the market,
\* timeouts and failures owe nothing.
FairSpec ==
    /\ Spec
    /\ WF_vars(Boot) /\ WF_vars(\E c \in Slots : Begin(c))
    /\ \A c \in Slots : WF_vars(CycleStep(c))
    /\ WF_vars(Mine({}))
    /\ WF_vars(IndexerReturns) /\ WF_vars(IndexerCatchesUp)
-----------------------------------------------------------------------------
(* Properties.                                                             *)

\* Two cycles that both send are told apart by the timeout: whatever a retry,
\* a crash or an unconfirmed transaction does, an older price replaces a newer
\* one on the chain only by a transaction of a cycle the loop had given up on
\* (index.js, Promise.race).
StaleOnlyFromLate == [][posted' < posted => Head(queue).late]_vars

PoisonHolds == \E j \in Poison : status[j] = "active" /\ isTriggered(OrderData[j], Price(tick))
TooFar == ~WithinDeviation(Price(posted), Price(tick), MaxDeviationBps)

\* The chain keeps getting the market's price, through timeouts, unconfirmed
\* transactions, refusals and restarts, unless the price has moved further
\* than one posting may, or an order that reverts the batch is triggered.
PricesFlow == []<>(posted = tick \/ PoisonHolds \/ TooFar)

\* A job the engine picks at the current price and the facet accepts does not
\* stay undone: it reaches the cache although the indexer was down, a read
\* failed or it was dropped from the cache after a soft failure.
Due(j) ==
    /\ status[j] = "active" /\ Accepts(j, Price(tick))
    /\ IF j \in Orders THEN isTriggered(OrderData[j], Price(tick))
                       ELSE scanLiquidatable(PosData[j], Price(tick), MaintenanceBps)
JobsServed == \A j \in Jobs : []<>(~Due(j) \/ PoisonHolds \/ TooFar)

\* When the chain stops following a market whose source answers, for good, the
\* operators are told (health-monitor.js, checkAfterCycle), whatever became of
\* the engine's transactions.
StuckIsAlerted == <>[](posted # tick) => <>alerted

\* KeeperMulticallFacet.sol:19, "one revert doesn't block the batch": the
\* engine's prices keep reaching the chain while they are in reach of one
\* posting.  Refuted: see README.
BatchKeepsMoving == []<>(posted = tick \/ TooFar)

\* order-scanner.js:82, "Mirrors KeeperMulticallFacet._checkTrigger() exactly":
\* a cached order is picked when, and only when, the facet would execute it.
\* Refuted: see README.
TriggersMirror ==
    \A j \in cache \cap Orders :
        isTriggered(OrderData[j], Price(tick)) = checkTrigger(OrderData[j], Price(tick))
=============================================================================
