------------------------------- MODULE KeeperExecutor ---------------------------
(***************************************************************************)
(* The keeper node (.keeper) from its cache to its wallet: a cycle syncs   *)
(* the vAMMs, executes triggered orders and liquidates positions, one      *)
(* transaction after another, with simulated calls, retries and nonces     *)
(* kept in memory.  A refresh of the cache runs beside it.  KeeperListener *)
(* says when cycles run and that they do not overlap; here one may start   *)
(* whenever none runs, with any price the chain has had.                   *)
(*                                                                         *)
(* The chain is external: transactions of the wallet are mined in the      *)
(* order of their nonces.  A price is a tick into PriceAt, one for all     *)
(* markets.  Jobs are vAMM syncs, orders and positions.                    *)
(***************************************************************************)
EXTENDS EngineRules, Sequences, FiniteSets, FiniteSetsExt

CONSTANTS
    Markets, Orders, Accounts, \* disjoint sets of numbers; a market names its sync
    OrderData, PosData,
    Old,                       \* jobs older than the window of the chain fallback
    PriceAt, MaintenanceBps,
    MaxRetries,
    MaxFaults                  \* bound on failures of any kind

Jobs == Markets \cup Orders \cup Accounts
MaxTick == Len(PriceAt) - 1
Price(t) == PriceAt[t + 1]

ASSUME KeeperAssumption ==
    /\ Jobs \subseteq Nat /\ Old \subseteq Jobs
    /\ Cardinality(Jobs) = Cardinality(Markets) + Cardinality(Orders) + Cardinality(Accounts)
    /\ PriceAt \in Seq(Nat \ {0}) /\ PriceAt # <<>>
    /\ MaxRetries \in Nat \ {0}

VARIABLES
    \* the chain, the indexer
    tick, status, mempool, view, indexerUp,
    \* the keeper's memory
    up, cycle, cached, configured, active, initializedPools, checkedPools,
    pendingNonce,              \* {} when unknown
    available, filling,
    faults

worldVars == <<tick, status, mempool, view, indexerUp>>
cacheVars == <<configured, active, available, filling>>
poolVars == <<initializedPools, checkedPools>>
vars == <<worldVars, up, cycle, cached, cacheVars, poolVars, pendingNonce, faults>>

NoCycle == [pc |-> "off", phase |-> "sync", todo |-> {}, tries |-> 0, hit |-> FALSE]

Init ==
    /\ tick = 0
    /\ status = [j \in Jobs |-> "none"]
    /\ mempool = {}
    /\ view = {} /\ indexerUp = TRUE
    /\ up = FALSE
    /\ cycle = NoCycle /\ cached = 0
    /\ configured = FALSE /\ active = {} /\ available = TRUE /\ filling = {}
    /\ initializedPools = {} /\ checkedPools = {}
    /\ pendingNonce = {}
    /\ faults = 0

Fault == faults < MaxFaults /\ faults' = faults + 1
-----------------------------------------------------------------------------
(* The chain.                                                              *)

PriceMoves ==
    /\ tick < MaxTick
    /\ tick' = tick + 1
    /\ UNCHANGED <<status, mempool, view, indexerUp, up, cycle, cached, cacheVars,
                   poolVars, pendingNonce, faults>>

\* A user opens a position or places an order, an operator a vAMM (init-pools.js).
Place(j) ==
    /\ status[j] = "none"
    /\ status' = [status EXCEPT ![j] = "active"]
    /\ UNCHANGED <<tick, mempool, view, indexerUp, up, cycle, cached, cacheVars,
                   poolVars, pendingNonce, faults>>

Withdraw(j) ==
    /\ status[j] = "active" /\ j \notin Markets
    /\ status' = [status EXCEPT ![j] = "gone"]
    /\ UNCHANGED <<tick, mempool, view, indexerUp, up, cycle, cached, cacheVars,
                   poolVars, pendingNonce, faults>>

IndexerCatchesUp ==
    /\ indexerUp
    /\ view' = {j \in Orders \cup Accounts : status[j] = "active"}
    /\ UNCHANGED <<tick, status, mempool, indexerUp, up, cycle, cached, cacheVars,
                   poolVars, pendingNonce, faults>>

IndexerSwitches ==
    /\ IF indexerUp THEN Fault ELSE UNCHANGED faults
    /\ indexerUp' = ~indexerUp
    /\ UNCHANGED <<tick, status, mempool, view, up, cycle, cached, cacheVars,
                   poolVars, pendingNonce>>

\* OrderBookFacet.executeOrder, LiquidationFacet.liquidate, syncToOracle.
Accepts(j) ==
    /\ status[j] = "active"
    /\ j \in Orders => checkTrigger(OrderData[j], Price(tick))
    /\ j \in Accounts =>
          scanLiquidatable(PosData[j], Price(tick), MaintenanceBps)

\* Nonces count from the next one to be mined; -1 is any nonce already used.
Shift(ns) == {IF n = -1 THEN -1 ELSE n - 1 : n \in ns}

Mine ==
    \E tx \in mempool :
        /\ tx.nonce = 0
        /\ mempool' = {[t EXCEPT !.nonce = @ - 1] : t \in mempool \ {tx}}
        /\ pendingNonce' = Shift(pendingNonce)
        /\ status' = IF Accepts(tx.job) /\ tx.job \notin Markets
                     THEN [status EXCEPT ![tx.job] = "gone"] ELSE status
        /\ cycle' = IF tx.awaited
                    THEN [cycle EXCEPT !.pc = IF Accepts(tx.job) THEN "mined" ELSE "reverted"]
                    ELSE cycle
        /\ UNCHANGED <<tick, view, indexerUp, up, cached, cacheVars, poolVars, faults>>
-----------------------------------------------------------------------------
(* The caches.                                                             *)

\* The indexer's two lists, or what the events of the last blocks name.
Listed == view
Recent == {j \in (Orders \cup Accounts) \ Old : status[j] # "none"}
ActiveNow(js) == {j \in js : status[j] = "active"}

\* refreshMarketConfigs: the markets' maintenance margins, read at the start and
\* again with the refreshes; once known they stay.
RefreshConfigs ==
    \/ configured' = TRUE /\ UNCHANGED faults
    \/ ~configured /\ configured' = FALSE /\ Fault

\* Start: cached price and lists are the chain's.
Boot ==
    /\ ~up
    /\ up' = TRUE
    /\ cached' = tick
    /\ available' = indexerUp
    /\ active' = ActiveNow(IF indexerUp THEN Listed ELSE Recent)
    /\ RefreshConfigs
    /\ UNCHANGED <<worldVars, cycle, filling, poolVars, pendingNonce>>

Crash ==
    /\ up /\ Fault
    /\ up' = FALSE
    /\ cycle' = NoCycle /\ cached' = 0
    /\ configured' = FALSE /\ active' = {} /\ available' = TRUE /\ filling' = {}
    /\ initializedPools' = {} /\ checkedPools' = {}
    /\ pendingNonce' = {}
    /\ mempool' = {[t EXCEPT !.awaited = FALSE] : t \in mempool}
    /\ UNCHANGED <<tick, status, view, indexerUp>>

\* checkIndexerHealth: an indexer given up is taken back when it answers.
HealthChecked(was) == was \/ indexerUp

\* Mutant: the indexer, once given up, is not asked again.
Refresh_NoHealthCheck ==
    /\ up /\ filling = {}
    /\ LET useIndexer == available /\ indexerUp
           list == IF useIndexer THEN Listed ELSE Recent
       IN  /\ filling' = list \cap Orders
           /\ active' = IF useIndexer THEN list \cap Accounts
                                      ELSE ActiveNow(list \cap Accounts)
           /\ available' = useIndexer
    /\ checkedPools' = {}
    /\ RefreshConfigs
    /\ UNCHANGED <<worldVars, up, cycle, cached, initializedPools, pendingNonce>>

\* The refresh timer: the list replaces the cache, orders are read one by one
\* and enter it as they come, positions are taken from the indexer unread.
Refresh ==
    /\ up /\ filling = {}
    /\ LET useIndexer == available /\ indexerUp
           list == IF useIndexer THEN Listed ELSE Recent
       IN  /\ filling' = list \cap Orders
           /\ active' = IF useIndexer THEN list \cap Accounts
                                      ELSE ActiveNow(list \cap Accounts)
           /\ available' = HealthChecked(useIndexer)
    /\ checkedPools' = {}
    /\ RefreshConfigs
    /\ UNCHANGED <<worldVars, up, cycle, cached, initializedPools, pendingNonce>>

RefreshRead ==
    \E j \in filling :
        /\ filling' = filling \ {j}
        /\ active' = active \cup ActiveNow({j})
        /\ UNCHANGED <<worldVars, up, cycle, cached, configured, available, poolVars,
                       pendingNonce, faults>>

RefreshReadFails ==
    \E j \in filling :
        /\ Fault
        /\ filling' = filling \ {j}
        /\ UNCHANGED <<worldVars, up, cycle, cached, configured, active, available, poolVars,
                       pendingNonce>>

-----------------------------------------------------------------------------
(* The cycle.                                                              *)

\* OrderScanner._isTriggered knows limit and stop-limit orders only;
\* LiquidationScanner counts no funding, and needs the market's configuration.
triggered(j) ==
    /\ OrderData[j].orderType \in {"LIMIT", "STOP_LIMIT"}
    /\ checkTrigger(OrderData[j], Price(cached))
candidate(j) == cycleLiquidates(PosData[j], Price(cached), MaintenanceBps)

Following == [sync |-> "orders", orders |-> "liquidations"]

Picked(phase) ==
    CASE phase = "sync" -> Markets
      [] phase = "orders" -> {j \in active \cap Orders : triggered(j)}
      [] phase = "liquidations" -> {j \in active \cap Accounts : configured /\ candidate(j)}

\* executionCycle: the listener's or the fallback's price is cached.
BeginCycle(t) ==
    /\ up /\ cycle.pc = "off"
    /\ cached' = t
    /\ cycle' = [NoCycle EXCEPT !.pc = "phase"]
    /\ UNCHANGED <<worldVars, up, cacheVars, poolVars, pendingNonce, faults>>

\* syncAll, OrderScanner.scan, LiquidationScanner.scan: what is to be sent is
\* fixed when the phase begins.
BeginPhase ==
    /\ cycle.pc = "phase"
    /\ cycle' = [cycle EXCEPT !.pc = "next", !.todo = Picked(cycle.phase)]
    /\ UNCHANGED <<worldVars, up, cached, cacheVars, poolVars, pendingNonce, faults>>

EndPhase ==
    /\ cycle.pc = "next" /\ cycle.todo = {}
    /\ cycle' = IF cycle.phase = "liquidations" THEN NoCycle
                ELSE [cycle EXCEPT !.pc = "phase", !.phase = Following[@]]
    /\ UNCHANGED <<worldVars, up, cached, cacheVars, poolVars, pendingNonce, faults>>

Job == Min(cycle.todo)
Attending == cycle.pc = "next" /\ cycle.todo # {}
Done == [cycle EXCEPT !.pc = "next", !.todo = @ \ {Job}, !.tries = 0, !.hit = FALSE]
Submit == [cycle EXCEPT !.pc = "send"]

\* _syncMarket: the pool is looked up once, until the next reset.
AttendPool ==
    LET m == Job
        looks == m \notin initializedPools \cup checkedPools
    IN  /\ Attending /\ m \in Markets
        /\ checkedPools' = IF looks THEN checkedPools \cup {m} ELSE checkedPools
        /\ \/ /\ m \in initializedPools \/ (looks /\ status[m] = "active")
              /\ initializedPools' = initializedPools \cup {m}
              /\ cycle' = Submit /\ UNCHANGED faults
           \/ /\ m \notin initializedPools
              /\ IF looks /\ status[m] = "active" THEN Fault ELSE UNCHANGED faults
              /\ cycle' = Done /\ UNCHANGED initializedPools
        /\ UNCHANGED <<worldVars, up, cached, cacheVars, pendingNonce>>

\* checkLiquidatable and the simulated call let the transaction be sent, or
\* could not be made.
Proceed ==
    /\ Attending /\ Job \notin Markets
    /\ IF Accepts(Job) THEN UNCHANGED faults ELSE Fault
    /\ cycle' = Submit
    /\ UNCHANGED <<worldVars, up, cached, cacheVars, poolVars, pendingNonce>>

\* checkLiquidatable finds the position healthy: it stays in the cache.
Skip ==
    /\ Attending /\ Job \in Accounts
    /\ status[Job] = "active" /\ ~Accepts(Job)
    /\ cycle' = Done
    /\ UNCHANGED <<worldVars, up, cached, cacheVars, poolVars, pendingNonce, faults>>

\* The simulated call reverts for good: the job leaves the cache.  A position
\* still active gets there only when checkLiquidatable could not be asked.
Drop ==
    /\ Attending /\ Job \notin Markets /\ ~Accepts(Job)
    /\ IF Job \in Accounts /\ status[Job] = "active" THEN Fault ELSE UNCHANGED faults
    /\ cycle' = Done
    /\ active' = active \ {Job}
    /\ UNCHANGED <<worldVars, up, cached, configured, available, filling, poolVars,
                   pendingNonce>>

Nonces == {tx.nonce : tx \in mempool}
\* What the node answers for the "pending" count.
NextFree == Min((0 .. Cardinality(mempool)) \ Nonces)
NonceToUse == IF pendingNonce = {} THEN NextFree ELSE Max(pendingNonce)

\* Mutant: a nonce handed out is kept, whatever became of it.
AttemptFails_KeepsNonce(kept, hit) ==
    /\ pendingNonce' = kept
    /\ cycle' = IF cycle.tries + 1 < MaxRetries
               THEN [cycle EXCEPT !.pc = "send", !.tries = @ + 1, !.hit = hit]
               ELSE [cycle EXCEPT !.pc = "failed", !.hit = hit]

\* A failed attempt forgets the nonce and is repeated; the last one keeps it.
AttemptFails(kept, hit) ==
    IF cycle.tries + 1 < MaxRetries
    THEN /\ pendingNonce' = {}
         /\ cycle' = [cycle EXCEPT !.pc = "send", !.tries = @ + 1, !.hit = hit]
    ELSE /\ pendingNonce' = kept
         /\ cycle' = [cycle EXCEPT !.pc = "failed", !.hit = hit]

Send ==
    /\ cycle.pc = "send" /\ NonceToUse \notin Nonces \cup {-1}
    /\ mempool' = mempool \cup {[nonce |-> NonceToUse, job |-> Job, awaited |-> TRUE]}
    /\ pendingNonce' = {NonceToUse + 1}
    /\ cycle' = [cycle EXCEPT !.pc = "wait"]
    /\ UNCHANGED <<tick, status, view, indexerUp, up, cached, cacheVars, poolVars,
                   faults>>

\* The node refuses a used nonce, or does not take the transaction at all.
SendRefused ==
    /\ cycle.pc = "send"
    /\ IF NonceToUse \in Nonces \cup {-1}
       THEN UNCHANGED faults /\ AttemptFails({NonceToUse + 1}, cycle.hit)
       ELSE Fault /\ AttemptFails({NonceToUse + 1}, TRUE)
    /\ UNCHANGED <<worldVars, up, cached, cacheVars, poolVars>>

\* No receipt in time: certain behind a missing nonce.  The transaction stays.
WaitTimeout ==
    /\ cycle.pc = "wait"
    /\ \E tx \in mempool :
          /\ tx.awaited
          /\ IF 0 .. tx.nonce \subseteq Nonces
             THEN Fault /\ AttemptFails(pendingNonce, TRUE)
             ELSE UNCHANGED faults /\ AttemptFails(pendingNonce, cycle.hit)
          /\ mempool' = (mempool \ {tx}) \cup {[tx EXCEPT !.awaited = FALSE]}
    /\ UNCHANGED <<tick, status, view, indexerUp, up, cached, cacheVars, poolVars>>

\* Mined and reverted: repeated, the reason is not in the receipt.
TxReverted ==
    /\ cycle.pc = "reverted"
    /\ AttemptFails(pendingNonce, TRUE)
    /\ UNCHANGED <<worldVars, up, cached, cacheVars, poolVars, faults>>

\* Mined: the job leaves the cache.
Confirm ==
    /\ cycle.pc = "mined"
    /\ cycle' = Done
    /\ active' = active \ {Job}
    /\ UNCHANGED <<worldVars, up, cached, configured, available, filling, poolVars,
                   pendingNonce, faults>>

\* Out of attempts: the job stays in the cache for another cycle.
GiveUp ==
    /\ cycle.pc = "failed"
    /\ cycle' = Done
    /\ UNCHANGED <<worldVars, up, cached, cacheVars, poolVars, pendingNonce, faults>>

Step ==
    \/ BeginPhase \/ EndPhase
    \/ AttendPool \/ Proceed \/ Skip \/ Drop
    \/ Send \/ SendRefused \/ WaitTimeout \/ TxReverted
    \/ Confirm \/ GiveUp

Next ==
    \/ PriceMoves
    \/ \E j \in Jobs : Place(j) \/ Withdraw(j)
    \/ IndexerCatchesUp \/ IndexerSwitches \/ Mine
    \/ Boot \/ Crash \/ Refresh \/ RefreshRead \/ RefreshReadFails
    \/ \E t \in 0 .. tick : BeginCycle(t)
    \/ Step

Spec == Init /\ [][Next]_vars

\* The refresh timer fires and its calls return, transactions in turn are
\* mined, the indexer comes back and catches up.  Nobody restarts the node,
\* moves prices or trades.
FairSpec ==
    /\ Spec
    /\ WF_vars(Refresh) /\ WF_vars(RefreshRead) /\ WF_vars(Step) /\ WF_vars(Mine)
    /\ WF_vars(~indexerUp /\ IndexerSwitches) /\ WF_vars(IndexerCatchesUp)
-----------------------------------------------------------------------------
(* Properties.                                                             *)

\* A refused or unmined transaction may leave a hole in the wallet's nonces and
\* later transactions waiting behind it.  That costs attempts, but no job fails
\* for it: one that is given up met a failure of its own (executor.js,
\* _submitTx and _getNextNonce).
NonceTroubleHeals == cycle.pc = "failed" => cycle.hit

\* A job that is active gets into the cache although a read of it failed, it
\* was dropped after a revert or the indexer was away.
JobsKnown ==
    \A j \in Orders \cup Accounts : []<>(~up \/ status[j] # "active" \/ j \in active)
=============================================================================
