---------------------------- MODULE IndexerProofs ----------------------------
(***************************************************************************)
(* The indexer, for every chain, batch size and number of crashes, failing *)
(* statements, failing records, signals and restarts.  It implements       *)
(* EventDelivery: the recorded block never passes one that was not gone    *)
(* through.  And of its tables: ends of positions and orders are never     *)
(* taken back, an event has one history row until a batch is cut short,    *)
(* and at the head the tables hold what the chain holds.                   *)
(***************************************************************************)
EXTENDS Indexer, SequenceTheorems, FiniteSetTheorems, WellFoundedInduction, TLAPS

\* The mark of EventDelivery.
Mark == IF lastIndexed < StartBlock THEN StartBlock - 1 ELSE lastIndexed

\* Where a batch stands.
Cursor == [to : Nat, at : Nat, event : Nat, stmt : Nat]

ChainIsLog == \E S : chain \in Seq(S)

\* The recorded block is one of the chain's, and while the process is up the
\* next batch begins right behind it.
MarkInv ==
    /\ lastIndexed \in 0..ChainHead
    /\ target \in 0..ChainHead
    /\ StartBlock <= ChainHead + 1
    /\ pc # "down" => /\ lastIndexed >= StartBlock - 1
                      /\ next = lastIndexed + 1

\* A batch begins behind the mark and ends on the chain; what it has passed has
\* been gone through.
ScanInv ==
    /\ scan \in Cursor
    /\ scan # NoScan =>
          /\ pc # "down"
          /\ lastIndexed < scan.at /\ scan.at <= scan.to + 1
          /\ lastIndexed < scan.to /\ scan.to <= ChainHead
          /\ (lastIndexed + 1)..(scan.at - 1) \subseteq handled

IInv == ChainIsLog /\ MarkInv /\ ScanInv

\* What a step does to the three variables of EventDelivery.
DeliveryStep ==
    \/ ChainHead' = ChainHead + 1 /\ UNCHANGED <<handled, Mark>>
    \/ \E n \in StartBlock..ChainHead :
          /\ Mark < n
          /\ \/ handled' = handled \union {n} /\ UNCHANGED Mark
             \/ (Mark + 1)..n \subseteq handled /\ Mark' = n /\ UNCHANGED handled
          /\ UNCHANGED ChainHead
    \/ UNCHANGED <<ChainHead, handled, Mark>>

-----------------------------------------------------------------------------
LEMMA HeadIsNat == ChainIsLog => ChainHead \in Nat
  BY LenProperties DEF ChainIsLog, ChainHead

\* Every action of the chain appends one block.
LEMMA ChainGrows ==
    ASSUME ChainNext
    PROVE  \E logs, state : Mine(logs, state)
  BY DEF ChainNext, PostPrices, CyclePrices, SetFees, CreateMarket, SwitchMarket,
         AddCollateral, RemoveCollateral, CreateVault, RecordOnly, ClosePosition,
         LiquidatePosition, OpenPosition, ModifyPosition, PartialClose, Deleverage,
         ExecuteCloseOrder, PlaceOrder, CancelOrder, ExecuteOrder

LEMMA BlockAppended ==
    ASSUME ChainIsLog, NEW logs, NEW state, Mine(logs, state)
    PROVE  ChainIsLog' /\ ChainHead' = ChainHead + 1
  <1>1. PICK S : chain \in Seq(S)
    BY DEF ChainIsLog
  <1> DEFINE T == S \cup {logs}
  <1>2. chain \in Seq(T)
    BY <1>1, SeqMonotonic
  <1>3. chain' = Append(chain, logs)
    BY DEF Mine
  <1>4. chain' \in Seq(T) /\ Len(chain') = Len(chain) + 1
    BY <1>2, <1>3, AppendProperties
  <1> QED
    BY <1>4 DEF ChainIsLog, ChainHead

LEMMA InitIInv == Init => IInv /\ ChainHead = StartBlock - 1
  <1> SUFFICES ASSUME Init PROVE IInv /\ ChainHead = StartBlock - 1
    OBVIOUS
  <1> DEFINE n == StartBlock - 1
  <1>1. n \in Nat
    BY BlockAssumption
  <1>2. chain = [b \in 1..n |-> NoLogs]
    BY DEF Init, ChainInit
  <1> HIDE DEF n
  <1>3. chain \in [1..n -> {NoLogs}]
    BY <1>2
  <1>4. chain \in Seq({NoLogs})
    BY <1>1, <1>3, SeqDef
  <1>5. Len(chain) = n
    BY <1>1, <1>3, <1>4, LenProperties
  <1>6. ChainIsLog /\ ChainHead = n
    BY <1>4, <1>5 DEF ChainIsLog, ChainHead
  <1>7. scan = NoScan /\ NoScan \in Cursor
    BY DEF Init, NoScan, Cursor
  <1>8. MarkInv
    BY <1>1, <1>6, BlockAssumption DEF Init, MarkInv, n
  <1> QED
    BY <1>6, <1>7, <1>8 DEF IInv, ScanInv, Cursor, n

-----------------------------------------------------------------------------
(* One lemma per kind of step: the invariant is kept, and the step is one  *)
(* of EventDelivery.                                                       *)

LEMMA ChainSteps ==
    ASSUME IInv, ChainStep
    PROVE  IInv' /\ DeliveryStep
  <1>1. ChainIsLog' /\ ChainHead' = ChainHead + 1
    BY ChainGrows, BlockAppended DEF ChainStep, IInv
  <1>2. ChainHead \in Nat
    BY HeadIsNat DEF IInv
  <1>3. UNCHANGED <<lastIndexed, pc, next, target, scan, handled>>
    BY DEF ChainStep, indexerVars
  <1>4. MarkInv'
    BY <1>1, <1>2, <1>3, BlockAssumption DEF IInv, MarkInv
  <1>5. ScanInv'
    BY <1>1, <1>2, <1>3 DEF IInv, ScanInv, Cursor
  <1> QED
    BY <1>1, <1>3, <1>4, <1>5 DEF IInv, DeliveryStep, Mark

\* Steps that leave the three variables alone, and move the batch at most from
\* one event or statement to the next.
LEMMA QuietSteps ==
    ASSUME IInv, Execute \/ Fail \/ Refuse
    PROVE  IInv' /\ DeliveryStep
  <1>1. /\ UNCHANGED <<chainVars, lastIndexed, pc, running, next, target, handled>>
        /\ scan' \in {NextEvent, NextStatement}
        /\ InBlock
    BY DEF Execute, Fail, Refuse
  <1>2. scan # NoScan /\ scan \in Cursor
    BY <1>1 DEF InBlock, InBatch, IInv, ScanInv, Cursor
  <1>3. /\ scan' \in Cursor
        /\ scan'.at = scan.at /\ scan'.to = scan.to
    <2>1. scan.event \in Nat /\ scan.stmt \in Nat
      BY <1>2 DEF Cursor
    <2>2. CASE scan' = NextEvent
      <3> DEFINE moved == [scan EXCEPT !.event = scan.event + 1]
      <3>1. moved \in Cursor /\ moved.at = scan.at /\ moved.to = scan.to
        BY <1>2, <2>1 DEF Cursor
      <3>2. scan' = [moved EXCEPT !.stmt = 1]
        BY <1>2, <2>2 DEF NextEvent, Cursor
      <3> HIDE DEF moved
      <3> QED
        BY <3>1, <3>2 DEF Cursor
    <2>3. CASE scan' = NextStatement
      BY <1>2, <2>1, <2>3 DEF NextStatement, Cursor
    <2> QED
      BY <1>1, <2>2, <2>3
  <1>4. UNCHANGED <<ChainHead, handled, Mark>>
    BY <1>1 DEF chainVars, ChainHead, Mark
  <1>5. MarkInv' /\ ChainIsLog'
    BY <1>1, <1>4 DEF IInv, MarkInv, ChainIsLog, chainVars
  <1>6. ScanInv'
    BY <1>1, <1>2, <1>3, <1>4 DEF IInv, ScanInv, Cursor
  <1> QED
    BY <1>4, <1>5, <1>6 DEF IInv, DeliveryStep

\* The batch begins, or the process lets go of it.
LEMMA OutsideSteps ==
    ASSUME IInv, \/ StartScan \/ GoLive \/ RecordFails \/ Signal \/ Exit \/ Crash
    PROVE  IInv' /\ DeliveryStep
  <1>1. /\ UNCHANGED <<chainVars, lastIndexed, handled>>
        /\ \/ pc' = "down"
           \/ UNCHANGED <<pc, next>>
           \/ pc # "down" /\ next' = lastIndexed + 1
        /\ target' \in {0, target}
    BY DEF StartScan, GoLive, RecordFails, Signal, Exit, Crash, LoseMemory, IInv, MarkInv
  <1>2. UNCHANGED <<ChainHead, handled, Mark>>
    BY <1>1 DEF chainVars, ChainHead, Mark
  <1>3. ChainHead \in Nat
    BY HeadIsNat DEF IInv
  <1>4. MarkInv' /\ ChainIsLog'
    BY <1>1, <1>2, <1>3 DEF IInv, MarkInv, ChainIsLog, chainVars
  <1>5. NoScan \in Cursor
    BY DEF NoScan, Cursor
  <1>6. ScanInv'
    <2>1. CASE scan' = NoScan
      BY <2>1, <1>5 DEF ScanInv, Cursor
    <2>2. CASE UNCHANGED <<scan, pc>>
      BY <2>2, <1>1, <1>2 DEF IInv, ScanInv, Cursor
    <2>3. CASE StartScan
      <3> DEFINE to == Lesser(next + BatchSize - 1, Limit)
      <3>1. /\ scan' = [to |-> to, at |-> next, event |-> 1, stmt |-> 1]
            /\ pc' = pc /\ pc # "down" /\ next <= Limit
        BY <2>3 DEF StartScan
      <3>2. Limit \in Nat /\ Limit <= ChainHead
        BY <1>3 DEF Limit, IInv, MarkInv
      <3>3. next \in Nat /\ next = lastIndexed + 1 /\ lastIndexed \in Nat
        BY <3>1, <1>3 DEF IInv, MarkInv
      <3>4. to \in Nat /\ next <= to /\ to <= Limit
        BY <3>1, <3>2, <3>3, IndexerAssumption DEF Lesser
      <3> HIDE DEF to
      <3>5. (lastIndexed + 1)..(next - 1) = {}
        BY <3>3
      <3> QED
        BY <3>1, <3>2, <3>3, <3>4, <3>5, <1>1, <1>2, <1>3 DEF ScanInv, Cursor
    <2> QED
      BY <2>1, <2>2, <2>3 DEF GoLive, RecordFails, Signal, Exit, Crash, LoseMemory
  <1> QED
    BY <1>2, <1>4, <1>6 DEF IInv, DeliveryStep

\* Going through a block is a delivery.
LEMMA EndBlockDelivers ==
    ASSUME IInv, EndBlock
    PROVE  IInv' /\ DeliveryStep
  <1> DEFINE n == scan.at
  <1>1. /\ scan # NoScan /\ scan.at <= scan.to
        /\ handled' = handled \union {n}
        /\ scan' = [scan EXCEPT !.at = @ + 1, !.event = 1, !.stmt = 1]
        /\ UNCHANGED <<chainVars, lastIndexed, pc, next, target>>
    BY DEF EndBlock, InBatch
  <1>2. ChainHead \in Nat /\ ChainHead' = ChainHead /\ Mark' = Mark
    BY <1>1, HeadIsNat DEF IInv, chainVars, ChainHead, Mark
  <1>3. /\ scan \in Cursor /\ n \in Nat /\ scan.to \in Nat
        /\ pc # "down" /\ lastIndexed < n /\ n <= scan.to
        /\ lastIndexed < scan.to /\ scan.to <= ChainHead
        /\ (lastIndexed + 1)..(n - 1) \subseteq handled
    BY <1>1 DEF IInv, ScanInv, Cursor
  <1>4. lastIndexed \in Nat /\ lastIndexed >= StartBlock - 1
    BY <1>2, <1>3 DEF IInv, MarkInv
  <1>5. /\ scan'.at = n + 1 /\ scan'.to = scan.to
        /\ scan' \in Cursor
    <2>1. scan.at \in Nat
      BY <1>3 DEF Cursor
    <2> DEFINE moved == [scan EXCEPT !.at = n + 1]
    <2>2. moved \in Cursor /\ moved.at = n + 1 /\ moved.to = scan.to
      BY <1>3, <2>1 DEF Cursor
    <2>3. scan' = [[moved EXCEPT !.event = 1] EXCEPT !.stmt = 1]
      BY <1>1, <1>3 DEF Cursor
    <2> HIDE DEF moved
    <2> QED
      BY <2>2, <2>3 DEF Cursor
  <1>6. n \in StartBlock..ChainHead /\ Mark < n
    BY <1>2, <1>3, <1>4, BlockAssumption DEF Mark
  <1>7. DeliveryStep
    BY <1>1, <1>2, <1>6 DEF DeliveryStep
  <1>8. MarkInv' /\ ChainIsLog'
    BY <1>1, <1>2 DEF IInv, MarkInv, ChainIsLog, chainVars
  <1>9. (lastIndexed + 1)..n \subseteq handled'
    BY <1>1, <1>3, <1>4
  <1>10. ScanInv'
    BY <1>1, <1>2, <1>3, <1>4, <1>5, <1>9 DEF ScanInv, Cursor
  <1> QED
    BY <1>7, <1>8, <1>10 DEF IInv

\* Recording a batch moves the mark over blocks that were gone through.
LEMMA RecordAcks ==
    ASSUME IInv, Record
    PROVE  IInv' /\ DeliveryStep
  <1> DEFINE n == scan.to
  <1>1. /\ scan # NoScan /\ scan.at > n
        /\ lastIndexed' = n /\ next' = n + 1 /\ scan' = NoScan
        /\ UNCHANGED <<chainVars, pc, target, handled>>
    BY DEF Record, BatchDone
  <1>2. ChainHead \in Nat /\ ChainHead' = ChainHead
    BY <1>1, HeadIsNat DEF IInv, chainVars, ChainHead
  <1>3. /\ scan.at \in Nat /\ n \in Nat
        /\ pc # "down" /\ scan.at <= n + 1
        /\ lastIndexed < n /\ n <= ChainHead
        /\ (lastIndexed + 1)..(scan.at - 1) \subseteq handled
    BY <1>1 DEF IInv, ScanInv, Cursor
  <1>4. lastIndexed \in Nat /\ lastIndexed >= StartBlock - 1
    BY <1>2, <1>3 DEF IInv, MarkInv
  <1>5. Mark = lastIndexed /\ Mark' = n /\ n \in StartBlock..ChainHead
    BY <1>1, <1>2, <1>3, <1>4, BlockAssumption DEF Mark
  <1>6. scan.at - 1 = n
    BY <1>1, <1>3
  <1>7. DeliveryStep
    BY <1>1, <1>2, <1>3, <1>5, <1>6 DEF DeliveryStep
  <1>8. MarkInv' /\ ChainIsLog'
    BY <1>1, <1>2, <1>3, <1>4, BlockAssumption DEF IInv, MarkInv, ChainIsLog, chainVars
  <1>9. NoScan \in Cursor
    BY DEF NoScan, Cursor
  <1> QED
    BY <1>1, <1>7, <1>8, <1>9 DEF IInv, ScanInv, Cursor

\* A start initialises the record of a fresh database, no more.
LEMMA BootSteps ==
    ASSUME IInv, Boot
    PROVE  IInv' /\ DeliveryStep
  <1> DEFINE mark == IF lastIndexed < StartBlock THEN StartBlock - 1 ELSE lastIndexed
  <1>1. /\ pc = "down" /\ lastIndexed' = mark /\ next' = mark + 1
        /\ target' = ChainHead
        /\ UNCHANGED <<chainVars, scan, handled>>
    BY DEF Boot
  <1>2. ChainHead \in Nat /\ ChainHead' = ChainHead
    BY <1>1, HeadIsNat DEF IInv, chainVars, ChainHead
  <1>3. scan = NoScan
    BY <1>1 DEF IInv, ScanInv, Cursor
  <1>4. mark \in 0..ChainHead /\ mark >= StartBlock - 1
    BY <1>2, BlockAssumption DEF IInv, MarkInv
  <1>5. Mark' = Mark
    BY <1>1, <1>4, BlockAssumption DEF Mark
  <1>6. MarkInv' /\ ChainIsLog'
    BY <1>1, <1>2, <1>4 DEF IInv, MarkInv, ChainIsLog, chainVars
  <1> QED
    BY <1>1, <1>2, <1>3, <1>5, <1>6 DEF IInv, ScanInv, Cursor, DeliveryStep

LEMMA NextKeeps == IInv /\ [Next]_vars => IInv' /\ DeliveryStep
  <1> SUFFICES ASSUME IInv, [Next]_vars PROVE IInv' /\ DeliveryStep
    OBVIOUS
  <1>1. CASE ChainStep
    BY <1>1, ChainSteps
  <1>2. CASE IndexerNext
    BY <1>2, QuietSteps, OutsideSteps, EndBlockDelivers, RecordAcks, BootSteps
       DEF IndexerNext
  <1>3. CASE UNCHANGED vars
    BY <1>3 DEF vars, chainVars, indexerVars, IInv, ChainIsLog, MarkInv, ScanInv, Cursor,
                ChainHead, DeliveryStep, Mark
  <1> QED
    BY <1>1, <1>2, <1>3 DEF Next

-----------------------------------------------------------------------------
\* Such a step is one of EventDelivery's, or leaves its variables alone.
LEMMA StepDelivers == DeliveryStep => [Delivery!Next]_(Delivery!deliveryVars)
  BY DEF DeliveryStep, Delivery!Next, Delivery!Publish, Delivery!Deliver, Delivery!Ack,
         Delivery!deliveryVars, Mark

LEMMA InitDelivers == Init => Delivery!Init
  <1> SUFFICES ASSUME Init PROVE Delivery!Init
    OBVIOUS
  <1>1. ChainHead = StartBlock - 1
    BY InitIInv
  <1> QED
    BY <1>1, BlockAssumption DEF Init, Delivery!Init

\* Whatever crashes, signals, failing statements and failing records lie
\* between, scanBlocks goes through every block from the deployment on before
\* setLastIndexedBlock passes it, and the record never goes back.
THEOREM DeliveryImplemented == Spec => ImplementsDelivery
  <1>1. IInv /\ [Next]_vars => IInv'
    BY NextKeeps
  <1>2. IInv /\ [Next]_vars => [Delivery!Next]_(Delivery!deliveryVars)
    BY NextKeeps, StepDelivers
  <1>3. Init => IInv
    BY InitIInv
  <1> QED
    BY <1>1, <1>2, <1>3, InitDelivers, PTL DEF Spec, ImplementsDelivery, Delivery!Spec

-----------------------------------------------------------------------------
(* What the tables hold.  The logs say of a position or an order what      *)
(* became of it, and of a block only the last event adds history.          *)

PositionStatus == {"none", "open", "closed", "liquidated", "deleveraged"}
OrderStatus == {"none", "active", "executed", "cancelled"}
Switch == {"none", "on", "off"}
Row == [status : PositionStatus, size : Int]

EventKinds == PositionKinds \cup OrderKinds \cup SettingKinds
                \cup {"Liquidation", "Deleveraged", "KeeperCycle", "ProtocolEvent"}
EventRecords == [kind : EventKinds, id : Positions \cup Orders \cup {0}, val : Int]

OnchainStates ==
    [pos : [Positions -> Row], ord : [Orders -> OrderStatus],
     market : Switch, token : Switch, vault : Switch, prices : Nat, fees : Nat]

\* An event that ends a position or an order is true of a state.
TrueOf(e, state) ==
    /\ e.kind \in PositionKinds \cup {"Liquidation"} => e.id \in Positions
    /\ e.kind \in OrderKinds => e.id \in Orders
    /\ e.kind = "PositionClosed" => state.pos[e.id].status = "closed"
    /\ e.kind = "Liquidation" => state.pos[e.id].status = "liquidated"
    /\ e.kind = "OrderExecuted" => state.ord[e.id] = "executed"
    /\ e.kind = "OrderCancelled" => state.ord[e.id] = "cancelled"

GoodLogs(events, state) ==
    /\ events \in Seq(EventRecords)
    /\ \A i \in 1..Len(events) : TrueOf(events[i], state)
    /\ \A i \in 1..Len(events) : i < Len(events) => events[i].kind \in OrderKinds

LogsTrue ==
    /\ onchain \in OnchainStates
    /\ \A b \in 1..ChainHead : GoodLogs(Logs(b), onchain)

\* A batch stands at a statement of an event of a block.
AtStatement ==
    /\ scan # NoScan => scan.event \in Nat \ {0}
    /\ InBlock => scan.stmt \in 1..Len(Todo)

\* The table a statement adds a row to.
Inserts == [insertTrade |-> "trades", insertLiquidation |-> "liquidations",
            insertPriceUpdates |-> "price_updates", insertLedgerEntry |-> "account_ledger",
            insertTradingAccountEvent |-> "trading_account_events",
            insertProtocolEvent |-> "protocol_events", insertKeeperCycle |-> "keeper_cycles"]

HistoryTables == {Inserts[stmt] : stmt \in DOMAIN Inserts}
History == UNION {[S -> Nat] : S \in SUBSET (HistoryTables \X Nat)}
Tables ==
    [pos : [Positions -> Row], ord : [Orders -> OrderStatus],
     market : Switch, token : Switch, prices : Int, fees : Int, vault : Switch,
     mode : {"isolated", "cross"}, delegate : BOOLEAN, rows : History]

\* The tables know no end of a position or an order that is not the chain's.
RowsTrue ==
    /\ db \in Tables
    /\ \A p \in Positions :
          db.pos[p].status \in {"closed", "liquidated"} =>
             db.pos[p].status = onchain.pos[p].status
    /\ \A o \in Orders :
          db.ord[o] \in {"executed", "cancelled"} => db.ord[o] = onchain.ord[o]

\* The current block has its row in a table.
Written(table) ==
    /\ InBatch
    /\ \/ scan.event > Len(Logs(scan.at))
       \/ /\ scan.event = Len(Logs(scan.at))
          /\ \E s \in 1..(scan.stmt - 1) :
                Todo[s] \in DOMAIN Inserts /\ Inserts[Todo[s]] = table

\* While no batch was cut short, history is that of the blocks recorded and of
\* what the batch has passed.
HistoryTrue ==
    interrupted \/
       \A row \in DOMAIN db.rows :
          /\ db.rows[row] = 1
          /\ \/ row[2] <= lastIndexed
             \/ /\ scan # NoScan
                /\ row[2] < scan.at \/ (row[2] = scan.at /\ Written(row[1]))

Shape ==
    /\ pc \in {"down", "catchup", "live"}
    /\ {running, interrupted} \subseteq BOOLEAN
    /\ next \in 0..(ChainHead + 1)
    /\ handled \subseteq 1..ChainHead
    /\ faults \in 0..MaxFaults

TablesInv == LogsTrue /\ AtStatement /\ RowsTrue /\ HistoryTrue /\ Shape

-----------------------------------------------------------------------------
(* Handlers and statements.                                                *)

EndingStatement ==
    [closePosition |-> "PositionClosed", liquidatePosition |-> "Liquidation",
     executeOrder |-> "OrderExecuted", cancelOrder |-> "OrderCancelled"]

PositionStatement == {"insertPosition", "updatePositionModified", "closePosition",
                      "liquidatePosition"}
OrderStatement == {"insertOrder", "executeOrder", "cancelOrder"}
SettingStatement == {"upsertFeeConfig", "upsertMarket", "enableMarket", "disableMarket",
                     "upsertCollateralToken", "removeCollateralToken", "insertUserVault",
                     "updateMarginMode", "upsertDelegate", "removeDelegate"}
AnyStatement == PositionStatement \cup OrderStatement \cup SettingStatement
                  \cup DOMAIN Inserts \cup {"insertNullTrade"}

\* The statements of a handler: none twice, those that end a position or an
\* order only for the event that says so, no history for an order.
Handler(kind, stmts) ==
    /\ Len(stmts) \in Nat \ {0}
    /\ \A s \in 1..Len(stmts) :
          /\ stmts[s] \in AnyStatement
          /\ stmts[s] \in DOMAIN EndingStatement => kind = EndingStatement[stmts[s]]
          /\ stmts[s] \in PositionStatement => kind \in PositionKinds \cup {"Liquidation"}
          /\ stmts[s] \in OrderStatement => kind \in OrderKinds
          /\ stmts[s] \in DOMAIN Inserts => kind \notin OrderKinds
    /\ \A s, t \in 1..Len(stmts) : stmts[s] = stmts[t] => s = t

LEMMA HandlerOfEvent ==
    ASSUME NEW kind
    PROVE  Handler(kind, Statements(kind))
  <1> USE DEF Handler, AnyStatement, PositionStatement, OrderStatement, SettingStatement,
              Inserts, EndingStatement
  <1>1. CASE kind \in PositionKinds
    <2>1. Statements(kind) = PositionStatements(kind)
      BY <1>1 DEF Statements
    <2>2. CASE kind = "PositionOpened"
      BY <2>1, <2>2 DEF PositionStatements, PositionKinds, OrderKinds
    <2>3. CASE kind = "PositionModified"
      BY <2>1, <2>3 DEF PositionStatements, PositionKinds, OrderKinds
    <2>4. CASE kind = "PartiallyClosed"
      BY <2>1, <2>4 DEF PositionStatements, PositionKinds, OrderKinds
    <2>5. CASE kind = "PositionClosed"
      BY <2>1, <2>5 DEF PositionStatements, PositionKinds, OrderKinds
    <2> QED
      BY <1>1, <2>2, <2>3, <2>4, <2>5 DEF PositionKinds
  <1>2. CASE kind = "Liquidation"
    BY <1>2 DEF Statements, LiquidationStatements, PositionKinds, OrderKinds
  <1>3. CASE kind \in OrderKinds
    <2>1. Statements(kind) = OrderStatements(kind)
      BY <1>3 DEF Statements, PositionKinds, OrderKinds
    <2> QED
      BY <1>3, <2>1 DEF OrderStatements, OrderKinds
  <1>4. CASE kind \in SettingKinds
    <2>1. Statements(kind) = SettingStatements(kind) /\ kind \notin OrderKinds
      BY <1>4 DEF Statements, PositionKinds, OrderKinds, SettingKinds
    <2> QED
      BY <1>4, <2>1 DEF SettingStatements, SettingKinds
  <1>5. CASE kind \in AccountKinds
    <2>1. Statements(kind) = AccountStatements(kind) /\ kind \notin OrderKinds
      BY <1>5 DEF Statements, PositionKinds, OrderKinds, SettingKinds, AccountKinds
    <2> QED
      BY <1>5, <2>1 DEF AccountStatements, AccountKinds
  <1>6. CASE kind = "KeeperCycle"
    BY <1>6 DEF Statements, CycleStatements, PositionKinds, OrderKinds, SettingKinds,
                AccountKinds
  <1>7. CASE /\ kind \notin PositionKinds \cup OrderKinds \cup SettingKinds \cup AccountKinds
             /\ kind \notin {"Liquidation", "KeeperCycle"}
    BY <1>7 DEF Statements, RecordStatements
  <1> QED
    BY <1>1, <1>2, <1>3, <1>4, <1>5, <1>6, <1>7

\* What a statement does to positions ...
LEMMA PositionStatementRuns ==
    ASSUME NEW d \in Tables, NEW stmt \in PositionStatement, NEW e \in EventRecords,
           e.id \in Positions, NEW b
    PROVE  LET d2 == Run(d, stmt, e, b)
           IN  /\ d2 \in Tables /\ d2.ord = d.ord /\ d2.rows = d.rows
               /\ \A p \in Positions :
                     \/ d2.pos[p].status = d.pos[p].status
                     \/ d.pos[p].status = "none" /\ d2.pos[p].status = "open"
                     \/ p = e.id /\ stmt = "closePosition" /\ d2.pos[p].status = "closed"
                     \/ p = e.id /\ stmt = "liquidatePosition"
                        /\ d2.pos[p].status = "liquidated"
  <1> DEFINE at == d.pos[e.id]
  <1>1. e.id \in Positions /\ e.val \in Int /\ d.pos[e.id] \in Row
    BY DEF EventRecords, Tables
  <1>2. ASSUME NEW row \in Row, NEW d2,
               d2 = [d EXCEPT !.pos[e.id] = row]
        PROVE  /\ d2 \in Tables /\ d2.ord = d.ord /\ d2.rows = d.rows
               /\ \A p \in Positions : p # e.id => d2.pos[p] = d.pos[p]
               /\ d2.pos[e.id] = row
    BY <1>1, <1>2 DEF Tables
  <1>3. CASE stmt = "insertPosition"
    <2>1. Run(d, stmt, e, b) = insertPosition(d, e.id, e.val)
      BY <1>3 DEF Run
    <2>2. CASE d.pos[e.id] = NoRow
      <3> DEFINE row == [status |-> "open", size |-> e.val]
      <3>1. row \in Row /\ row.status = "open"
        BY <1>1 DEF Row, PositionStatus
      <3>2. Run(d, stmt, e, b) = [d EXCEPT !.pos[e.id] = row]
        BY <2>1, <2>2 DEF insertPosition
      <3> HIDE DEF row
      <3> QED
        BY <1>2, <2>2, <3>1, <3>2 DEF NoRow
    <2> QED
      BY <2>1, <2>2 DEF insertPosition
  <1>4. CASE stmt = "updatePositionModified"
    <2>1. Run(d, stmt, e, b) = updatePositionModified(d, e.id, e.val)
      BY <1>4 DEF Run
    <2>2. CASE d.pos[e.id] # NoRow
      <3> DEFINE row == [d.pos[e.id] EXCEPT !.size = e.val]
      <3>1. row \in Row /\ row.status = d.pos[e.id].status
        BY <1>1 DEF Row
      <3>2. Run(d, stmt, e, b) = [d EXCEPT !.pos[e.id] = row]
        BY <2>1, <2>2 DEF updatePositionModified, Tables
      <3> HIDE DEF row
      <3> QED
        BY <1>2, <3>1, <3>2
    <2> QED
      BY <2>1, <2>2 DEF updatePositionModified
  <1>5. ASSUME NEW status \in {"closed", "liquidated"},
               Run(d, stmt, e, b) = closePosition(d, e.id, status)
        PROVE  LET d2 == Run(d, stmt, e, b)
               IN  /\ d2 \in Tables /\ d2.ord = d.ord /\ d2.rows = d.rows
                   /\ \A p \in Positions :
                         \/ d2.pos[p].status = d.pos[p].status
                         \/ p = e.id /\ d2.pos[p].status = status
    <2>1. CASE d.pos[e.id] # NoRow
      <3> DEFINE old == d.pos[e.id]
                 row == [old EXCEPT !.status = status]
      <3>1. row \in Row /\ row.status = status
        <4>1. old \in Row /\ status \in PositionStatus
          BY <1>1 DEF PositionStatus
        <4> HIDE DEF old
        <4> QED
          BY <4>1 DEF Row
      <3>2. Run(d, stmt, e, b) = [d EXCEPT !.pos[e.id] = row]
        BY <1>5, <2>1 DEF closePosition, Tables
      <3> HIDE DEF row
      <3> QED
        BY <1>2, <3>1, <3>2
    <2> QED
      BY <1>5, <2>1 DEF closePosition
  <1>6. CASE stmt = "closePosition"
    <2>1. Run(d, stmt, e, b) = closePosition(d, e.id, "closed")
      BY <1>6 DEF Run
    <2> QED
      BY <1>5, <1>6, <2>1
  <1>7. CASE stmt = "liquidatePosition"
    <2>1. Run(d, stmt, e, b) = closePosition(d, e.id, "liquidated")
      BY <1>7 DEF Run
    <2> QED
      BY <1>5, <1>7, <2>1
  <1> QED
    BY <1>3, <1>4, <1>6, <1>7 DEF PositionStatement

\* ... to orders ...
LEMMA OrderStatementRuns ==
    ASSUME NEW d \in Tables, NEW stmt \in OrderStatement, NEW e \in EventRecords,
           e.id \in Orders, NEW b
    PROVE  LET d2 == Run(d, stmt, e, b)
           IN  /\ d2 \in Tables /\ d2.pos = d.pos /\ d2.rows = d.rows
               /\ \A o \in Orders :
                     \/ d2.ord[o] = d.ord[o]
                     \/ d.ord[o] = "none" /\ d2.ord[o] = "active"
                     \/ o = e.id /\ stmt = "executeOrder" /\ d2.ord[o] = "executed"
                     \/ o = e.id /\ stmt = "cancelOrder" /\ d2.ord[o] = "cancelled"
  <1>1. ASSUME NEW status \in OrderStatus, NEW d2, d2 = [d EXCEPT !.ord[e.id] = status]
        PROVE  /\ d2 \in Tables /\ d2.pos = d.pos /\ d2.rows = d.rows
               /\ \A o \in Orders : o # e.id => d2.ord[o] = d.ord[o]
               /\ d2.ord[e.id] = status
    BY <1>1 DEF Tables
  <1> DEFINE set(status) == [d EXCEPT !.ord[e.id] = status]
  <1>5. /\ set("active") \in Tables /\ set("executed") \in Tables /\ set("cancelled") \in Tables
        /\ \A status \in {"active", "executed", "cancelled"} :
              /\ set(status).pos = d.pos /\ set(status).rows = d.rows
              /\ \A o \in Orders : o # e.id => set(status).ord[o] = d.ord[o]
              /\ set(status).ord[e.id] = status
    BY <1>1 DEF OrderStatus
  <1>2. CASE stmt = "insertOrder"
    <2>1. Run(d, stmt, e, b) = IF d.ord[e.id] = "none" THEN set("active") ELSE d
      BY <1>2 DEF Run, insertOrder
    <2> HIDE DEF set
    <2> QED
      BY <1>5, <2>1
  <1>3. CASE stmt = "executeOrder"
    <2>1. Run(d, stmt, e, b) = IF d.ord[e.id] = "none" THEN d ELSE set("executed")
      BY <1>3 DEF Run, resolveOrder
    <2> HIDE DEF set
    <2> QED
      BY <1>5, <1>3, <2>1
  <1>4. CASE stmt = "cancelOrder"
    <2>1. Run(d, stmt, e, b) = IF d.ord[e.id] = "none" THEN d ELSE set("cancelled")
      BY <1>4 DEF Run, resolveOrder
    <2> HIDE DEF set
    <2> QED
      BY <1>5, <1>4, <2>1
  <1> QED
    BY <1>2, <1>3, <1>4 DEF OrderStatement

\* ... to settings, and to history: one row of its own table and block.
LEMMA SettingStatementRuns ==
    ASSUME NEW d \in Tables, NEW stmt \in SettingStatement, NEW e \in EventRecords, NEW b
    PROVE  LET d2 == Run(d, stmt, e, b)
           IN  d2 \in Tables /\ d2.pos = d.pos /\ d2.ord = d.ord /\ d2.rows = d.rows
  <1>1. e.val \in Int
    BY DEF EventRecords
  <1>2. CASE stmt = "upsertFeeConfig"
    BY <1>1, <1>2 DEF Run, upsertFeeConfig, Tables
  <1>3. CASE stmt \in {"upsertMarket", "enableMarket", "disableMarket"}
    <2>1. Run(d, stmt, e, b) \in {d, [d EXCEPT !.market = "on"], [d EXCEPT !.market = "off"]}
      BY <1>3 DEF Run, upsertMarket, setMarketEnabled
    <2> QED
      BY <2>1 DEF Tables, Switch
  <1>4. CASE stmt \in {"upsertCollateralToken", "removeCollateralToken"}
    <2>1. Run(d, stmt, e, b) \in {d, [d EXCEPT !.token = "on"], [d EXCEPT !.token = "off"]}
      BY <1>4 DEF Run, upsertCollateralToken, removeCollateralToken
    <2> QED
      BY <2>1 DEF Tables, Switch
  <1>5. CASE stmt \in {"insertUserVault", "updateMarginMode"}
    <2>1. Run(d, stmt, e, b) \in {d, [d EXCEPT !.vault = "on"], [d EXCEPT !.mode = "cross"]}
      BY <1>5 DEF Run, insertUserVault, updateMarginMode
    <2> QED
      BY <2>1 DEF Tables, Switch
  <1>6. CASE stmt \in {"upsertDelegate", "removeDelegate"}
    <2>1. Run(d, stmt, e, b) \in {[d EXCEPT !.delegate = TRUE], [d EXCEPT !.delegate = FALSE]}
      BY <1>6 DEF Run, upsertDelegate, removeDelegate
    <2> QED
      BY <2>1 DEF Tables
  <1> QED
    BY <1>2, <1>3, <1>4, <1>5, <1>6 DEF SettingStatement

LEMMA InsertAdds ==
    ASSUME NEW d \in Tables, NEW t \in HistoryTables, NEW b \in Nat
    PROVE  LET d2 == Insert(d, t, b)
           IN  /\ d2 \in Tables /\ d2.pos = d.pos /\ d2.ord = d.ord
               /\ DOMAIN d2.rows = DOMAIN d.rows \cup {<<t, b>>}
               /\ \A row \in DOMAIN d.rows \ {<<t, b>>} : d2.rows[row] = d.rows[row]
               /\ <<t, b>> \notin DOMAIN d.rows => d2.rows[<<t, b>>] = 1
  <1> DEFINE new == SetToBag({<<t, b>>})
             rows == d.rows (+) new
  <1>1. PICK S \in SUBSET (HistoryTables \X Nat) : d.rows \in [S -> Nat]
    BY DEF Tables, History
  <1>2. new = [r \in {<<t, b>>} |-> 1]
    BY DEF SetToBag
  <1>3. rows = [r \in S \cup {<<t, b>>} |->
                  (IF r \in S THEN d.rows[r] ELSE 0) + (IF r \in {<<t, b>>} THEN 1 ELSE 0)]
    BY <1>1, <1>2 DEF (+)
  <1>4. /\ rows \in [S \cup {<<t, b>>} -> Nat]
        /\ S \cup {<<t, b>>} \in SUBSET (HistoryTables \X Nat)
        /\ \A r \in S \ {<<t, b>>} : rows[r] = d.rows[r]
        /\ <<t, b>> \notin S => rows[<<t, b>>] = 1
    <2> DEFINE p == <<t, b>>
               f == d.rows
    <2>1. p \in HistoryTables \X Nat /\ f \in [S -> Nat]
      BY <1>1
    <2>2. rows = [r \in S \cup {p} |->
                    (IF r \in S THEN f[r] ELSE 0) + (IF r \in {p} THEN 1 ELSE 0)]
      BY <1>3
    <2> HIDE DEF p, f, rows
    <2>3. \A r \in S \cup {p} :
              /\ (IF r \in S THEN f[r] ELSE 0) + (IF r \in {p} THEN 1 ELSE 0) \in Nat
              /\ r # p => (IF r \in S THEN f[r] ELSE 0) + (IF r \in {p} THEN 1 ELSE 0) = f[r]
      BY <2>1
    <2>4. rows \in [S \cup {p} -> Nat] /\ \A r \in S \ {p} : rows[r] = f[r]
      BY <2>2, <2>3
    <2>5. p \notin S => rows[p] = 1
      BY <2>2
    <2>6. S \cup {p} \in SUBSET (HistoryTables \X Nat)
      BY <2>1
    <2> QED
      BY <2>4, <2>5, <2>6 DEF p, f
  <1>5. Insert(d, t, b) = [d EXCEPT !.rows = rows]
    BY DEF Insert
  <1>6. rows \in History
    BY <1>4 DEF History
  <1> HIDE DEF rows
  <1>7. /\ DOMAIN rows = DOMAIN d.rows \cup {<<t, b>>}
        /\ \A row \in DOMAIN d.rows \ {<<t, b>>} : rows[row] = d.rows[row]
        /\ <<t, b>> \notin DOMAIN d.rows => rows[<<t, b>>] = 1
    BY <1>1, <1>4
  <1> QED
    BY <1>5, <1>6, <1>7 DEF Tables

LEMMA InsertStatementRuns ==
    ASSUME NEW d \in Tables, NEW stmt \in DOMAIN Inserts, NEW e \in EventRecords, NEW b \in Nat
    PROVE  LET d2 == Run(d, stmt, e, b)
               row == <<Inserts[stmt], b>>
           IN  /\ d2 \in Tables /\ d2.pos = d.pos /\ d2.ord = d.ord
               /\ DOMAIN d2.rows = DOMAIN d.rows \cup {row}
               /\ \A r \in DOMAIN d.rows \ {row} : d2.rows[r] = d.rows[r]
               /\ row \notin DOMAIN d.rows => d2.rows[row] = 1
  <1> DEFINE t == Inserts[stmt]
             inserted == Insert(d, t, b)
  <1>1. t \in HistoryTables
    BY DEF HistoryTables
  <1>2. Run(d, stmt, e, b) \in {inserted, [inserted EXCEPT !.prices = e.val]}
    BY DEF Run, Inserts, insertTradingAccountEvent, insertPriceUpdates
  <1>3. /\ inserted \in Tables /\ inserted.pos = d.pos /\ inserted.ord = d.ord
        /\ DOMAIN inserted.rows = DOMAIN d.rows \cup {<<t, b>>}
        /\ \A r \in DOMAIN d.rows \ {<<t, b>>} : inserted.rows[r] = d.rows[r]
        /\ <<t, b>> \notin DOMAIN d.rows => inserted.rows[<<t, b>>] = 1
    BY <1>1, InsertAdds
  <1>4. e.val \in Int
    BY DEF EventRecords
  <1> HIDE DEF inserted
  <1>5. LET x == [inserted EXCEPT !.prices = e.val]
        IN  x \in Tables /\ x.pos = inserted.pos /\ x.ord = inserted.ord
            /\ x.rows = inserted.rows
    BY <1>3, <1>4 DEF Tables
  <1> HIDE DEF t
  <1> QED
    BY <1>2, <1>3, <1>5 DEF t

-----------------------------------------------------------------------------
(* The chain: what has ended stays ended, and a block says so.             *)

Advances(state) ==
    /\ state \in OnchainStates
    /\ \A p \in Positions : onchain.pos[p].status \in {"closed", "liquidated"} =>
                              state.pos[p].status = onchain.pos[p].status
    /\ \A o \in Orders : onchain.ord[o] \in {"executed", "cancelled"} =>
                           state.ord[o] = onchain.ord[o]

LEMMA GoodLogsKept ==
    ASSUME NEW events, NEW state, GoodLogs(events, onchain), Advances(state)
    PROVE  GoodLogs(events, state)
  <1>1. ASSUME NEW i \in 1..Len(events)
        PROVE  TrueOf(events[i], state)
    BY DEF GoodLogs, Advances, TrueOf, PositionKinds, OrderKinds
  <1> QED
    BY <1>1 DEF GoodLogs

LEMMA OneGood ==
    ASSUME NEW e \in EventRecords, NEW state, TrueOf(e, state)
    PROVE  GoodLogs(<<e>>, state)
  BY DEF GoodLogs

LEMMA TwoGood ==
    ASSUME NEW e1 \in EventRecords, NEW e2 \in EventRecords, NEW state,
           TrueOf(e1, state), TrueOf(e2, state), e1.kind \in OrderKinds
    PROVE  GoodLogs(<<e1, e2>>, state)
  BY DEF GoodLogs

LEMMA SetPositionAdvances ==
    ASSUME onchain \in OnchainStates, NEW p \in Positions, NEW status \in PositionStatus,
           NEW size \in Int, onchain.pos[p].status \notin {"closed", "liquidated"}
    PROVE  LET state == SetPosition(p, status, size)
           IN  Advances(state) /\ state.pos[p].status = status /\ state.ord = onchain.ord
  <1> DEFINE row == [status |-> status, size |-> size]
  <1>1. row \in Row /\ row.status = status
    BY DEF Row
  <1>2. SetPosition(p, status, size) = [onchain EXCEPT !.pos[p] = row]
    BY DEF SetPosition
  <1> HIDE DEF row
  <1> QED
    BY <1>1, <1>2 DEF Advances, OnchainStates

LEMMA SetOrderAdvances ==
    ASSUME NEW x, Advances(x), NEW o \in Orders, NEW status \in OrderStatus,
           x.ord[o] \notin {"executed", "cancelled"}, onchain \in OnchainStates
    PROVE  LET state == [x EXCEPT !.ord[o] = status]
           IN  Advances(state) /\ state.pos = x.pos /\ state.ord[o] = status
  BY DEF Advances, OnchainStates

\* A block and the state it leaves.
Sound(logs, state) ==
    Mine(logs, state) /\ Advances(state) /\ GoodLogs(logs.diamond, state)
SoundBlock == \E logs, state : Sound(logs, state)

\* What an event says of its position, and of its order.
SaysOfPosition(kind, status) ==
    /\ kind \in EventKinds \ OrderKinds /\ status \in PositionStatus
    /\ kind = "PositionClosed" => status = "closed"
    /\ kind = "Liquidation" => status = "liquidated"
SaysOfOrder(kind, status) ==
    /\ kind \in OrderKinds /\ status \in OrderStatus
    /\ kind = "OrderExecuted" => status = "executed"
    /\ kind = "OrderCancelled" => status = "cancelled"
Live(p) == onchain.pos[p].status \notin {"closed", "liquidated"}
Pending(o) == onchain.ord[o] \notin {"executed", "cancelled"}

LEMMA WhatEventsSay ==
    /\ SaysOfPosition("PositionOpened", "open") /\ SaysOfPosition("PositionModified", "open")
    /\ SaysOfPosition("PartiallyClosed", "open") /\ SaysOfPosition("PositionClosed", "closed")
    /\ SaysOfPosition("Liquidation", "liquidated")
    /\ SaysOfPosition("Deleveraged", "deleveraged") /\ SaysOfPosition("Deleveraged", "open")
    /\ SaysOfOrder("OrderPlaced", "active") /\ SaysOfOrder("OrderExecuted", "executed")
    /\ SaysOfOrder("OrderCancelled", "cancelled")
  BY DEF SaysOfPosition, SaysOfOrder, EventKinds, PositionKinds, OrderKinds, PositionStatus,
         OrderStatus

LEMMA PositionSound ==
    ASSUME LogsTrue, NEW p \in Positions, NEW kind, NEW val \in Int,
           NEW status, NEW size \in Int, NEW account,
           SaysOfPosition(kind, status), Live(p),
           Mine(Logged(account, <<Event(kind, p, val)>>), SetPosition(p, status, size))
    PROVE  SoundBlock
  <1> DEFINE e == Event(kind, p, val)
             state == SetPosition(p, status, size)
  <1>1. Advances(state) /\ state.pos[p].status = status
    BY SetPositionAdvances DEF LogsTrue, SaysOfPosition, Live
  <1>2. e \in EventRecords /\ e.kind = kind /\ e.id = p
    BY DEF Event, EventRecords, SaysOfPosition
  <1>3. Logged(account, <<e>>).diamond = <<e>>
    BY DEF Logged
  <1>4. Mine(Logged(account, <<e>>), state)
    OBVIOUS
  <1> HIDE DEF e, state
  <1>5. TrueOf(e, state)
    BY <1>1, <1>2 DEF TrueOf, OrderKinds, SaysOfPosition
  <1>6. GoodLogs(<<e>>, state)
    BY <1>2, <1>5, OneGood
  <1>7. Sound(Logged(account, <<e>>), state)
    BY <1>1, <1>3, <1>4, <1>6 DEF Sound
  <1> QED
    BY <1>7 DEF SoundBlock

LEMMA OrderSound ==
    ASSUME LogsTrue, NEW o \in Orders, NEW kind, NEW status,
           SaysOfOrder(kind, status), Pending(o),
           Mine(Logged(<<>>, <<Event(kind, o, 0)>>), [onchain EXCEPT !.ord[o] = status])
    PROVE  SoundBlock
  <1> DEFINE e == Event(kind, o, 0)
             state == [onchain EXCEPT !.ord[o] = status]
  <1>1. Advances(onchain)
    BY DEF LogsTrue, Advances
  <1>2. Advances(state) /\ state.ord[o] = status
    BY <1>1, SetOrderAdvances DEF LogsTrue, SaysOfOrder, Pending
  <1>3. e \in EventRecords /\ e.kind = kind /\ e.id = o
    BY DEF Event, EventRecords, EventKinds, SaysOfOrder
  <1>4. Logged(<<>>, <<e>>).diamond = <<e>>
    BY DEF Logged
  <1>5. Mine(Logged(<<>>, <<e>>), state)
    OBVIOUS
  <1> HIDE DEF e, state
  <1>6. TrueOf(e, state)
    BY <1>2, <1>3 DEF TrueOf, OrderKinds, PositionKinds, SaysOfOrder
  <1>7. GoodLogs(<<e>>, state)
    BY <1>3, <1>6, OneGood
  <1>8. Sound(Logged(<<>>, <<e>>), state)
    BY <1>2, <1>4, <1>5, <1>7 DEF Sound
  <1> QED
    BY <1>8 DEF SoundBlock

\* An order that opens or closes a position.
LEMMA OrderedSound ==
    ASSUME LogsTrue, NEW o \in Orders, NEW p \in Positions, NEW kind, NEW val \in Int,
           NEW status, NEW size \in Int, NEW account,
           SaysOfPosition(kind, status), Pending(o), Live(p),
           Mine(Logged(account, <<Event("OrderExecuted", o, 0), Event(kind, p, val)>>),
                [SetPosition(p, status, size) EXCEPT !.ord[o] = "executed"])
    PROVE  SoundBlock
  <1> DEFINE e1 == Event("OrderExecuted", o, 0)
             e2 == Event(kind, p, val)
             x == SetPosition(p, status, size)
             state == [x EXCEPT !.ord[o] = "executed"]
  <1>2. Advances(x) /\ x.pos[p].status = status /\ x.ord = onchain.ord
    BY SetPositionAdvances DEF LogsTrue, SaysOfPosition, Live
  <1>3. e1 \in EventRecords /\ e1.kind = "OrderExecuted" /\ e1.id = o
    BY DEF Event, EventRecords, EventKinds, OrderKinds
  <1>4. e2 \in EventRecords /\ e2.kind = kind /\ e2.id = p
    BY DEF Event, EventRecords, SaysOfPosition
  <1>5. Logged(account, <<e1, e2>>).diamond = <<e1, e2>>
    BY DEF Logged
  <1>6. Mine(Logged(account, <<e1, e2>>), state)
    OBVIOUS
  <1> HIDE DEF e1, e2, x
  <1>7. Advances(state) /\ state.pos[p].status = status /\ state.ord[o] = "executed"
    BY <1>2, SetOrderAdvances DEF LogsTrue, OrderStatus, Pending
  <1> HIDE DEF state
  <1>8. TrueOf(e1, state) /\ TrueOf(e2, state)
    BY <1>3, <1>4, <1>7 DEF TrueOf, OrderKinds, PositionKinds, SaysOfPosition
  <1>9. GoodLogs(<<e1, e2>>, state)
    BY <1>3, <1>4, <1>8, TwoGood DEF OrderKinds
  <1>10. Sound(Logged(account, <<e1, e2>>), state)
    BY <1>5, <1>6, <1>7, <1>9 DEF Sound
  <1> QED
    BY <1>10 DEF SoundBlock

\* A setting or a record.
Elsewhere(state) ==
    state \in OnchainStates /\ state.pos = onchain.pos /\ state.ord = onchain.ord

LEMMA SettingSound ==
    ASSUME NEW kind \in SettingKinds \cup {"KeeperCycle", "ProtocolEvent"}, NEW val \in Int,
           NEW state, Elsewhere(state),
           Mine(Logged(<<>>, <<Event(kind, 0, val)>>), state)
    PROVE  SoundBlock
  <1> DEFINE e == Event(kind, 0, val)
  <1>1. Advances(state)
    BY DEF Advances, Elsewhere
  <1>2. e \in EventRecords /\ e.kind = kind
    BY DEF Event, EventRecords, EventKinds
  <1>3. Logged(<<>>, <<e>>).diamond = <<e>>
    BY DEF Logged
  <1>4. Mine(Logged(<<>>, <<e>>), state)
    OBVIOUS
  <1> HIDE DEF e
  <1>5. TrueOf(e, state)
    BY <1>2 DEF TrueOf, OrderKinds, PositionKinds, SettingKinds
  <1>6. GoodLogs(<<e>>, state)
    BY <1>2, <1>5, OneGood
  <1>7. Sound(Logged(<<>>, <<e>>), state)
    BY <1>1, <1>3, <1>4, <1>6 DEF Sound
  <1> QED
    BY <1>7 DEF SoundBlock

\* A switch is flipped, or a register written.
LEMMA SwitchSound ==
    ASSUME LogsTrue, NEW kind \in SettingKinds, NEW flag \in {"on", "off"}, NEW state,
           \/ state = [onchain EXCEPT !.market = flag]
           \/ state = [onchain EXCEPT !.token = flag]
           \/ state = [onchain EXCEPT !.vault = flag],
           Mine(Logged(<<>>, <<Event(kind, 0, 0)>>), state)
    PROVE  SoundBlock
  <1>1. Elsewhere(state)
    BY DEF Elsewhere, LogsTrue, OnchainStates, Switch
  <1>2. kind \in SettingKinds \cup {"KeeperCycle", "ProtocolEvent"} /\ 0 \in Int
    OBVIOUS
  <1> QED
    BY <1>1, <1>2, SettingSound

LEMMA RegisterSound ==
    ASSUME LogsTrue, NEW kind \in SettingKinds \cup {"KeeperCycle", "ProtocolEvent"}, NEW val \in Int,
           NEW n \in Nat, NEW state,
           \/ state = [onchain EXCEPT !.prices = n]
           \/ state = [onchain EXCEPT !.fees = n],
           Mine(Logged(<<>>, <<Event(kind, 0, val)>>), state)
    PROVE  SoundBlock
  <1>1. Elsewhere(state)
    BY DEF Elsewhere, LogsTrue, OnchainStates
  <1> QED
    BY <1>1, SettingSound

LEMMA PositionBlocks ==
    ASSUME LogsTrue, NEW p \in Positions, NEW size \in Int,
           \/ ClosePosition(p) \/ LiquidatePosition(p) \/ OpenPosition(p, size)
           \/ ModifyPosition(p, size) \/ PartialClose(p, size) \/ Deleverage(p, size)
    PROVE  SoundBlock
  <1>1. onchain.pos[p].size \in Int
    BY DEF LogsTrue, OnchainStates, Row
  <1>2. Live(p)
    BY DEF ClosePosition, LiquidatePosition, OpenPosition, ModifyPosition, PartialClose,
           Deleverage, Live
  <1>3. CASE ClosePosition(p)
    <2>1. Mine(Logged(<<Released(p)>>, <<Event("PositionClosed", p, 0)>>),
               SetPosition(p, "closed", onchain.pos[p].size))
      BY <1>3 DEF ClosePosition
    <2> QED
      BY <1>1, <1>2, <2>1, WhatEventsSay, PositionSound
  <1>4. CASE LiquidatePosition(p)
    <2>1. Mine(Logged(<<>>, <<Event("Liquidation", p, 0)>>),
               SetPosition(p, "liquidated", onchain.pos[p].size))
      BY <1>4 DEF LiquidatePosition
    <2> QED
      BY <1>1, <1>2, <2>1, WhatEventsSay, PositionSound
  <1>5. CASE OpenPosition(p, size)
    <2>1. Mine(Logged(<<Locked(p)>>, <<Event("PositionOpened", p, size)>>),
               SetPosition(p, "open", size))
      BY <1>5 DEF OpenPosition
    <2> QED
      BY <1>2, <2>1, WhatEventsSay, PositionSound
  <1>6. CASE ModifyPosition(p, size)
    <2>1. Mine(Logged(<<Locked(p)>>, <<Event("PositionModified", p, size)>>),
               SetPosition(p, "open", size))
      BY <1>6 DEF ModifyPosition
    <2> QED
      BY <1>2, <2>1, WhatEventsSay, PositionSound
  <1>7. CASE PartialClose(p, size)
    <2>1. Mine(Logged(<<Released(p)>>, <<Event("PartiallyClosed", p, size)>>),
               SetPosition(p, "open", size))
      BY <1>7 DEF PartialClose
    <2> QED
      BY <1>2, <2>1, WhatEventsSay, PositionSound
  <1>8. CASE Deleverage(p, size)
    <2>1. CASE size = 0
      <3>1. Mine(Logged(<<Released(p)>>, <<Event("Deleveraged", p, 0)>>),
                 SetPosition(p, "deleveraged", onchain.pos[p].size))
        BY <1>8, <2>1 DEF Deleverage
      <3> QED
        BY <1>1, <1>2, <3>1, WhatEventsSay, PositionSound
    <2>2. CASE size # 0
      <3>1. Mine(Logged(<<Released(p)>>, <<Event("Deleveraged", p, 0)>>),
                 SetPosition(p, "open", size))
        BY <1>8, <2>2 DEF Deleverage
      <3> QED
        BY <1>2, <3>1, WhatEventsSay, PositionSound
    <2> QED
      BY <2>1, <2>2
  <1> QED
    BY <1>3, <1>4, <1>5, <1>6, <1>7, <1>8

LEMMA OrderBlocks ==
    ASSUME LogsTrue, NEW o \in Orders, PlaceOrder(o) \/ CancelOrder(o)
    PROVE  SoundBlock
  <1>1. Pending(o)
    BY DEF PlaceOrder, CancelOrder, Pending
  <1>2. CASE PlaceOrder(o)
    <2>1. Mine(Logged(<<>>, <<Event("OrderPlaced", o, 0)>>), [onchain EXCEPT !.ord[o] = "active"])
      BY <1>2 DEF PlaceOrder
    <2> QED
      BY <1>1, <2>1, WhatEventsSay, OrderSound
  <1>3. CASE CancelOrder(o)
    <2>1. Mine(Logged(<<>>, <<Event("OrderCancelled", o, 0)>>),
               [onchain EXCEPT !.ord[o] = "cancelled"])
      BY <1>3 DEF CancelOrder
    <2> QED
      BY <1>1, <2>1, WhatEventsSay, OrderSound
  <1> QED
    BY <1>2, <1>3

LEMMA ExecutionBlocks ==
    ASSUME LogsTrue, NEW o \in Orders, NEW p \in Positions, NEW size \in Int,
           ExecuteOrder(o, p, size) \/ ExecuteCloseOrder(o, p)
    PROVE  SoundBlock
  <1>1. onchain.pos[p].size \in Int
    BY DEF LogsTrue, OnchainStates, Row
  <1>2. Live(p) /\ Pending(o)
    BY DEF ExecuteOrder, ExecuteCloseOrder, Live, Pending
  <1>3. CASE ExecuteOrder(o, p, size)
    <2>1. Mine(Logged(<<Locked(p)>>, <<Event("OrderExecuted", o, 0), Event("PositionOpened", p, size)>>),
               [SetPosition(p, "open", size) EXCEPT !.ord[o] = "executed"])
      BY <1>3 DEF ExecuteOrder
    <2> QED
      BY <1>2, <2>1, WhatEventsSay, OrderedSound
  <1>4. CASE ExecuteCloseOrder(o, p)
    <2>1. Mine(Logged(<<Released(p)>>, <<Event("OrderExecuted", o, 0), Event("PositionClosed", p, 0)>>),
               [SetPosition(p, "closed", onchain.pos[p].size) EXCEPT !.ord[o] = "executed"])
      BY <1>4 DEF ExecuteCloseOrder
    <2> QED
      BY <1>1, <1>2, <2>1, WhatEventsSay, OrderedSound
  <1> QED
    BY <1>3, <1>4

LEMMA SettingBlocks ==
    ASSUME LogsTrue, ChainHead \in Nat,
           \/ PostPrices \/ CyclePrices \/ SetFees \/ CreateMarket \/ SwitchMarket
           \/ AddCollateral \/ RemoveCollateral \/ CreateVault \/ RecordOnly
    PROVE  SoundBlock
  <1>1. {"PricesUpdated", "FeesUpdated", "MarketCreated", "MarketEnabled", "MarketDisabled",
         "CollateralAdded", "CollateralRemoved", "VaultCreated"} \subseteq SettingKinds
    BY DEF SettingKinds
  <1> DEFINE h == ChainHead + 1
  <1>2. h \in Nat /\ h \in Int
    OBVIOUS
  <1>3. CASE PostPrices
    <2>1. Mine(Logged(<<>>, <<Event("PricesUpdated", 0, h)>>), [onchain EXCEPT !.prices = h])
      BY <1>3 DEF PostPrices
    <2> HIDE DEF h
    <2> QED
      BY <1>1, <1>2, <2>1, RegisterSound
  <1>4. CASE CyclePrices
    <2>1. Mine(Logged(<<>>, <<Event("KeeperCycle", 0, 0)>>), [onchain EXCEPT !.prices = h])
      BY <1>4 DEF CyclePrices
    <2>2. "KeeperCycle" \in SettingKinds \cup {"KeeperCycle", "ProtocolEvent"} /\ 0 \in Int
      OBVIOUS
    <2> HIDE DEF h
    <2> QED
      BY <1>2, <2>1, <2>2, RegisterSound
  <1>5. CASE SetFees
    <2>1. Mine(Logged(<<>>, <<Event("FeesUpdated", 0, h)>>), [onchain EXCEPT !.fees = h])
      BY <1>5 DEF SetFees
    <2> HIDE DEF h
    <2> QED
      BY <1>1, <1>2, <2>1, RegisterSound
  <1> HIDE DEF h
  <1>6. CASE CreateMarket
    <2>1. Mine(Logged(<<>>, <<Event("MarketCreated", 0, 0)>>), [onchain EXCEPT !.market = "on"])
      BY <1>6 DEF CreateMarket
    <2> QED
      BY <1>1, <2>1, SwitchSound
  <1>7. CASE SwitchMarket
    <2>1. CASE Mine(Logged(<<>>, <<Event("MarketDisabled", 0, 0)>>), [onchain EXCEPT !.market = "off"])
      BY <1>1, <2>1, SwitchSound
    <2>2. CASE Mine(Logged(<<>>, <<Event("MarketEnabled", 0, 0)>>), [onchain EXCEPT !.market = "on"])
      BY <1>1, <2>2, SwitchSound
    <2> QED
      BY <1>7, <2>1, <2>2 DEF SwitchMarket
  <1>8. CASE AddCollateral
    <2>1. Mine(Logged(<<>>, <<Event("CollateralAdded", 0, 0)>>), [onchain EXCEPT !.token = "on"])
      BY <1>8 DEF AddCollateral
    <2> QED
      BY <1>1, <2>1, SwitchSound
  <1>9. CASE RemoveCollateral
    <2>1. Mine(Logged(<<>>, <<Event("CollateralRemoved", 0, 0)>>), [onchain EXCEPT !.token = "off"])
      BY <1>9 DEF RemoveCollateral
    <2> QED
      BY <1>1, <2>1, SwitchSound
  <1>10. CASE CreateVault
    <2>1. Mine(Logged(<<>>, <<Event("VaultCreated", 0, 0)>>), [onchain EXCEPT !.vault = "on"])
      BY <1>10 DEF CreateVault
    <2> QED
      BY <1>1, <2>1, SwitchSound
  <1>11. CASE RecordOnly
    <2>1. Mine(Logged(<<>>, <<Event("ProtocolEvent", 0, 0)>>), onchain) /\ Elsewhere(onchain)
      BY <1>11 DEF RecordOnly, Elsewhere, LogsTrue
    <2> QED
      BY <2>1, SettingSound
  <1> QED
    BY <1>3, <1>4, <1>5, <1>6, <1>7, <1>8, <1>9, <1>10, <1>11

LEMMA ChainSound ==
    ASSUME LogsTrue, ChainNext, ChainHead \in Nat
    PROVE  SoundBlock
  <1>1. ASSUME NEW p \in Positions, ClosePosition(p) \/ LiquidatePosition(p)
        PROVE  SoundBlock
    BY <1>1, PositionBlocks
  <1>2. ASSUME NEW p \in Positions, NEW size \in 1..MaxSize,
               OpenPosition(p, size) \/ ModifyPosition(p, size) \/ PartialClose(p, size)
        PROVE  SoundBlock
    <2>1. size \in Int
      OBVIOUS
    <2> QED
      BY <1>2, <2>1, PositionBlocks
  <1>3. ASSUME NEW p \in Positions, NEW left \in 0..MaxSize, Deleverage(p, left)
        PROVE  SoundBlock
    <2>1. left \in Int
      OBVIOUS
    <2> QED
      BY <1>3, <2>1, PositionBlocks
  <1>4. ASSUME NEW o \in Orders, NEW p \in Positions, ExecuteCloseOrder(o, p)
        PROVE  SoundBlock
    <2>1. 0 \in Int
      OBVIOUS
    <2> QED
      BY <1>4, <2>1, ExecutionBlocks
  <1>5. ASSUME NEW o \in Orders, NEW p \in Positions, NEW size \in 1..MaxSize,
               ExecuteOrder(o, p, size)
        PROVE  SoundBlock
    <2>1. size \in Int
      OBVIOUS
    <2> QED
      BY <1>5, <2>1, ExecutionBlocks
  <1>6. ASSUME NEW o \in Orders, PlaceOrder(o) \/ CancelOrder(o)
        PROVE  SoundBlock
    BY <1>6, OrderBlocks
  <1>7. ASSUME \/ PostPrices \/ CyclePrices \/ SetFees \/ CreateMarket \/ SwitchMarket
               \/ AddCollateral \/ RemoveCollateral \/ CreateVault \/ RecordOnly
        PROVE  SoundBlock
    BY <1>7, SettingBlocks
  <1> QED
    BY <1>1, <1>2, <1>3, <1>4, <1>5, <1>6, <1>7 DEF ChainNext

LEMMA ChainTables ==
    ASSUME IInv, TablesInv, ChainStep
    PROVE  TablesInv'
  <1>1. ChainHead \in Nat
    BY HeadIsNat DEF IInv
  <1>2. PICK logs, state : Sound(logs, state)
    BY <1>1, ChainSound DEF ChainStep, TablesInv, SoundBlock
  <1>3. PICK S : chain \in Seq(S)
    BY DEF IInv, ChainIsLog
  <1> DEFINE T == S \cup {logs}
  <1>4. /\ ChainHead' = ChainHead + 1
        /\ \A b \in 1..ChainHead : chain'[b] = chain[b]
        /\ chain'[ChainHead + 1] = logs
    <2>1. chain \in Seq(T) /\ logs \in T
      BY <1>3, SeqMonotonic
    <2>2. chain' = Append(chain, logs)
      BY <1>2 DEF Sound, Mine
    <2> HIDE DEF T
    <2> QED
      BY <2>1, <2>2, AppendProperties DEF ChainHead
  <1>5. onchain' = state /\ UNCHANGED indexerVars
    BY <1>2 DEF Sound, Mine, ChainStep
  <1>6. LogsTrue'
    <2>1. \A b : Logs(b) = chain[b].diamond /\ Logs(b)' = chain'[b].diamond
      BY DEF Logs
    <2>2. Advances(state) /\ GoodLogs(logs.diamond, state)
      BY <1>2 DEF Sound
    <2>3. ASSUME NEW b \in 1..ChainHead
          PROVE  GoodLogs(chain'[b].diamond, state)
      <3>1. GoodLogs(chain[b].diamond, onchain)
        BY <2>1 DEF TablesInv, LogsTrue
      <3>2. GoodLogs(chain[b].diamond, state)
        BY <2>2, <3>1, GoodLogsKept
      <3> QED
        BY <1>4, <3>2
    <2>4. GoodLogs(chain'[ChainHead + 1].diamond, state)
      BY <1>4, <2>2
    <2>5. \A b \in 1..ChainHead' : b \in 1..ChainHead \/ b = ChainHead + 1
      BY <1>1, <1>4
    <2>6. \A b \in 1..ChainHead' : GoodLogs(Logs(b)', state)
      BY <2>1, <2>3, <2>4, <2>5
    <2> QED
      BY <1>5, <2>2, <2>6 DEF LogsTrue, Advances
  <1>7. InBatch => Logs(scan.at)' = Logs(scan.at)
    <2>1. InBatch => scan.at \in 1..ChainHead
      BY <1>1 DEF IInv, MarkInv, ScanInv, Cursor, InBatch
    <2> QED
      BY <1>4, <1>5, <2>1 DEF Logs, indexerVars
  <1>8. /\ InBatch' = InBatch /\ InBlock' = InBlock /\ (InBatch => Todo' = Todo)
        /\ UNCHANGED <<db, lastIndexed, pc, running, next, scan, handled, interrupted, faults>>
    BY <1>5, <1>7 DEF indexerVars, InBatch, InBlock, Todo, Current
  <1>9. AtStatement'
    BY <1>8 DEF TablesInv, AtStatement, InBlock
  <1>10. \A table : Written(table)' = Written(table)
    BY <1>7, <1>8 DEF Written
  <1>11. HistoryTrue'
    BY <1>8, <1>10 DEF TablesInv, HistoryTrue
  <1>12. RowsTrue'
    BY <1>2, <1>5, <1>8 DEF TablesInv, RowsTrue, Sound, Advances
  <1>13. Shape'
    BY <1>1, <1>4, <1>8 DEF TablesInv, Shape
  <1> QED
    BY <1>6, <1>9, <1>11, <1>12, <1>13 DEF TablesInv

-----------------------------------------------------------------------------
(* The indexer.                                                            *)

LEMMA InitTables == Init => TablesInv
  <1> SUFFICES ASSUME Init PROVE TablesInv
    OBVIOUS
  <1>1. ChainHead = StartBlock - 1 /\ StartBlock \in Nat \ {0}
    BY InitIInv, BlockAssumption
  <1>2. \A b \in 1..ChainHead : Logs(b) = <<>>
    BY <1>1 DEF Init, ChainInit, Logs, NoLogs, Logged
  <1>3. GoodLogs(<<>>, onchain)
    BY DEF GoodLogs
  <1>4. onchain \in OnchainStates
    BY DEF Init, ChainInit, OnchainStates, NoPosition, Row, PositionStatus, OrderStatus, Switch
  <1>5. LogsTrue
    BY <1>2, <1>3, <1>4 DEF LogsTrue
  <1>6. NoHistory \in [{} -> Nat] /\ DOMAIN NoHistory = {}
    BY DEF NoHistory, EmptyBag, SetToBag
  <1>7. NoHistory \in History
    <2>1. {} \in SUBSET (HistoryTables \X Nat)
      OBVIOUS
    <2> QED
      BY <1>6, <2>1 DEF History
  <1> HIDE DEF NoHistory
  <1>8. db \in Tables /\ db.rows = NoHistory
    BY <1>7 DEF Init, EmptyTables, Tables, NoRow, Row, PositionStatus, OrderStatus, Switch
  <1>9. RowsTrue
    BY <1>8 DEF RowsTrue, Init, EmptyTables, NoRow
  <1>10. AtStatement
    BY DEF Init, AtStatement, InBlock, InBatch
  <1>11. HistoryTrue
    BY <1>6, <1>8 DEF HistoryTrue
  <1>12. Shape
    <2>1. {running, interrupted} \subseteq BOOLEAN
      BY DEF Init
    <2>2. next \in 0..(ChainHead + 1) /\ faults \in 0..MaxFaults
      BY <1>1, IndexerAssumption DEF Init
    <2> QED
      BY <2>1, <2>2 DEF Init, Shape
  <1> QED
    BY <1>5, <1>9, <1>10, <1>11, <1>12 DEF TablesInv

\* Where a batch stands on the chain.
LEMMA BatchOnChain ==
    ASSUME IInv, scan # NoScan
    PROVE  /\ scan \in Cursor /\ lastIndexed \in Nat /\ ChainHead \in Nat
           /\ scan.at \in Nat \ {0} /\ scan.to \in Nat /\ lastIndexed < scan.at
           /\ scan.at <= scan.to + 1 /\ lastIndexed < scan.to /\ scan.to <= ChainHead
  <1>1. ChainHead \in Nat
    BY HeadIsNat DEF IInv
  <1> QED
    BY <1>1 DEF IInv, ScanInv, MarkInv, Cursor

LEMMA CurrentEvent ==
    ASSUME IInv, TablesInv, InBlock
    PROVE  /\ Len(Logs(scan.at)) \in Nat /\ scan.event \in 1..Len(Logs(scan.at))
           /\ Current \in EventRecords /\ TrueOf(Current, onchain)
           /\ scan.event # Len(Logs(scan.at)) => Current.kind \in OrderKinds
           /\ Handler(Current.kind, Todo)
           /\ scan.stmt \in 1..Len(Todo)
           /\ Todo[scan.stmt] \in AnyStatement
  <1> DEFINE events == Logs(scan.at)
  <1>1. scan # NoScan /\ scan.at <= scan.to /\ scan.event <= Len(events)
    BY DEF InBlock, InBatch
  <1>2. scan.at \in 1..ChainHead
    BY <1>1, BatchOnChain
  <1>3. GoodLogs(events, onchain)
    BY <1>2 DEF TablesInv, LogsTrue
  <1>4. scan.event \in Nat \ {0} /\ scan.stmt \in 1..Len(Todo)
    BY <1>1 DEF TablesInv, AtStatement
  <1>5. Current = events[scan.event]
    BY DEF Current
  <1> HIDE DEF events
  <1>6. events \in Seq(EventRecords)
    BY <1>3 DEF GoodLogs
  <1>7. Len(events) \in Nat
    BY <1>6, LenProperties
  <1>8. scan.event \in 1..Len(events)
    BY <1>1, <1>4, <1>7
  <1>9. Current \in EventRecords
    BY <1>5, <1>6, <1>8, ElementOfSeq
  <1>10. TrueOf(Current, onchain) /\ (scan.event < Len(events) => Current.kind \in OrderKinds)
    BY <1>3, <1>5, <1>8 DEF GoodLogs
  <1>11. Handler(Current.kind, Todo)
    BY HandlerOfEvent DEF Todo
  <1>12. Todo[scan.stmt] \in AnyStatement
    BY <1>4, <1>11 DEF Handler
  <1> QED
    BY <1>4, <1>7, <1>8, <1>9, <1>10, <1>11, <1>12 DEF events

\* A fresh event begins with its first statement.
LEMMA FreshEvent ==
    ASSUME scan'.stmt = 1, InBlock'
    PROVE  scan'.stmt \in 1..Len(Todo')
  <1>1. Handler(Current.kind, Todo)'
    BY HandlerOfEvent DEF Todo
  <1>2. Len(Todo') \in Nat \ {0}
    BY <1>1 DEF Handler
  <1> QED
    BY <1>2

\* From one statement or event to the next: what is written stays written, and
\* so is the row of the statement passed.
LEMMA Moves ==
    ASSUME IInv, TablesInv, InBlock, UNCHANGED chainVars,
           \/ scan' = NextEvent
           \/ scan' = NextStatement /\ scan.stmt # Len(Todo)
    PROVE  /\ AtStatement'
           /\ scan # NoScan /\ scan' # NoScan /\ scan'.at = scan.at
           /\ \A table : Written(table) => Written(table)'
           /\ \A table : /\ scan.event = Len(Logs(scan.at))
                         /\ Todo[scan.stmt] \in DOMAIN Inserts
                         /\ Inserts[Todo[scan.stmt]] = table
                         => Written(table)'
  <1> DEFINE n == Len(Logs(scan.at))
  <1>1. /\ scan # NoScan /\ scan.at <= scan.to
        /\ scan \in Cursor /\ scan.at \in Nat \ {0}
    BY BatchOnChain DEF InBlock, InBatch
  <1>2. n \in Nat /\ scan.event \in 1..n /\ scan.stmt \in 1..Len(Todo)
    BY CurrentEvent
  <1>3. scan.event \in Nat /\ scan.stmt \in Nat
    BY <1>1 DEF Cursor
  <1>4. Len(Todo) \in Nat
    BY CurrentEvent DEF Handler
  <1>5. \A b : Logs(b)' = Logs(b)
    BY DEF Logs, chainVars
  <1> DEFINE at2 == scan'.at
  <1>8. Logs(scan.at)' = Logs(at2)
    BY DEF Logs, chainVars
  <1>6. CASE scan' = NextEvent
    <2>1. /\ scan'.at = scan.at /\ scan'.to = scan.to
          /\ scan'.event = scan.event + 1 /\ scan'.stmt = 1
      BY <1>1, <1>3, <1>6 DEF NextEvent, Cursor
    <2>2. scan' # NoScan
      BY <1>1, <2>1 DEF NoScan
    <2>3. AtStatement'
      BY <1>3, <2>1, FreshEvent DEF AtStatement
    <2>4. scan.event = n => \A table : Written(table)'
      <3>1. scan'.at = scan.at /\ Logs(scan.at)' = Logs(scan.at)
        BY <1>8, <2>1
      <3>2. InBatch'
        BY <1>1, <2>1, <2>2 DEF InBatch
      <3>3. scan.event = n => scan'.event > Len(Logs(scan.at)')
        BY <1>2, <1>3, <2>1, <3>1
      <3> QED
        BY <3>2, <3>3 DEF Written
    <2>5. \A table : Written(table) => scan.event = n
      BY <1>2 DEF Written
    <2> QED
      BY <1>1, <2>1, <2>2, <2>3, <2>4, <2>5
  <1>7. CASE scan' = NextStatement /\ scan.stmt # Len(Todo)
    <2>1. /\ scan'.at = scan.at /\ scan'.to = scan.to
          /\ scan'.event = scan.event /\ scan'.stmt = scan.stmt + 1
      BY <1>1, <1>3, <1>7 DEF NextStatement, Cursor
    <2>2. scan' # NoScan
      BY <1>1, <2>1 DEF NoScan
    <2>3. Logs(scan.at)' = Logs(scan.at)
      BY <1>8, <2>1 DEF Logs
    <2>4. Todo' = Todo
      BY <2>1, <2>3 DEF Todo, Current
    <2>5. AtStatement'
      <3>1. scan'.stmt \in 1..Len(Todo')
        BY <1>2, <1>3, <1>4, <1>7, <2>1, <2>4
      <3> QED
        BY <1>2, <2>1, <3>1 DEF AtStatement
    <2>6. InBatch'
      BY <1>1, <2>1, <2>2 DEF InBatch
    <2>7. ASSUME NEW table, NEW s \in 1..scan.stmt, scan.event = n,
                 Todo[s] \in DOMAIN Inserts, Inserts[Todo[s]] = table
          PROVE  Written(table)'
      <3>1. s \in 1..(scan'.stmt - 1)
        BY <1>3, <2>1
      <3> QED
        BY <2>1, <2>3, <2>4, <2>6, <2>7, <3>1 DEF Written
    <2>8. ASSUME NEW table, Written(table)
          PROVE  Written(table)'
      <3>1. PICK s \in 1..(scan.stmt - 1) :
               scan.event = n /\ Todo[s] \in DOMAIN Inserts /\ Inserts[Todo[s]] = table
        BY <1>2, <2>8 DEF Written
      <3>2. s \in 1..scan.stmt
        BY <1>3
      <3> QED
        BY <2>7, <3>1, <3>2
    <2>9. scan.stmt \in 1..scan.stmt
      BY <1>2, <1>3
    <2> QED
      BY <1>1, <2>1, <2>2, <2>5, <2>7, <2>8, <2>9
  <1> QED
    BY <1>6, <1>7

\* What the API has shown ended stays so, over one step.
TablesAdvance ==
    /\ \A p \in Positions : db.pos[p].status \in {"closed", "liquidated"}
                               => db'.pos[p].status = db.pos[p].status
    /\ \A o \in Orders : db.ord[o] \in {"executed", "cancelled"}
                               => db'.ord[o] = db.ord[o]

\* An ending the tables take over is one of the chain.
LEMMA ExecuteRows ==
    ASSUME IInv, TablesInv, Execute
    PROVE  RowsTrue' /\ TablesAdvance
  <1> DEFINE e == Current
             stmt == Todo[scan.stmt]
             d2 == Run(db, stmt, e, scan.at)
  <1>1. InBlock /\ stmt # "insertNullTrade" /\ db' = d2 /\ onchain' = onchain
    BY DEF Execute, Refused, chainVars
  <1>2. /\ e \in EventRecords /\ TrueOf(e, onchain)
        /\ Handler(e.kind, Todo) /\ scan.stmt \in 1..Len(Todo) /\ stmt \in AnyStatement
    BY <1>1, CurrentEvent
  <1>3. scan.at \in Nat
    BY <1>1, BatchOnChain DEF InBlock, InBatch
  <1>4. db \in Tables
    BY DEF TablesInv, RowsTrue
  <1>5. /\ stmt \in DOMAIN EndingStatement => e.kind = EndingStatement[stmt]
        /\ stmt \in PositionStatement => e.kind \in PositionKinds \cup {"Liquidation"}
        /\ stmt \in OrderStatement => e.kind \in OrderKinds
    BY <1>2 DEF Handler
  <1>6. /\ \A p \in Positions : db.pos[p].status \in {"closed", "liquidated"} =>
                                  db.pos[p].status = onchain.pos[p].status
        /\ \A o \in Orders : db.ord[o] \in {"executed", "cancelled"} =>
                               db.ord[o] = onchain.ord[o]
    BY DEF TablesInv, RowsTrue
  <1> HIDE DEF e, stmt, d2
  <1>7. CASE stmt \in PositionStatement
    <2>1. e.id \in Positions
      BY <1>2, <1>5, <1>7 DEF TrueOf
    <2>2. /\ d2 \in Tables /\ d2.ord = db.ord
          /\ \A p \in Positions :
                \/ d2.pos[p].status = db.pos[p].status
                \/ db.pos[p].status = "none" /\ d2.pos[p].status = "open"
                \/ p = e.id /\ stmt = "closePosition" /\ d2.pos[p].status = "closed"
                \/ p = e.id /\ stmt = "liquidatePosition" /\ d2.pos[p].status = "liquidated"
      BY <1>2, <1>4, <1>7, <2>1, PositionStatementRuns DEF d2
    <2>3. /\ stmt = "closePosition" => onchain.pos[e.id].status = "closed"
          /\ stmt = "liquidatePosition" => onchain.pos[e.id].status = "liquidated"
      BY <1>2, <1>5 DEF TrueOf, EndingStatement
    <2>4. \A p \in Positions :
             /\ d2.pos[p].status \in {"closed", "liquidated"} =>
                  d2.pos[p].status = onchain.pos[p].status
             /\ db.pos[p].status \in {"closed", "liquidated"} =>
                  d2.pos[p].status = db.pos[p].status
      BY <1>6, <2>2, <2>3
    <2> QED
      BY <1>1, <1>6, <2>2, <2>4 DEF RowsTrue, TablesAdvance
  <1>8. CASE stmt \in OrderStatement
    <2>1. e.id \in Orders
      BY <1>2, <1>5, <1>8 DEF TrueOf
    <2>2. /\ d2 \in Tables /\ d2.pos = db.pos
          /\ \A o \in Orders :
                \/ d2.ord[o] = db.ord[o]
                \/ db.ord[o] = "none" /\ d2.ord[o] = "active"
                \/ o = e.id /\ stmt = "executeOrder" /\ d2.ord[o] = "executed"
                \/ o = e.id /\ stmt = "cancelOrder" /\ d2.ord[o] = "cancelled"
      BY <1>2, <1>4, <1>8, <2>1, OrderStatementRuns DEF d2
    <2>3. /\ stmt = "executeOrder" => onchain.ord[e.id] = "executed"
          /\ stmt = "cancelOrder" => onchain.ord[e.id] = "cancelled"
      BY <1>2, <1>5 DEF TrueOf, EndingStatement
    <2>4. \A o \in Orders :
             /\ d2.ord[o] \in {"executed", "cancelled"} => d2.ord[o] = onchain.ord[o]
             /\ db.ord[o] \in {"executed", "cancelled"} => d2.ord[o] = db.ord[o]
      BY <1>6, <2>2, <2>3
    <2> QED
      BY <1>1, <1>6, <2>2, <2>4 DEF RowsTrue, TablesAdvance
  <1>9. CASE stmt \in SettingStatement \cup DOMAIN Inserts
    <2>1. ASSUME stmt \in SettingStatement
          PROVE  d2 \in Tables /\ d2.pos = db.pos /\ d2.ord = db.ord
      BY <1>2, <1>4, <2>1, SettingStatementRuns DEF d2
    <2>2. ASSUME stmt \in DOMAIN Inserts
          PROVE  d2 \in Tables /\ d2.pos = db.pos /\ d2.ord = db.ord
      BY <1>2, <1>3, <1>4, <2>2, InsertStatementRuns DEF d2
    <2>3. d2 \in Tables /\ d2.pos = db.pos /\ d2.ord = db.ord
      BY <1>9, <2>1, <2>2
    <2> QED
      BY <1>1, <1>6, <2>3 DEF RowsTrue, TablesAdvance
  <1> QED
    BY <1>1, <1>2, <1>7, <1>8, <1>9 DEF AnyStatement

\* A handler inserts once into a table, and only the last event of a block does.
LEMMA ExecuteHistory ==
    ASSUME IInv, TablesInv, Execute
    PROVE  AtStatement' /\ HistoryTrue'
  <1> DEFINE e == Current
             stmt == Todo[scan.stmt]
             d2 == Run(db, stmt, e, scan.at)
             n == Len(Logs(scan.at))
  <1>1. /\ InBlock /\ stmt # "insertNullTrade" /\ db' = d2
        /\ UNCHANGED <<chainVars, lastIndexed, interrupted>>
        /\ \/ scan' = NextEvent
           \/ scan' = NextStatement /\ scan.stmt # Len(Todo)
    BY DEF Execute, Refused
  <1>2. /\ AtStatement'
        /\ scan # NoScan /\ scan' # NoScan /\ scan'.at = scan.at
        /\ \A table : Written(table) => Written(table)'
        /\ \A table : scan.event = n /\ stmt \in DOMAIN Inserts /\ Inserts[stmt] = table
                         => Written(table)'
    BY <1>1, Moves
  <1>3. /\ e \in EventRecords /\ TrueOf(e, onchain) /\ n \in Nat /\ scan.event \in 1..n
        /\ scan.event # n => e.kind \in OrderKinds
        /\ Handler(e.kind, Todo) /\ scan.stmt \in 1..Len(Todo) /\ stmt \in AnyStatement
    BY <1>1, CurrentEvent
  <1>4. scan.at \in Nat /\ lastIndexed \in Nat /\ lastIndexed < scan.at
    BY <1>2, BatchOnChain
  <1>5. db \in Tables
    BY DEF TablesInv, RowsTrue
  <1>6. CASE interrupted
    BY <1>1, <1>2, <1>6 DEF HistoryTrue
  <1>7. CASE ~interrupted
    <2>1. \A row \in DOMAIN db.rows :
             /\ db.rows[row] = 1
             /\ \/ row[2] <= lastIndexed
                \/ row[2] < scan.at \/ (row[2] = scan.at /\ Written(row[1]))
      BY <1>7 DEF TablesInv, HistoryTrue
    <2>2. ASSUME NEW row \in DOMAIN db.rows
          PROVE  \/ row[2] <= lastIndexed
                 \/ row[2] < scan.at \/ (row[2] = scan.at /\ Written(row[1])')
      <3> DEFINE table == row[1]
      <3>1. Written(table) => Written(table)'
        BY <1>2
      <3> QED
        BY <2>1, <3>1
    <2>3. CASE db'.rows = db.rows
      BY <1>1, <1>2, <2>1, <2>2, <2>3 DEF HistoryTrue
    <2>4. CASE stmt \in DOMAIN Inserts
      <3>8. PICK t : t = Inserts[stmt]
        OBVIOUS
      <3>9. PICK new : new = <<t, scan.at>>
        OBVIOUS
      <3>1. /\ DOMAIN d2.rows = DOMAIN db.rows \cup {new}
            /\ \A r \in DOMAIN db.rows \ {new} : d2.rows[r] = db.rows[r]
            /\ new \notin DOMAIN db.rows => d2.rows[new] = 1
        <4>1. PICK d, st, ev, b, after :
                 d = db /\ st = stmt /\ ev = e /\ b = scan.at /\ after = d2
          OBVIOUS
        <4>2. d \in Tables /\ st \in DOMAIN Inserts /\ ev \in EventRecords /\ b \in Nat
          BY <1>3, <1>4, <1>5, <2>4, <4>1
        <4>3. after = Run(d, st, ev, b) /\ new = <<Inserts[st], b>>
          BY <3>8, <3>9, <4>1
        <4>4. /\ DOMAIN after.rows = DOMAIN d.rows \cup {new}
              /\ \A r \in DOMAIN d.rows \ {new} : after.rows[r] = d.rows[r]
              /\ new \notin DOMAIN d.rows => after.rows[new] = 1
          BY ONLY <4>2, <4>3, InsertStatementRuns
        <4> HIDE DEF d2
        <4> QED
          BY <4>1, <4>4
      <3>2. scan.event = n
        BY <1>3, <2>4 DEF Handler
      <3>3. Written(t)'
        BY <1>2, <2>4, <3>2, <3>8
      <3>4. ~Written(t)
        <4>1. ASSUME NEW s \in 1..(scan.stmt - 1),
                     Todo[s] \in DOMAIN Inserts, Inserts[Todo[s]] = Inserts[stmt]
              PROVE  FALSE
          <5>1. Todo[s] = stmt
            BY <2>4, <4>1 DEF Inserts
          <5>2. scan.stmt \in Nat /\ Len(Todo) \in Nat
            BY <1>3 DEF Handler
          <5>3. s \in 1..Len(Todo) /\ s # scan.stmt
            BY <1>3, <5>2
          <5> QED
            BY <1>3, <5>1, <5>3 DEF Handler
        <4>2. ~(scan.event > n)
          BY <1>3
        <4> QED
          BY <3>8, <4>1, <4>2 DEF Written
      <3>5. new \notin DOMAIN db.rows
        <4>1. new[1] = t /\ new[2] = scan.at
          BY <3>9
        <4> QED
          BY <1>4, <2>1, <3>4, <4>1
      <3>6. new[2] = scan.at /\ Written(new[1])'
        BY <3>3, <3>9
      <3>7. ASSUME NEW row \in DOMAIN d2.rows
            PROVE  /\ d2.rows[row] = 1
                   /\ \/ row[2] <= lastIndexed
                      \/ row[2] < scan.at \/ (row[2] = scan.at /\ Written(row[1])')
        <4>1. CASE row = new
          BY <3>1, <3>5, <3>6, <4>1
        <4>2. CASE row # new
          <5>1. row \in DOMAIN db.rows /\ d2.rows[row] = db.rows[row]
            BY <3>1, <4>2
          <5> QED
            BY <2>1, <2>2, <5>1
        <4> QED
          BY <4>1, <4>2
      <3> QED
        BY <1>1, <1>2, <3>7 DEF HistoryTrue
    <2>5. CASE stmt \in SettingStatement
      <3>1. d2.rows = db.rows
        <4> HIDE DEF e, stmt, n
        <4> QED
          BY <1>3, <1>5, <2>5, SettingStatementRuns
      <3> QED
        BY <1>1, <2>3, <3>1
    <2>6. CASE stmt \in PositionStatement
      <3>1. e.id \in Positions
        BY <1>3, <2>6 DEF Handler, TrueOf
      <3>2. d2.rows = db.rows
        <4> HIDE DEF e, stmt, n
        <4> QED
          BY <1>3, <1>5, <2>6, <3>1, PositionStatementRuns
      <3> QED
        BY <1>1, <2>3, <3>2
    <2>7. CASE stmt \in OrderStatement
      <3>1. e.id \in Orders
        BY <1>3, <2>7 DEF Handler, TrueOf
      <3>2. d2.rows = db.rows
        <4> HIDE DEF e, stmt, n
        <4> QED
          BY <1>3, <1>5, <2>7, <3>1, OrderStatementRuns
      <3> QED
        BY <1>1, <2>3, <3>2
    <2> QED
      BY <1>1, <1>3, <2>4, <2>5, <2>6, <2>7 DEF AnyStatement
  <1> QED
    BY <1>2, <1>6, <1>7

LEMMA ExecuteTables ==
    ASSUME IInv, TablesInv, Execute
    PROVE  TablesInv' /\ TablesAdvance
  <1>1. LogsTrue'
    BY DEF Execute, TablesInv, LogsTrue, chainVars, ChainHead, Logs
  <1>2. Shape'
    BY DEF Execute, TablesInv, Shape, chainVars, ChainHead
  <1> QED
    BY <1>1, <1>2, ExecuteRows, ExecuteHistory DEF TablesInv

\* Every other step leaves the tables alone: it is enough that history, read at
\* the new place, is still that of the blocks recorded and passed.
LEMMA TablesUntouched ==
    ASSUME TablesInv, UNCHANGED <<chainVars, db>>, AtStatement', HistoryTrue', Shape'
    PROVE  TablesInv' /\ TablesAdvance
  <1>1. LogsTrue' /\ RowsTrue'
    BY DEF TablesInv, LogsTrue, RowsTrue, chainVars, ChainHead, Logs
  <1>2. TablesAdvance
    BY DEF TablesAdvance
  <1> QED
    BY <1>1, <1>2 DEF TablesInv

LEMMA SkipTables ==
    ASSUME IInv, TablesInv, Fail \/ Refuse
    PROVE  TablesInv' /\ TablesAdvance
  <1>1. /\ InBlock /\ scan' = NextEvent
        /\ UNCHANGED <<chainVars, db, lastIndexed, pc, running, next, target, handled, interrupted>>
        /\ faults' \in {faults, faults + 1} /\ (faults' # faults => faults < MaxFaults)
    BY DEF Fail, Refuse
  <1>2. /\ AtStatement'
        /\ scan # NoScan /\ scan' # NoScan /\ scan'.at = scan.at
        /\ \A table : Written(table) => Written(table)'
    BY <1>1, Moves
  <1>3. HistoryTrue'
    <2>1. ASSUME NEW row \in DOMAIN db.rows, Written(row[1])
          PROVE  Written(row[1])'
      <3>1. PICK table : table = row[1]
        OBVIOUS
      <3>2. row[1]' = row[1]
        BY <1>1
      <3> QED
        BY <1>2, <2>1, <3>1, <3>2
    <2> QED
      BY <1>1, <1>2, <2>1 DEF TablesInv, HistoryTrue
  <1>4. Shape'
    BY <1>1, IndexerAssumption DEF TablesInv, Shape, chainVars, ChainHead
  <1> QED
    BY <1>1, <1>2, <1>3, <1>4, TablesUntouched

LEMMA EndBlockTables ==
    ASSUME IInv, TablesInv, EndBlock
    PROVE  TablesInv' /\ TablesAdvance
  <1>1. /\ scan # NoScan /\ scan' = [scan EXCEPT !.at = @ + 1, !.event = 1, !.stmt = 1]
        /\ UNCHANGED <<chainVars, db, lastIndexed, pc, running, next, interrupted, faults>>
        /\ handled' = handled \cup {scan.at} /\ scan.at <= scan.to
    BY DEF EndBlock, InBatch
  <1>2. /\ scan \in Cursor /\ lastIndexed \in Nat /\ ChainHead \in Nat
        /\ scan.at \in Nat \ {0} /\ scan.to \in Nat /\ scan.to <= ChainHead
    BY <1>1, BatchOnChain
  <1>3. scan'.at = scan.at + 1 /\ scan'.event = 1 /\ scan'.stmt = 1
    BY <1>1, <1>2 DEF Cursor
  <1>4. scan' # NoScan
    BY <1>3 DEF NoScan
  <1>5. AtStatement'
    BY <1>3, FreshEvent DEF AtStatement
  <1>6. HistoryTrue'
    <2>1. ASSUME NEW row \in DOMAIN db.rows, HistoryTrue, ~interrupted
          PROVE  /\ db.rows[row] = 1
                 /\ row[2] <= lastIndexed \/ row[2] < scan'.at
      <3>1. row[2] \in Nat
        <4>1. PICK S \in SUBSET (HistoryTables \X Nat) : db.rows \in [S -> Nat]
          BY DEF TablesInv, RowsTrue, Tables, History
        <4> QED
          BY <4>1
      <3> QED
        BY <1>2, <1>3, <2>1, <3>1 DEF HistoryTrue
    <2> QED
      BY <1>1, <1>4, <2>1 DEF TablesInv, HistoryTrue
  <1>7. Shape'
    BY <1>1, <1>2 DEF TablesInv, Shape, chainVars, ChainHead
  <1> QED
    BY <1>1, <1>5, <1>6, <1>7, TablesUntouched

LEMMA RecordTables ==
    ASSUME IInv, TablesInv, Record
    PROVE  TablesInv' /\ TablesAdvance
  <1>1. /\ scan # NoScan /\ scan' = NoScan /\ scan.at > scan.to
        /\ lastIndexed' = scan.to /\ next' = scan.to + 1
        /\ UNCHANGED <<chainVars, db, pc, running, handled, interrupted, faults>>
    BY DEF Record, BatchDone
  <1>2. /\ lastIndexed \in Nat /\ ChainHead \in Nat /\ scan.at <= scan.to + 1
        /\ scan.at \in Nat \ {0} /\ scan.to \in Nat /\ scan.to <= ChainHead
        /\ lastIndexed < scan.to
    BY <1>1, BatchOnChain
  <1>3. AtStatement'
    BY <1>1 DEF AtStatement, InBlock, InBatch
  <1>4. HistoryTrue'
    <2>1. ~InBatch
      BY <1>1, <1>2 DEF InBatch
    <2>2. ASSUME NEW row \in DOMAIN db.rows, HistoryTrue, ~interrupted
          PROVE  db.rows[row] = 1 /\ row[2] <= scan.to
      <3>1. row[2] \in Nat
        <4>1. PICK S \in SUBSET (HistoryTables \X Nat) : db.rows \in [S -> Nat]
          BY DEF TablesInv, RowsTrue, Tables, History
        <4> QED
          BY <4>1
      <3> QED
        BY <1>2, <2>1, <2>2, <3>1 DEF HistoryTrue, Written
    <2> QED
      BY <1>1, <2>2 DEF TablesInv, HistoryTrue
  <1>5. Shape'
    BY <1>1, <1>2 DEF TablesInv, Shape, chainVars, ChainHead
  <1> QED
    BY <1>1, <1>3, <1>4, <1>5, TablesUntouched

\* The batch begins, or the process lets go of it, starts or ends.
LEMMA OutsideTables ==
    ASSUME IInv, TablesInv,
           \/ Boot \/ StartScan \/ GoLive \/ RecordFails \/ Signal \/ Exit \/ Crash
    PROVE  TablesInv' /\ TablesAdvance
  <1>1. ChainHead \in Nat /\ lastIndexed \in 0..ChainHead
    BY HeadIsNat DEF IInv, MarkInv
  <1>2. /\ UNCHANGED <<chainVars, db, handled>>
        /\ lastIndexed' \in Nat /\ lastIndexed <= lastIndexed' /\ lastIndexed' <= ChainHead
        /\ \/ UNCHANGED <<next, lastIndexed>>
           \/ next' = 0
           \/ next' = lastIndexed' + 1
    BY <1>1, BlockAssumption
       DEF Boot, StartScan, GoLive, RecordFails, Signal, Exit, Crash, LoseMemory, IInv, MarkInv
  <1>3. pc' \in {"down", "catchup", "live"}
    BY DEF Boot, StartScan, GoLive, RecordFails, Signal, Exit, Crash, LoseMemory, TablesInv, Shape
  <1>4. {running', interrupted'} \subseteq BOOLEAN
    <2>1. running \in BOOLEAN /\ interrupted \in BOOLEAN
      BY DEF TablesInv, Shape
    <2>2. running' \in BOOLEAN
      BY <2>1 DEF Boot, StartScan, GoLive, RecordFails, Signal, Exit, Crash, LoseMemory
    <2>3. interrupted' \in BOOLEAN
      BY <2>1 DEF Boot, StartScan, GoLive, RecordFails, Signal, Exit, Crash, LoseMemory
    <2> QED
      BY <2>2, <2>3
  <1>5. faults' \in 0..MaxFaults
    <2>1. faults' \in {faults, faults + 1} /\ (faults' # faults => faults < MaxFaults)
      BY DEF Boot, StartScan, GoLive, RecordFails, Signal, Exit, Crash
    <2> QED
      BY <2>1, IndexerAssumption DEF TablesInv, Shape
  <1>6. next' \in 0..(ChainHead + 1) /\ ChainHead' = ChainHead
    BY <1>1, <1>2 DEF TablesInv, Shape, chainVars, ChainHead
  <1>7. Shape'
    BY <1>2, <1>3, <1>4, <1>5, <1>6 DEF TablesInv, Shape
  <1>8. \/ scan' = scan /\ interrupted' = interrupted
        \/ scan' = NoScan /\ (scan # NoScan => interrupted')
           /\ (scan = NoScan => interrupted' = interrupted)
        \/ scan = NoScan /\ interrupted' = interrupted
    BY DEF Boot, StartScan, GoLive, RecordFails, Signal, Exit, Crash, LoseMemory, BatchDone,
           TablesInv, Shape
  <1>9. AtStatement'
    <2>1. CASE scan' = scan
      BY <1>2, <2>1 DEF TablesInv, AtStatement, InBlock, InBatch, Logs, Todo, Current, chainVars
    <2>2. CASE scan' = NoScan
      BY <2>2 DEF AtStatement, InBlock, InBatch
    <2>3. CASE StartScan
      <3>1. scan'.event = 1 /\ scan'.stmt = 1
        BY <2>3 DEF StartScan
      <3> QED
        BY <3>1, FreshEvent DEF AtStatement
    <2> QED
      BY <2>1, <2>2, <2>3 DEF Boot, GoLive, RecordFails, Signal, Exit, Crash, LoseMemory
  <1>10. HistoryTrue'
    <2>1. CASE interrupted'
      BY <2>1 DEF HistoryTrue
    <2>2. CASE scan = NoScan /\ interrupted' = interrupted
      <3>1. ASSUME NEW row \in DOMAIN db.rows, ~interrupted
            PROVE  db.rows[row] = 1 /\ row[2] <= lastIndexed'
        <4>1. row[2] \in Nat
          <5>1. PICK S \in SUBSET (HistoryTables \X Nat) : db.rows \in [S -> Nat]
            BY DEF TablesInv, RowsTrue, Tables, History
          <5> QED
            BY <5>1
        <4>2. db.rows[row] = 1 /\ row[2] <= lastIndexed
          BY <2>2, <3>1 DEF TablesInv, HistoryTrue
        <4> QED
          BY <1>1, <1>2, <4>1, <4>2
      <3> QED
        BY <1>2, <2>2, <3>1 DEF HistoryTrue
    <2>3. CASE scan # NoScan /\ scan' = scan /\ interrupted' = interrupted
      <3>1. lastIndexed' = lastIndexed
        <4>1. ~Boot
          BY <2>3 DEF Boot, IInv, ScanInv
        <4> QED
          BY <4>1 DEF StartScan, GoLive, RecordFails, Signal, Exit, Crash
      <3>2. Logs(scan.at)' = Logs(scan.at) /\ Todo' = Todo /\ InBatch' = InBatch
        BY <1>2, <2>3 DEF Logs, Todo, Current, InBatch, chainVars
      <3>3. \A table : Written(table)' = Written(table)
        BY <2>3, <3>2 DEF Written
      <3> QED
        BY <1>2, <2>3, <3>1, <3>3 DEF TablesInv, HistoryTrue
    <2> QED
      BY <1>8, <2>1, <2>2, <2>3
  <1> QED
    BY <1>2, <1>7, <1>9, <1>10, TablesUntouched

LEMMA NextTables ==
    IInv /\ TablesInv /\ [Next]_vars => TablesInv' /\ TablesAdvance
  <1> SUFFICES ASSUME IInv, TablesInv, [Next]_vars PROVE TablesInv' /\ TablesAdvance
    OBVIOUS
  <1>1. CASE ChainStep
    <2>1. TablesAdvance
      BY <1>1 DEF ChainStep, indexerVars, TablesAdvance
    <2> QED
      BY <1>1, <2>1, ChainTables
  <1>2. CASE IndexerNext
    BY <1>2, ExecuteTables, SkipTables, EndBlockTables, RecordTables, OutsideTables
       DEF IndexerNext
  <1>3. CASE UNCHANGED vars
    <2>1. UNCHANGED <<chainVars, db>>
      BY <1>3 DEF vars, indexerVars
    <2>2. /\ UNCHANGED <<lastIndexed, pc, running, next, scan, handled, interrupted, faults>>
          /\ ChainHead' = ChainHead
      BY <1>3 DEF vars, indexerVars, chainVars, ChainHead
    <2>3. InBatch' = InBatch /\ InBlock' = InBlock /\ Todo' = Todo
          /\ Logs(scan.at)' = Logs(scan.at)
      BY <2>1, <2>2 DEF InBatch, InBlock, Todo, Current, Logs, chainVars
    <2>4. \A table : Written(table)' = Written(table)
      BY <2>2, <2>3 DEF Written
    <2>5. AtStatement' /\ HistoryTrue' /\ Shape'
      BY <2>1, <2>2, <2>3, <2>4 DEF TablesInv, AtStatement, HistoryTrue, Shape
    <2> QED
      BY <2>1, <2>5, TablesUntouched
  <1> QED
    BY <1>1, <1>2, <1>3 DEF Next

LEMMA InvariantHolds == Spec => [](IInv /\ TablesInv)
  <1>1. Init => IInv /\ TablesInv
    BY InitIInv, InitTables
  <1>2. IInv /\ TablesInv /\ [Next]_vars => (IInv /\ TablesInv)'
    BY NextKeeps, NextTables
  <1> QED
    BY <1>1, <1>2, PTL DEF Spec

-----------------------------------------------------------------------------
\* Every variable of the indexer keeps its shape, and a batch in progress lies
\* above the recorded block and below the head of the chain.
THEOREM IndexerTypeCorrect == Spec => []TypeOK
  <1>1. IInv /\ TablesInv => TypeOK
    <2> SUFFICES ASSUME IInv, TablesInv PROVE TypeOK
      OBVIOUS
    <2>1. scan # NoScan => /\ pc # "down" /\ lastIndexed < scan.at
                           /\ scan.at <= scan.to + 1 /\ scan.to <= ChainHead
      BY DEF IInv, ScanInv
    <2> QED
      BY <2>1 DEF IInv, MarkInv, TablesInv, Shape, TypeOK
  <1> QED
    BY <1>1, InvariantHolds, PTL

\* History tables have a serial key and absorb nothing, yet as long as no batch
\* was cut short and every batch could be recorded, an event has one row: blocks
\* are gone through in order, handlers insert once into a table, and of the
\* events of one block only the last one inserts.
THEOREM HistoryWrittenOnce == Spec => []HistoryOnce
  <1>1. IInv /\ TablesInv => HistoryOnce
    <2> SUFFICES ASSUME IInv, TablesInv, ~interrupted, NEW row \in DOMAIN db.rows
                 PROVE  Copies(db, row[1], row[2]) <= 1
      BY DEF HistoryOnce
    <2> DEFINE r == <<row[1], row[2]>>
    <2>1. r \in DOMAIN db.rows => db.rows[r] = 1
      BY DEF TablesInv, HistoryTrue
    <2> HIDE DEF r
    <2>2. Copies(db, row[1], row[2]) = IF BagIn(r, db.rows) THEN db.rows[r] ELSE 0
      BY DEF Copies, r
    <2> QED
      BY <2>1, <2>2 DEF BagIn, BagToSet
  <1> QED
    BY <1>1, InvariantHolds, PTL

\* What the API has shown as closed, liquidated, executed or cancelled is never
\* shown open or active again, and keeps the way it ended, also while a range is
\* scanned again after a crash: the tables' ends are the chain's, and those the
\* chain never takes back.
THEOREM EndsStayInTables == Spec => RowsOnlyAdvance
  <1>1. IInv /\ TablesInv /\ [Next]_vars => [TablesAdvance]_db
    BY NextTables
  <1> QED
    BY <1>1, InvariantHolds, PTL DEF Spec, RowsOnlyAdvance, TablesAdvance

-----------------------------------------------------------------------------
(* What the tables miss.  Of an event that the chain told and a handler    *)
(* has shown the tables, the effect is there; and a value of the tables was *)
(* written by an event after which none on the same row has been shown.    *)

SizeKinds == {"PositionOpened", "PositionModified"}
PlaceKinds == PositionKinds \cup {"Liquidation", "Deleveraged"}
MarketKinds == {"MarketCreated", "MarketEnabled", "MarketDisabled"}
TokenKinds == {"CollateralAdded", "CollateralRemoved"}

\* What an event writes.
ValueIn(e) ==
    IF e.kind \in {"MarketCreated", "MarketEnabled", "CollateralAdded", "VaultCreated"} THEN "on"
    ELSE IF e.kind \in {"MarketDisabled", "CollateralRemoved"} THEN "off"
    ELSE e.val

\* An event of the chain, of some kinds, on one row.
Told(b, i, K, id) ==
    /\ b \in 1..ChainHead /\ i \in 1..Len(Logs(b))
    /\ Logs(b)[i].kind \in K /\ Logs(b)[i].id = id

\* The batch has passed statement s of event i of block b, and no failure cut
\* the handler short.
Done(b, i, s) ==
    \/ /\ \/ b <= lastIndexed
          \/ scan # NoScan /\ b < scan.at
          \/ InBatch /\ b = scan.at /\ i < scan.event
       /\ <<b, i>> \notin lost
    \/ InBatch /\ b = scan.at /\ i = scan.event /\ s < scan.stmt

Shown(b, i, s, K, id) == Told(b, i, K, id) /\ Done(b, i, s)

\* The last event of these kinds wrote v.
LastWrite(K, id, v) ==
    \E b, i :
       /\ Told(b, i, K, id) /\ ValueIn(Logs(b)[i]) = v
       /\ \A c, j : Told(c, j, K, id) => c <= b
LastRead(K, id, v) ==
    \E b, i :
       /\ Told(b, i, K, id) /\ ValueIn(Logs(b)[i]) = v
       /\ \A c, j : Shown(c, j, 1, K, id) => c <= b
Silent(K, id) == \A b, i : ~Told(b, i, K, id)
Spoken(K, id) == \E b, i : Told(b, i, K, id)
\* Events of F come before those of K.
First(F, K, id) ==
    \A b, i, c, j : Told(b, i, F, id) /\ Told(c, j, K, id) => b <= c

\* ---- the contract state and the logs ----
SettingTold(K, F, v, unset) ==
    IF v = unset THEN Silent(K, 0) ELSE LastWrite(K, 0, v) /\ Spoken(F, 0)

PricesTold ==
    /\ onchain.prices # 0 => \E i : Told(onchain.prices, i, {"PricesUpdated", "KeeperCycle"}, 0)
    /\ \A b, i : Told(b, i, {"PricesUpdated"}, 0) => b <= onchain.prices /\ Logs(b)[i].val = b

SettingsTold ==
    /\ SettingTold(MarketKinds, {"MarketCreated"}, onchain.market, "none")
    /\ First({"MarketCreated"}, MarketKinds, 0)
    /\ SettingTold(TokenKinds, {"CollateralAdded"}, onchain.token, "none")
    /\ SettingTold({"VaultCreated"}, {"VaultCreated"}, onchain.vault, "none")
    /\ SettingTold({"FeesUpdated"}, {"FeesUpdated"}, onchain.fees, 0)
    /\ PricesTold
    /\ \A b, i, id : Told(b, i, SettingKinds, id) => id = 0
    /\ \A b, i : Told(b, i, {"FeesUpdated"}, 0) => Logs(b)[i].val = b

PositionTold(p) ==
    LET row == onchain.pos[p]
    IN  /\ row.status = "none" => row.size = 0 /\ Silent(PlaceKinds, p)
        /\ row.status # "none" => Spoken({"PositionOpened"}, p)
        /\ row.status = "closed" => Spoken({"PositionClosed"}, p)
        /\ row.status = "liquidated" => Spoken({"Liquidation"}, p)
        /\ \/ row.status = "none" \/ LastWrite(SizeKinds, p, row.size)
           \/ Spoken({"PartiallyClosed", "Deleveraged"}, p)
        /\ First({"PositionOpened"}, PlaceKinds, p)
        /\ First({"Liquidation"}, {"Liquidation"}, p)

OrderTold(o) ==
    /\ onchain.ord[o] = "none" => Silent(OrderKinds, o)
    /\ onchain.ord[o] # "none" => Spoken({"OrderPlaced"}, o)
    /\ onchain.ord[o] = "executed" => Spoken({"OrderExecuted"}, o)
    /\ onchain.ord[o] = "cancelled" => Spoken({"OrderCancelled"}, o)
    /\ \A b, i, c, j : Told(b, i, {"OrderPlaced"}, o)
                         /\ Told(c, j, {"OrderExecuted", "OrderCancelled"}, o) => b < c

\* A block has one order's event at most.
OrdersApart ==
    \A b, i, j, o, q : Told(b, i, OrderKinds, o) /\ Told(b, j, OrderKinds, q) => i = j

ChainTold ==
    /\ \A b \in 1..(StartBlock - 1) : Logs(b) = <<>>
    /\ OrdersApart
    /\ SettingsTold
    /\ \A p \in Positions : PositionTold(p)
    /\ \A o \in Orders : OrderTold(o)

\* ---- the tables and the logs ----
Shows(K, F, id, set, v) ==
    /\ set => LastRead(K, id, v)
    /\ \A b, i : Shown(b, i, 1, F, id) => set

SettingsShown ==
    /\ Shows(MarketKinds, {"MarketCreated"}, 0, db.market # "none", db.market)
    /\ Shows(TokenKinds, {"CollateralAdded"}, 0, db.token # "none", db.token)
    /\ Shows({"VaultCreated"}, {"VaultCreated"}, 0, db.vault # "none", db.vault)
    /\ Shows({"FeesUpdated"}, {"FeesUpdated"}, 0, db.fees # 0, db.fees)
    /\ Shows({"PricesUpdated"}, {"PricesUpdated"}, 0, db.prices # 0, db.prices)

PositionShown(p) ==
    /\ db.pos[p].status \in {"none", "open", "closed", "liquidated"}
    /\ db.pos[p].status = "none" => db.pos[p] = NoRow
    /\ Shows(SizeKinds, {"PositionOpened"}, p, db.pos[p] # NoRow, db.pos[p].size)
    /\ \A b, i, c, j : Shown(b, i, 1, {"PositionOpened"}, p) =>
          /\ Shown(c, j, 1, {"PositionClosed"}, p) => db.pos[p].status = "closed"
          /\ Shown(c, j, 2, {"Liquidation"}, p) => db.pos[p].status = "liquidated"

OrderShown(o) ==
    /\ db.ord[o] # "none" => Spoken({"OrderPlaced"}, o)
    /\ \A b, i : Shown(b, i, 1, {"OrderPlaced"}, o) => db.ord[o] # "none"
    /\ \A b, i, c, j : Shown(b, i, 1, {"OrderPlaced"}, o) =>
          /\ Shown(c, j, 1, {"OrderExecuted"}, o) => db.ord[o] = "executed"
          /\ Shown(c, j, 1, {"OrderCancelled"}, o) => db.ord[o] = "cancelled"

LiquidationRow(b) == <<"liquidations", b>>
LiquidationsShown ==
    /\ \A b : LiquidationRow(b) \in DOMAIN db.rows =>
          \E i : \E p \in Positions : Told(b, i, {"Liquidation"}, p)
    /\ \A b, i : \A p \in Positions :
          Shown(b, i, 1, {"Liquidation"}, p) => LiquidationRow(b) \in DOMAIN db.rows

TablesShown ==
    /\ SettingsShown /\ LiquidationsShown
    /\ \A p \in Positions : PositionShown(p)
    /\ \A o \in Orders : OrderShown(o)

-----------------------------------------------------------------------------
(* The chain: what a block tells.                                          *)

NewTold(ev, i, K, id) ==
    i \in 1..Len(ev) /\ ev[i].kind \in K /\ ev[i].id = id
QuietOn(ev, K, id) == \A i : ~NewTold(ev, i, K, id)

\* The log has grown by one block with these events.
Extended(ev, h) ==
    /\ ChainHead \in Nat /\ h \in Nat /\ h = ChainHead + 1 /\ ChainHead' = h
    /\ \A b, i, K, id :
          /\ Told(b, i, K, id)' <=> \/ Told(b, i, K, id)
                                    \/ b = h /\ NewTold(ev, i, K, id)
          /\ Told(b, i, K, id) => b \in 1..ChainHead
    /\ \A b \in 1..ChainHead : Logs(b)' = Logs(b)
    /\ \A b : b = h => Logs(b)' = ev

LEMMA LogExtends ==
    ASSUME ChainIsLog, NEW h, h = ChainHead + 1, NEW logs, NEW state, Mine(logs, state)
    PROVE  Extended(logs.diamond, h)
  <1> DEFINE ev == logs.diamond
  <1>1. PICK S : chain \in Seq(S)
    BY DEF ChainIsLog
  <1> DEFINE T == S \cup {logs}
  <1>2. chain \in Seq(T) /\ logs \in T
    BY <1>1, SeqMonotonic
  <1>3. chain' = Append(chain, logs)
    BY DEF Mine
  <1> HIDE DEF T
  <1>4. /\ ChainHead \in Nat /\ ChainHead' = ChainHead + 1
        /\ \A b \in 1..ChainHead : chain'[b] = chain[b]
        /\ chain'[ChainHead + 1] = logs
    BY <1>2, <1>3, AppendProperties, LenProperties DEF ChainHead
  <1>5. \A b : Logs(b)' = chain'[b].diamond /\ Logs(b) = chain[b].diamond
    BY DEF Logs
  <1>6. /\ \A b \in 1..ChainHead : Logs(b)' = Logs(b)
        /\ \A b : b = h => Logs(b)' = ev
    BY <1>4, <1>5
  <1>7. ASSUME NEW b, NEW i, NEW K, NEW id
        PROVE  /\ Told(b, i, K, id)' <=> \/ Told(b, i, K, id)
                                         \/ b = h /\ NewTold(ev, i, K, id)
               /\ Told(b, i, K, id) => b \in 1..ChainHead
    <2>1. Told(b, i, K, id)' <=> /\ b \in 1..ChainHead' /\ i \in 1..Len(Logs(b)')
                                 /\ Logs(b)'[i].kind \in K /\ Logs(b)'[i].id = id
      BY DEF Told
    <2>2. CASE b \in 1..ChainHead
      BY <1>4, <1>6, <2>1, <2>2 DEF Told
    <2>3. CASE b = h
      <3>1. b \in 1..ChainHead' /\ b \notin 1..ChainHead /\ Logs(b)' = ev
        BY <1>4, <1>6, <2>3
      <3> HIDE DEF ev
      <3> QED
        BY <2>1, <2>3, <3>1 DEF Told, NewTold
    <2>4. CASE b \notin 1..ChainHead /\ b # h
      <3>1. b \notin 1..ChainHead'
        BY <1>4, <2>4
      <3> QED
        BY <2>1, <2>4, <3>1 DEF Told
    <2> QED
      BY <2>2, <2>3, <2>4
  <1> QED
    BY <1>4, <1>6, <1>7 DEF Extended

LEMMA SpokenGrows ==
    ASSUME NEW ev, NEW h, Extended(ev, h), NEW K, NEW id
    PROVE  /\ Spoken(K, id) => Spoken(K, id)'
           /\ ~QuietOn(ev, K, id) => Spoken(K, id)'
           /\ Silent(K, id) /\ QuietOn(ev, K, id) => Silent(K, id)'
  BY DEF Extended, Spoken, Silent, QuietOn

LEMMA LastWriteKept ==
    ASSUME NEW ev, NEW h, Extended(ev, h), NEW K, NEW id, NEW v,
           QuietOn(ev, K, id), LastWrite(K, id, v)
    PROVE  LastWrite(K, id, v)'
  <1>1. PICK b, i : /\ Told(b, i, K, id) /\ ValueIn(Logs(b)[i]) = v
                    /\ \A c, j : Told(c, j, K, id) => c <= b
    BY DEF LastWrite
  <1>2. Told(b, i, K, id)' /\ Logs(b)' = Logs(b)
    BY <1>1 DEF Extended
  <1>3. \A c, j : Told(c, j, K, id)' => c <= b
    BY <1>1 DEF Extended, QuietOn
  <1> QED
    BY <1>1, <1>2, <1>3 DEF LastWrite

LEMMA LastWriteNew ==
    ASSUME NEW ev, NEW h, Extended(ev, h), NEW K, NEW id, NEW i, NewTold(ev, i, K, id)
    PROVE  LastWrite(K, id, ValueIn(ev[i]))'
  <1>1. Told(h, i, K, id)' /\ Logs(h)' = ev /\ h \in Nat
    BY DEF Extended
  <1>2. \A c, j : Told(c, j, K, id)' => c <= h
    BY DEF Extended
  <1> QED
    BY <1>1, <1>2 DEF LastWrite

LEMMA FirstKept ==
    ASSUME NEW ev, NEW h, Extended(ev, h), NEW F, NEW K, NEW id, First(F, K, id),
           QuietOn(ev, F, id) \/ Silent(K, id)
    PROVE  First(F, K, id)'
  <1> SUFFICES ASSUME NEW b, NEW i, NEW c, NEW j, Told(b, i, F, id)', Told(c, j, K, id)'
               PROVE  b <= c
    BY DEF First
  <1>1. b <= h /\ h \in Nat
    BY DEF Extended
  <1>2. CASE Told(c, j, K, id)
    <2>1. Told(b, i, F, id)
      BY <1>2 DEF Extended, QuietOn, Silent
    <2> QED
      BY <1>2, <2>1 DEF First
  <1>3. CASE ~Told(c, j, K, id)
    <2>1. c = h
      BY <1>3 DEF Extended
    <2> QED
      BY <1>1, <2>1
  <1> QED
    BY <1>2, <1>3

-----------------------------------------------------------------------------
(* What each transaction logs and what it leaves.                          *)

SettingBlock(e, state) ==
    /\ e.id = 0 /\ e.kind \in SettingKinds \cup {"KeeperCycle", "ProtocolEvent"}
    /\ IF e.kind \in MarketKinds
       THEN /\ state.market = ValueIn(e) /\ state.market # "none"
            /\ e.kind = "MarketCreated" <=> onchain.market = "none"
       ELSE state.market = onchain.market
    /\ IF e.kind \in TokenKinds
       THEN /\ state.token = ValueIn(e) /\ state.token # "none"
            /\ onchain.token = "none" => e.kind = "CollateralAdded"
       ELSE state.token = onchain.token
    /\ IF e.kind = "VaultCreated" THEN state.vault = "on" ELSE state.vault = onchain.vault
    /\ IF e.kind = "FeesUpdated" THEN state.fees = e.val /\ e.val = ChainHead + 1
                                 ELSE state.fees = onchain.fees
    /\ IF e.kind \in {"PricesUpdated", "KeeperCycle"}
       THEN state.prices = ChainHead + 1 /\ (e.kind = "PricesUpdated" => e.val = ChainHead + 1)
       ELSE state.prices = onchain.prices

SettingPart(ev, state) ==
    \/ /\ \A i \in 1..Len(ev) : ev[i].kind \notin SettingKinds \cup {"KeeperCycle"}
       /\ state.market = onchain.market /\ state.token = onchain.token
       /\ state.vault = onchain.vault /\ state.fees = onchain.fees
       /\ state.prices = onchain.prices
    \/ \E e : ev = <<e>> /\ SettingBlock(e, state)

\* How a position's row goes from old to row.
PositionChange(e, old, row) ==
    \/ /\ e.kind = "PositionOpened" /\ old.status = "none"
       /\ row.status = "open" /\ row.size = e.val
    \/ /\ e.kind \in {"PositionModified", "PartiallyClosed"} /\ old.status = "open"
       /\ row.status = "open" /\ row.size = e.val
    \/ /\ e.kind = "PositionClosed" /\ old.status = "open"
       /\ row.status = "closed" /\ row.size = old.size
    \/ /\ e.kind = "Liquidation" /\ old.status = "open"
       /\ row.status = "liquidated" /\ row.size = old.size
    \/ /\ e.kind = "Deleveraged" /\ old.status = "open"
       /\ row.status \in {"deleveraged", "open"}

PositionPart(ev, state) ==
    \/ /\ state.pos = onchain.pos
       /\ \A i \in 1..Len(ev) : ev[i].kind \notin PlaceKinds
    \/ \E p \in Positions : \E row, n :
          /\ state.pos = [onchain.pos EXCEPT ![p] = row]
          /\ n \in 1..Len(ev) /\ ev[n].id = p /\ PositionChange(ev[n], onchain.pos[p], row)
          /\ \A i \in 1..Len(ev) : ev[i].kind \in PlaceKinds => i = n

OrderChange(e, old, status) ==
    \/ e.kind = "OrderPlaced" /\ old = "none" /\ status = "active"
    \/ e.kind = "OrderExecuted" /\ old = "active" /\ status = "executed"
    \/ e.kind = "OrderCancelled" /\ old = "active" /\ status = "cancelled"

OrderPart(ev, state) ==
    \/ /\ state.ord = onchain.ord
       /\ \A i \in 1..Len(ev) : ev[i].kind \notin OrderKinds
    \/ \E o \in Orders : \E status, n :
          /\ state.ord = [onchain.ord EXCEPT ![o] = status]
          /\ n \in 1..Len(ev) /\ ev[n].id = o /\ OrderChange(ev[n], onchain.ord[o], status)
          /\ \A i \in 1..Len(ev) : ev[i].kind \in OrderKinds => i = n

Block(ev, state) ==
    SettingPart(ev, state) /\ PositionPart(ev, state) /\ OrderPart(ev, state)
Mined == \E logs, state : Mine(logs, state) /\ Block(logs.diamond, state)

LEMMA SettingMined ==
    ASSUME NEW e, NEW state, SettingBlock(e, state), state.pos = onchain.pos,
           state.ord = onchain.ord, Mine(Logged(<<>>, <<e>>), state)
    PROVE  Mined
  <1>1. Logged(<<>>, <<e>>).diamond = <<e>>
    BY DEF Logged
  <1>2. SettingPart(<<e>>, state)
    BY DEF SettingPart
  <1>3. e.kind \notin PlaceKinds \cup OrderKinds
    BY DEF SettingBlock, SettingKinds, PlaceKinds, PositionKinds, OrderKinds
  <1>4. PositionPart(<<e>>, state) /\ OrderPart(<<e>>, state)
    BY <1>3 DEF PositionPart, OrderPart
  <1> QED
    BY <1>1, <1>2, <1>4 DEF Mined, Block

SettingStep ==
    \/ PostPrices \/ CyclePrices \/ SetFees \/ CreateMarket \/ SwitchMarket
    \/ AddCollateral \/ RemoveCollateral \/ CreateVault \/ RecordOnly

LEMMA SettingSteps ==
    ASSUME onchain \in OnchainStates, SettingStep
    PROVE  Mined
  <1> DEFINE h == ChainHead + 1
  <1> USE DEF SettingKinds, MarketKinds, TokenKinds, ValueIn
  <1>1. ASSUME NEW kind, NEW val, NEW state, SettingBlock(Event(kind, 0, val), state),
               state.pos = onchain.pos, state.ord = onchain.ord,
               Mine(Logged(<<>>, <<Event(kind, 0, val)>>), state)
        PROVE  Mined
    BY <1>1, SettingMined
  <1>2. \A kind, val : LET e == Event(kind, 0, val)
                       IN  e.kind = kind /\ e.id = 0 /\ e.val = val
    BY DEF Event
  <1>3. CASE PostPrices
    <2> DEFINE state == [onchain EXCEPT !.prices = h]
    <2>1. SettingBlock(Event("PricesUpdated", 0, h), state)
      BY <1>2 DEF SettingBlock, OnchainStates
    <2>2. state.pos = onchain.pos /\ state.ord = onchain.ord
      BY DEF OnchainStates
    <2>3. Mine(Logged(<<>>, <<Event("PricesUpdated", 0, h)>>), state)
      BY <1>3 DEF PostPrices
    <2> HIDE DEF h, state
    <2> QED
      BY <1>1, <2>1, <2>2, <2>3
  <1>4. CASE CyclePrices
    <2> DEFINE state == [onchain EXCEPT !.prices = h]
    <2>1. SettingBlock(Event("KeeperCycle", 0, 0), state)
      BY <1>2 DEF SettingBlock, OnchainStates
    <2>2. state.pos = onchain.pos /\ state.ord = onchain.ord
      BY DEF OnchainStates
    <2>3. Mine(Logged(<<>>, <<Event("KeeperCycle", 0, 0)>>), state)
      BY <1>4 DEF CyclePrices
    <2> HIDE DEF h, state
    <2> QED
      BY <1>1, <2>1, <2>2, <2>3
  <1>5. CASE SetFees
    <2> DEFINE state == [onchain EXCEPT !.fees = h]
    <2>1. SettingBlock(Event("FeesUpdated", 0, h), state)
      BY <1>2 DEF SettingBlock, OnchainStates
    <2>2. state.pos = onchain.pos /\ state.ord = onchain.ord
      BY DEF OnchainStates
    <2>3. Mine(Logged(<<>>, <<Event("FeesUpdated", 0, h)>>), state)
      BY <1>5 DEF SetFees
    <2> HIDE DEF h, state
    <2> QED
      BY <1>1, <2>1, <2>2, <2>3
  <1>6. ASSUME NEW kind, NEW flag, onchain.market # flag,
               \/ kind = "MarketCreated" /\ flag = "on" /\ onchain.market = "none"
               \/ kind = "MarketDisabled" /\ flag = "off" /\ onchain.market # "none"
               \/ kind = "MarketEnabled" /\ flag = "on" /\ onchain.market # "none",
               Mine(Logged(<<>>, <<Event(kind, 0, 0)>>), [onchain EXCEPT !.market = flag])
        PROVE  Mined
    <2> DEFINE state == [onchain EXCEPT !.market = flag]
    <2>1. /\ state.market = flag /\ state.pos = onchain.pos /\ state.ord = onchain.ord
          /\ state.token = onchain.token /\ state.vault = onchain.vault
          /\ state.fees = onchain.fees /\ state.prices = onchain.prices
      BY DEF OnchainStates
    <2>2. Mine(Logged(<<>>, <<Event(kind, 0, 0)>>), state)
      BY <1>6
    <2> HIDE DEF state
    <2>3. SettingBlock(Event(kind, 0, 0), state)
      BY <1>2, <1>6, <2>1 DEF SettingBlock
    <2> QED
      BY <1>1, <2>1, <2>2, <2>3
  <1>7. ASSUME NEW kind, NEW flag,
               \/ kind = "CollateralAdded" /\ flag = "on"
               \/ kind = "CollateralRemoved" /\ flag = "off" /\ onchain.token # "none",
               Mine(Logged(<<>>, <<Event(kind, 0, 0)>>), [onchain EXCEPT !.token = flag])
        PROVE  Mined
    <2> DEFINE state == [onchain EXCEPT !.token = flag]
    <2>1. /\ state.token = flag /\ state.pos = onchain.pos /\ state.ord = onchain.ord
          /\ state.market = onchain.market /\ state.vault = onchain.vault
          /\ state.fees = onchain.fees /\ state.prices = onchain.prices
      BY DEF OnchainStates
    <2>2. Mine(Logged(<<>>, <<Event(kind, 0, 0)>>), state)
      BY <1>7
    <2> HIDE DEF state
    <2>3. SettingBlock(Event(kind, 0, 0), state)
      BY <1>2, <1>7, <2>1 DEF SettingBlock
    <2> QED
      BY <1>1, <2>1, <2>2, <2>3
  <1>8. CASE CreateMarket
    BY <1>6, <1>8 DEF CreateMarket
  <1>9. CASE SwitchMarket
    <2>1. CASE /\ onchain.market = "on"
               /\ Mine(Logged(<<>>, <<Event("MarketDisabled", 0, 0)>>),
                       [onchain EXCEPT !.market = "off"])
      BY <1>6, <2>1
    <2>2. CASE /\ onchain.market = "off"
               /\ Mine(Logged(<<>>, <<Event("MarketEnabled", 0, 0)>>),
                       [onchain EXCEPT !.market = "on"])
      BY <1>6, <2>2
    <2> QED
      BY <1>9, <2>1, <2>2 DEF SwitchMarket
  <1>10. CASE AddCollateral
    BY <1>7, <1>10 DEF AddCollateral
  <1>11. CASE RemoveCollateral
    BY <1>7, <1>11 DEF RemoveCollateral
  <1>12. CASE CreateVault
    <2> DEFINE state == [onchain EXCEPT !.vault = "on"]
    <2>1. SettingBlock(Event("VaultCreated", 0, 0), state)
      BY <1>2 DEF SettingBlock, OnchainStates
    <2>2. state.pos = onchain.pos /\ state.ord = onchain.ord
      BY DEF OnchainStates
    <2>3. Mine(Logged(<<>>, <<Event("VaultCreated", 0, 0)>>), state)
      BY <1>12 DEF CreateVault
    <2> HIDE DEF state
    <2> QED
      BY <1>1, <2>1, <2>2, <2>3
  <1>13. CASE RecordOnly
    <2>1. SettingBlock(Event("ProtocolEvent", 0, 0), onchain)
      BY <1>2 DEF SettingBlock
    <2>2. Mine(Logged(<<>>, <<Event("ProtocolEvent", 0, 0)>>), onchain)
      BY <1>13 DEF RecordOnly
    <2> QED
      BY <1>1, <2>1, <2>2
  <1> QED
    BY <1>3, <1>4, <1>5, <1>8, <1>9, <1>10, <1>11, <1>12, <1>13 DEF SettingStep

\* Sizes and statuses: what a position event may leave.
LEMMA PositionMined ==
    ASSUME onchain \in OnchainStates, NEW p \in Positions, NEW e, e.id = p,
           NEW row, PositionChange(e, onchain.pos[p], row), NEW account,
           Mine(Logged(account, <<e>>), [onchain EXCEPT !.pos[p] = row])
    PROVE  Mined
  <1> DEFINE state == [onchain EXCEPT !.pos[p] = row]
             ev == <<e>>
  <1>1. /\ state.pos = [onchain.pos EXCEPT ![p] = row] /\ state.ord = onchain.ord
        /\ state.market = onchain.market /\ state.token = onchain.token
        /\ state.vault = onchain.vault /\ state.fees = onchain.fees
        /\ state.prices = onchain.prices
    BY DEF OnchainStates
  <1>2. Mine(Logged(account, ev), state)
    OBVIOUS
  <1>3. Logged(account, ev).diamond = ev /\ Len(ev) = 1 /\ ev[1] = e
    BY DEF Logged
  <1> HIDE DEF state, ev
  <1>4. e.kind \in PlaceKinds /\ e.kind \notin SettingKinds \cup {"KeeperCycle"} \cup OrderKinds
    BY DEF PositionChange, PlaceKinds, PositionKinds, SettingKinds, OrderKinds
  <1>5. SettingPart(ev, state) /\ OrderPart(ev, state)
    BY <1>1, <1>3, <1>4 DEF SettingPart, OrderPart
  <1>6. PositionPart(ev, state)
    <2>1. 1 \in 1..Len(ev) /\ \A i \in 1..Len(ev) : ev[i].kind \in PlaceKinds => i = 1
      BY <1>3
    <2> QED
      BY <1>1, <1>3, <2>1 DEF PositionPart
  <1> QED
    BY <1>2, <1>3, <1>5, <1>6 DEF Mined, Block

LEMMA OrderMined ==
    ASSUME onchain \in OnchainStates, NEW o \in Orders, NEW e, e.id = o,
           NEW status, OrderChange(e, onchain.ord[o], status), NEW account,
           Mine(Logged(account, <<e>>), [onchain EXCEPT !.ord[o] = status])
    PROVE  Mined
  <1> DEFINE state == [onchain EXCEPT !.ord[o] = status]
             ev == <<e>>
  <1>1. /\ state.ord = [onchain.ord EXCEPT ![o] = status] /\ state.pos = onchain.pos
        /\ state.market = onchain.market /\ state.token = onchain.token
        /\ state.vault = onchain.vault /\ state.fees = onchain.fees
        /\ state.prices = onchain.prices
    BY DEF OnchainStates
  <1>2. Mine(Logged(account, ev), state)
    OBVIOUS
  <1>3. Logged(account, ev).diamond = ev /\ Len(ev) = 1 /\ ev[1] = e
    BY DEF Logged
  <1> HIDE DEF state, ev
  <1>4. e.kind \in OrderKinds /\ e.kind \notin SettingKinds \cup {"KeeperCycle"} \cup PlaceKinds
    BY DEF OrderChange, PlaceKinds, PositionKinds, SettingKinds, OrderKinds
  <1>5. SettingPart(ev, state) /\ PositionPart(ev, state)
    BY <1>1, <1>3, <1>4 DEF SettingPart, PositionPart
  <1>6. OrderPart(ev, state)
    <2>1. 1 \in 1..Len(ev) /\ \A i \in 1..Len(ev) : ev[i].kind \in OrderKinds => i = 1
      BY <1>3
    <2>2. ev[1].id = o /\ OrderChange(ev[1], onchain.ord[o], status)
      BY <1>3
    <2>3. state.ord = [onchain.ord EXCEPT ![o] = status]
      BY <1>1
    <2> QED
      BY <2>1, <2>2, <2>3 DEF OrderPart
  <1> QED
    BY <1>2, <1>3, <1>5, <1>6 DEF Mined, Block

LEMMA ExecutionMined ==
    ASSUME onchain \in OnchainStates, NEW p \in Positions, NEW o \in Orders,
           NEW e1, e1.id = o, e1.kind = "OrderExecuted", onchain.ord[o] = "active",
           NEW e, e.id = p, NEW row, PositionChange(e, onchain.pos[p], row), NEW account,
           Mine(Logged(account, <<e1, e>>),
                [[onchain EXCEPT !.pos[p] = row] EXCEPT !.ord[o] = "executed"])
    PROVE  Mined
  <1> DEFINE mid == [onchain EXCEPT !.pos[p] = row]
             state == [mid EXCEPT !.ord[o] = "executed"]
             ev == <<e1, e>>
  <1>1. /\ mid.pos = [onchain.pos EXCEPT ![p] = row] /\ mid.ord = onchain.ord
        /\ mid.market = onchain.market /\ mid.token = onchain.token
        /\ mid.vault = onchain.vault /\ mid.fees = onchain.fees
        /\ mid.prices = onchain.prices
        /\ DOMAIN mid = DOMAIN onchain
    BY DEF OnchainStates
  <1>2. Mine(Logged(account, ev), state)
    OBVIOUS
  <1>3. Logged(account, ev).diamond = ev /\ Len(ev) = 2 /\ ev[1] = e1 /\ ev[2] = e
    BY DEF Logged
  <1>4. "ord" \in DOMAIN mid
    BY <1>1 DEF OnchainStates
  <1> HIDE DEF mid
  <1>5. /\ state.ord = [onchain.ord EXCEPT ![o] = "executed"]
        /\ state.pos = [onchain.pos EXCEPT ![p] = row]
        /\ state.market = onchain.market /\ state.token = onchain.token
        /\ state.vault = onchain.vault /\ state.fees = onchain.fees
        /\ state.prices = onchain.prices
    BY <1>1, <1>4 DEF OnchainStates
  <1> HIDE DEF state, ev
  <1>6. /\ e.kind \in PlaceKinds
        /\ e.kind \notin SettingKinds \cup {"KeeperCycle"} \cup OrderKinds
        /\ e1.kind \in OrderKinds
        /\ e1.kind \notin SettingKinds \cup {"KeeperCycle"} \cup PlaceKinds
    BY DEF PositionChange, PlaceKinds, PositionKinds, SettingKinds, OrderKinds
  <1>7. \A i \in 1..Len(ev) : i = 1 \/ i = 2
    BY <1>3
  <1>8. SettingPart(ev, state)
    BY <1>3, <1>5, <1>6, <1>7 DEF SettingPart
  <1>9. PositionPart(ev, state)
    <2>1. 2 \in 1..Len(ev) /\ \A i \in 1..Len(ev) : ev[i].kind \in PlaceKinds => i = 2
      BY <1>3, <1>6, <1>7
    <2> QED
      BY <1>3, <1>5, <2>1 DEF PositionPart
  <1>10. OrderPart(ev, state)
    <2>1. 1 \in 1..Len(ev) /\ \A i \in 1..Len(ev) : ev[i].kind \in OrderKinds => i = 1
      BY <1>3, <1>6, <1>7
    <2>2. OrderChange(ev[1], onchain.ord[o], "executed")
      BY <1>3 DEF OrderChange
    <2> QED
      BY <1>3, <1>5, <2>1, <2>2 DEF OrderPart
  <1> QED
    BY <1>2, <1>3, <1>8, <1>9, <1>10 DEF Mined, Block

LEMMA ObjectSteps ==
    ASSUME onchain \in OnchainStates, ChainNext, ~SettingStep
    PROVE  Mined
  <1> DEFINE Row1(status, size) == [status |-> status, size |-> size]
  <1>1. \A kind, id, val : LET e == Event(kind, id, val)
                           IN  e.kind = kind /\ e.id = id /\ e.val = val
    BY DEF Event
  <1>2. \A p, status, size :
           SetPosition(p, status, size) = [onchain EXCEPT !.pos[p] = Row1(status, size)]
    BY DEF SetPosition
  <1>3. \A status, size : Row1(status, size).status = status /\ Row1(status, size).size = size
    OBVIOUS
  <1> HIDE DEF Row1
  <1>4. ASSUME NEW p \in Positions, NEW kind, NEW val, NEW status, NEW size, NEW account,
               PositionChange(Event(kind, p, val), onchain.pos[p], Row1(status, size)),
               Mine(Logged(account, <<Event(kind, p, val)>>), SetPosition(p, status, size))
        PROVE  Mined
    BY <1>1, <1>2, <1>4, PositionMined
  <1>5. ASSUME NEW p \in Positions, ClosePosition(p)
        PROVE  Mined
    <2>1. PositionChange(Event("PositionClosed", p, 0), onchain.pos[p],
                         Row1("closed", onchain.pos[p].size))
      BY <1>1, <1>3, <1>5 DEF PositionChange, ClosePosition
    <2> QED
      BY <1>4, <1>5, <2>1 DEF ClosePosition
  <1>6. ASSUME NEW p \in Positions, LiquidatePosition(p)
        PROVE  Mined
    <2>1. PositionChange(Event("Liquidation", p, 0), onchain.pos[p],
                         Row1("liquidated", onchain.pos[p].size))
      BY <1>1, <1>3, <1>6 DEF PositionChange, LiquidatePosition
    <2> QED
      BY <1>4, <1>6, <2>1 DEF LiquidatePosition
  <1>7. ASSUME NEW p \in Positions, NEW size, OpenPosition(p, size)
        PROVE  Mined
    <2>1. PositionChange(Event("PositionOpened", p, size), onchain.pos[p], Row1("open", size))
      BY <1>1, <1>3, <1>7 DEF PositionChange, OpenPosition
    <2> QED
      BY <1>4, <1>7, <2>1 DEF OpenPosition
  <1>8. ASSUME NEW p \in Positions, NEW size, ModifyPosition(p, size)
        PROVE  Mined
    <2>1. PositionChange(Event("PositionModified", p, size), onchain.pos[p], Row1("open", size))
      BY <1>1, <1>3, <1>8 DEF PositionChange, ModifyPosition
    <2> QED
      BY <1>4, <1>8, <2>1 DEF ModifyPosition
  <1>9. ASSUME NEW p \in Positions, NEW size, PartialClose(p, size)
        PROVE  Mined
    <2>1. PositionChange(Event("PartiallyClosed", p, size), onchain.pos[p], Row1("open", size))
      BY <1>1, <1>3, <1>9 DEF PositionChange, PartialClose
    <2> QED
      BY <1>4, <1>9, <2>1 DEF PartialClose
  <1>10. ASSUME NEW p \in Positions, NEW left, Deleverage(p, left)
         PROVE  Mined
    <2>1. PICK status, size :
             /\ status \in {"deleveraged", "open"}
             /\ Mine(Logged(<<Released(p)>>, <<Event("Deleveraged", p, 0)>>),
                     SetPosition(p, status, size))
      BY <1>10 DEF Deleverage
    <2>2. PositionChange(Event("Deleveraged", p, 0), onchain.pos[p], Row1(status, size))
      BY <1>1, <1>3, <1>10, <2>1 DEF PositionChange, Deleverage
    <2> QED
      BY <1>4, <2>1, <2>2
  <1>11. ASSUME NEW o \in Orders, PlaceOrder(o) \/ CancelOrder(o)
         PROVE  Mined
    <2>1. OrderChange(Event("OrderPlaced", o, 0), "none", "active")
      BY <1>1 DEF OrderChange
    <2>2. OrderChange(Event("OrderCancelled", o, 0), "active", "cancelled")
      BY <1>1 DEF OrderChange
    <2>3. CASE PlaceOrder(o)
      BY <1>1, <2>1, <2>3, OrderMined DEF PlaceOrder
    <2>4. CASE CancelOrder(o)
      BY <1>1, <2>2, <2>4, OrderMined DEF CancelOrder
    <2> QED
      BY <1>11, <2>3, <2>4
  <1>12. ASSUME NEW o \in Orders, NEW p \in Positions, NEW kind, NEW val, NEW status,
                NEW size, NEW account, onchain.ord[o] = "active",
                PositionChange(Event(kind, p, val), onchain.pos[p], Row1(status, size)),
                Mine(Logged(account, <<Event("OrderExecuted", o, 0), Event(kind, p, val)>>),
                     [SetPosition(p, status, size) EXCEPT !.ord[o] = "executed"])
         PROVE  Mined
    <2>1. PICK e1 : e1 = Event("OrderExecuted", o, 0)
      OBVIOUS
    <2>2. PICK e : e = Event(kind, p, val)
      OBVIOUS
    <2>3. PICK row : row = Row1(status, size)
      OBVIOUS
    <2>4. Mine(Logged(account, <<e1, e>>),
               [[onchain EXCEPT !.pos[p] = row] EXCEPT !.ord[o] = "executed"])
      BY <1>2, <1>12, <2>1, <2>2, <2>3
    <2>5. /\ e1.id = o /\ e1.kind = "OrderExecuted" /\ e.id = p
          /\ PositionChange(e, onchain.pos[p], row) /\ onchain.ord[o] = "active"
      BY <1>1, <1>12, <2>1, <2>2, <2>3
    <2> QED
      BY <2>4, <2>5, ExecutionMined
  <1>13. ASSUME NEW o \in Orders, NEW p \in Positions, ExecuteCloseOrder(o, p)
         PROVE  Mined
    <2>1. PositionChange(Event("PositionClosed", p, 0), onchain.pos[p],
                         Row1("closed", onchain.pos[p].size))
      BY <1>1, <1>3, <1>13 DEF PositionChange, ExecuteCloseOrder
    <2> QED
      BY <1>12, <1>13, <2>1 DEF ExecuteCloseOrder
  <1>14. ASSUME NEW o \in Orders, NEW p \in Positions, NEW size, ExecuteOrder(o, p, size)
         PROVE  Mined
    <2>1. PositionChange(Event("PositionOpened", p, size), onchain.pos[p], Row1("open", size))
      BY <1>1, <1>3, <1>14 DEF PositionChange, ExecuteOrder
    <2> QED
      BY <1>12, <1>14, <2>1 DEF ExecuteOrder
  <1> QED
    BY <1>5, <1>6, <1>7, <1>8, <1>9, <1>10, <1>11, <1>13, <1>14 DEF ChainNext, SettingStep

LEMMA ChainMined ==
    ASSUME onchain \in OnchainStates, ChainNext
    PROVE  Mined
  BY SettingSteps, ObjectSteps

-----------------------------------------------------------------------------
(* The contract state stays what the logs tell.                            *)

LEMMA SettingKept ==
    ASSUME NEW ev, NEW h, Extended(ev, h), NEW K, NEW F, NEW v, NEW w, NEW unset,
           SettingTold(K, F, v, unset),
           \/ QuietOn(ev, K, 0) /\ w = v
           \/ /\ NewTold(ev, 1, K, 0) /\ w = ValueIn(ev[1]) /\ w # unset
              /\ v = unset => ev[1].kind \in F
    PROVE  SettingTold(K, F, w, unset)'
  <1>1. CASE QuietOn(ev, K, 0) /\ w = v
    BY <1>1, SpokenGrows, LastWriteKept DEF SettingTold
  <1>2. CASE /\ NewTold(ev, 1, K, 0) /\ w = ValueIn(ev[1]) /\ w # unset
             /\ v = unset => ev[1].kind \in F
    <2>1. LastWrite(K, 0, w)'
      BY <1>2, LastWriteNew
    <2>2. Spoken(F, 0)'
      <3>1. CASE v = unset
        <4>1. NewTold(ev, 1, F, 0)
          BY <1>2, <3>1 DEF NewTold
        <4> QED
          BY <4>1, SpokenGrows DEF QuietOn
      <3>2. CASE v # unset
        BY <3>2, SpokenGrows DEF SettingTold
      <3> QED
        BY <3>1, <3>2
    <2> QED
      BY <1>2, <2>1, <2>2 DEF SettingTold
  <1> QED
    BY <1>1, <1>2

LEMMA OneEvent ==
    ASSUME NEW e, NEW K
    PROVE  /\ NewTold(<<e>>, 1, K, e.id) <=> e.kind \in K
           /\ e.kind \notin K => \A id : QuietOn(<<e>>, K, id)
           /\ <<e>>[1] = e
  BY DEF NewTold, QuietOn

LEMMA SettingsKept ==
    ASSUME SettingsTold, onchain \in OnchainStates, NEW ev, NEW h, Extended(ev, h),
           NEW state, onchain' = state, SettingPart(ev, state)
    PROVE  SettingsTold'
  <1> DEFINE M == MarketKinds
             T == TokenKinds
             V == {"VaultCreated"}
             E == {"FeesUpdated"}
             P == {"PricesUpdated"}
  <1>1. CASE /\ \A i \in 1..Len(ev) : ev[i].kind \notin SettingKinds \cup {"KeeperCycle"}
             /\ state.market = onchain.market /\ state.token = onchain.token
             /\ state.vault = onchain.vault /\ state.fees = onchain.fees
             /\ state.prices = onchain.prices
    <2>1. /\ QuietOn(ev, M, 0) /\ QuietOn(ev, T, 0) /\ QuietOn(ev, V, 0)
          /\ QuietOn(ev, E, 0) /\ QuietOn(ev, P, 0) /\ QuietOn(ev, {"MarketCreated"}, 0)
      BY <1>1 DEF QuietOn, NewTold, SettingKinds, MarketKinds, TokenKinds
    <2>2. /\ SettingTold(M, {"MarketCreated"}, state.market, "none")'
          /\ SettingTold(T, {"CollateralAdded"}, state.token, "none")'
          /\ SettingTold(V, V, state.vault, "none")'
          /\ SettingTold(E, E, state.fees, 0)'
      <3> HIDE DEF M, T, V, E
      <3>1. /\ SettingTold(M, {"MarketCreated"}, state.market, "none")
            /\ SettingTold(T, {"CollateralAdded"}, state.token, "none")
            /\ SettingTold(V, V, state.vault, "none")
            /\ SettingTold(E, E, state.fees, 0)
        BY <1>1 DEF SettingsTold, M, T, V, E
      <3> QED
        BY <2>1, <3>1, SettingKept
    <2>3. First({"MarketCreated"}, M, 0)'
      <3> HIDE DEF M
      <3> QED
        BY <2>1, FirstKept DEF SettingsTold, M
    <2>4. PricesTold'
      <3>1. \A b, i : Told(b, i, P, 0)' => Told(b, i, P, 0)
        BY <2>1 DEF Extended, QuietOn
      <3>2. \A b, i : Told(b, i, P, 0)' => b <= state.prices /\ Logs(b)'[i].val = b
        BY <1>1, <3>1 DEF SettingsTold, PricesTold, Extended
      <3>3. ASSUME state.prices # 0
            PROVE  \E i : Told(state.prices, i, {"PricesUpdated", "KeeperCycle"}, 0)'
        BY <1>1, <3>3 DEF SettingsTold, PricesTold, Extended
      <3> QED
        BY <3>2, <3>3 DEF PricesTold
    <2>5. \A b, i, id : Told(b, i, SettingKinds, id)' => id = 0
      BY <1>1 DEF SettingsTold, Extended, NewTold
    <2>6. \A b, i : Told(b, i, E, 0)' => Logs(b)'[i].val = b
      BY <2>1 DEF SettingsTold, Extended, QuietOn
    <2> QED
      BY <2>2, <2>3, <2>4, <2>5, <2>6 DEF SettingsTold
  <1>2. CASE \E e : ev = <<e>> /\ SettingBlock(e, state)
    <2>1. PICK e : ev = <<e>> /\ SettingBlock(e, state)
      BY <1>2
    <2>2. e.id = 0 /\ ev[1] = e
      BY <2>1 DEF SettingBlock
    <2>3. \A K : /\ NewTold(ev, 1, K, 0) <=> e.kind \in K
                 /\ e.kind \notin K => QuietOn(ev, K, 0)
      BY <2>1, <2>2, OneEvent
    <2>4. SettingTold(M, {"MarketCreated"}, state.market, "none")'
      <3> HIDE DEF M
      <3>1. SettingTold(M, {"MarketCreated"}, onchain.market, "none")
        BY DEF SettingsTold, M
      <3>2. \/ QuietOn(ev, M, 0) /\ state.market = onchain.market
            \/ /\ NewTold(ev, 1, M, 0) /\ state.market = ValueIn(ev[1])
               /\ state.market # "none"
               /\ onchain.market = "none" => ev[1].kind \in {"MarketCreated"}
        BY <2>1, <2>2, <2>3 DEF SettingBlock, M
      <3> QED
        BY <3>1, <3>2, SettingKept
    <2>5. SettingTold(T, {"CollateralAdded"}, state.token, "none")'
      <3> HIDE DEF T
      <3>1. SettingTold(T, {"CollateralAdded"}, onchain.token, "none")
        BY DEF SettingsTold, T
      <3>2. \/ QuietOn(ev, T, 0) /\ state.token = onchain.token
            \/ /\ NewTold(ev, 1, T, 0) /\ state.token = ValueIn(ev[1])
               /\ state.token # "none"
               /\ onchain.token = "none" => ev[1].kind \in {"CollateralAdded"}
        BY <2>1, <2>2, <2>3 DEF SettingBlock, T
      <3> QED
        BY <3>1, <3>2, SettingKept
    <2>6. SettingTold(V, V, state.vault, "none")'
      <3> HIDE DEF V
      <3>1. SettingTold(V, V, onchain.vault, "none")
        BY DEF SettingsTold, V
      <3>2. \/ QuietOn(ev, V, 0) /\ state.vault = onchain.vault
            \/ /\ NewTold(ev, 1, V, 0) /\ state.vault = ValueIn(ev[1])
               /\ state.vault # "none"
               /\ onchain.vault = "none" => ev[1].kind \in V
        BY <2>1, <2>2, <2>3 DEF SettingBlock, V, ValueIn
      <3> QED
        BY <3>1, <3>2, SettingKept
    <2>7. SettingTold(E, E, state.fees, 0)'
      <3> HIDE DEF E
      <3>1. SettingTold(E, E, onchain.fees, 0)
        BY DEF SettingsTold, E
      <3>2. \/ QuietOn(ev, E, 0) /\ state.fees = onchain.fees
            \/ /\ NewTold(ev, 1, E, 0) /\ state.fees = ValueIn(ev[1])
               /\ state.fees # 0
               /\ onchain.fees = 0 => ev[1].kind \in E
        BY <2>1, <2>2, <2>3 DEF SettingBlock, E, ValueIn, Extended
      <3> QED
        BY <3>1, <3>2, SettingKept
    <2>8. First({"MarketCreated"}, M, 0)'
      <3> HIDE DEF M
      <3>1. QuietOn(ev, {"MarketCreated"}, 0) \/ Silent(M, 0)
        BY <2>1, <2>3 DEF SettingBlock, SettingsTold, SettingTold, M, MarketKinds
      <3> QED
        BY <3>1, FirstKept DEF SettingsTold, M
    <2>9. PricesTold'
      <3>1. CASE e.kind \in {"PricesUpdated", "KeeperCycle"}
        <4>1. state.prices = h /\ (e.kind = "PricesUpdated" => e.val = h)
          BY <2>1, <3>1 DEF SettingBlock, Extended
        <4>2. Told(h, 1, {"PricesUpdated", "KeeperCycle"}, 0)'
          BY <2>3, <3>1 DEF Extended
        <4>3. ASSUME NEW b, NEW i, Told(b, i, P, 0)'
              PROVE  b <= h /\ Logs(b)'[i].val = b
          <5>1. CASE Told(b, i, P, 0)
            <6>1. b \in 1..ChainHead /\ Logs(b)' = Logs(b)
              BY <5>1 DEF Extended
            <6>2. Logs(b)[i].val = b
              BY <5>1 DEF SettingsTold, PricesTold
            <6> QED
              BY <6>1, <6>2 DEF Extended
          <5>2. CASE ~Told(b, i, P, 0)
            <6>1. b = h /\ NewTold(ev, i, P, 0)
              BY <4>3, <5>2 DEF Extended
            <6>2. i = 1 /\ e.kind = "PricesUpdated" /\ Logs(b)' = ev
              BY <2>1, <6>1 DEF NewTold, Extended
            <6> QED
              BY <2>2, <4>1, <6>1, <6>2 DEF Extended
          <5> QED
            BY <5>1, <5>2
        <4> QED
          BY <4>1, <4>2, <4>3 DEF PricesTold
      <3>2. CASE e.kind \notin {"PricesUpdated", "KeeperCycle"}
        <4>1. state.prices = onchain.prices /\ QuietOn(ev, P, 0)
          BY <2>1, <2>3, <3>2 DEF SettingBlock
        <4>2. \A b, i : Told(b, i, P, 0)' => Told(b, i, P, 0)
          BY <4>1 DEF Extended, QuietOn
        <4>3. \A b, i : Told(b, i, P, 0)' => b <= state.prices /\ Logs(b)'[i].val = b
          BY <4>1, <4>2 DEF SettingsTold, PricesTold, Extended
        <4>4. ASSUME state.prices # 0
              PROVE  \E i : Told(state.prices, i, {"PricesUpdated", "KeeperCycle"}, 0)'
          BY <4>1, <4>4 DEF SettingsTold, PricesTold, Extended
        <4> QED
          BY <4>3, <4>4 DEF PricesTold
      <3> QED
        BY <3>1, <3>2
    <2>10. \A b, i, id : Told(b, i, SettingKinds, id)' => id = 0
      <3>1. \A i, id : NewTold(ev, i, SettingKinds, id) => id = 0
        BY <2>1, <2>2 DEF NewTold
      <3> QED
        BY <3>1 DEF SettingsTold, Extended
    <2>11. ASSUME NEW b, NEW i, Told(b, i, E, 0)'
           PROVE  Logs(b)'[i].val = b
      <3>1. CASE Told(b, i, E, 0)
        BY <3>1 DEF SettingsTold, Extended
      <3>2. CASE ~Told(b, i, E, 0)
        <4>1. b = h /\ NewTold(ev, i, E, 0) /\ Logs(b)' = ev
          BY <2>11, <3>2 DEF Extended
        <4>2. i = 1 /\ e.kind = "FeesUpdated"
          BY <2>1, <4>1 DEF NewTold
        <4> QED
          BY <2>1, <2>2, <4>1, <4>2 DEF SettingBlock, Extended
      <3> QED
        BY <3>1, <3>2
    <2> QED
      BY <2>4, <2>5, <2>6, <2>7, <2>8, <2>9, <2>10, <2>11 DEF SettingsTold
  <1> QED
    BY <1>1, <1>2 DEF SettingPart

\* One event on the position, as PositionChange has it.
LEMMA PositionKept ==
    ASSUME NEW p, PositionTold(p), NEW ev, NEW h, Extended(ev, h), NEW state,
           onchain' = state, NEW n, NewTold(ev, n, PlaceKinds, p),
           \A i \in 1..Len(ev) : ev[i].kind \in PlaceKinds => i = n,
           PositionChange(ev[n], onchain.pos[p], state.pos[p]),
           \A b, i : /\ ~(onchain.pos[p].status = "open" /\ Told(b, i, {"Liquidation"}, p))
    PROVE  PositionTold(p)'
  <1> DEFINE e == ev[n]
             old == onchain.pos[p]
             row == state.pos[p]
  <1>1. /\ e.id = p /\ e.kind \in PlaceKinds /\ PositionChange(e, old, row)
        /\ n \in 1..Len(ev)
    BY DEF NewTold
  <1>2. /\ old.status = "none" => old.size = 0 /\ Silent(PlaceKinds, p)
        /\ old.status # "none" => Spoken({"PositionOpened"}, p)
        /\ \/ old.status = "none" \/ LastWrite(SizeKinds, p, old.size)
           \/ Spoken({"PartiallyClosed", "Deleveraged"}, p)
        /\ First({"PositionOpened"}, PlaceKinds, p)
        /\ First({"Liquidation"}, {"Liquidation"}, p)
    BY DEF PositionTold
  <1> HIDE DEF e, old, row
  <1>3. \A K : e.kind \in K => NewTold(ev, n, K, p) /\ Spoken(K, p)'
    <2> SUFFICES ASSUME NEW K, e.kind \in K PROVE NewTold(ev, n, K, p) /\ Spoken(K, p)'
      OBVIOUS
    <2>1. NewTold(ev, n, K, p)
      BY <1>1 DEF NewTold, e
    <2> QED
      BY <2>1, SpokenGrows DEF QuietOn
  <1>4. \A K : K \subseteq PlaceKinds /\ e.kind \notin K => QuietOn(ev, K, p)
    BY DEF QuietOn, NewTold, e
  <1>5. row.status # "none"
    BY <1>1 DEF PositionChange
  <1>6. Spoken({"PositionOpened"}, p)'
    <2>1. CASE e.kind = "PositionOpened"
      BY <1>3, <2>1
    <2>2. CASE e.kind # "PositionOpened"
      BY <1>1, <1>2, <2>2, SpokenGrows DEF PositionChange
    <2> QED
      BY <2>1, <2>2
  <1>7. /\ row.status = "closed" => Spoken({"PositionClosed"}, p)'
        /\ row.status = "liquidated" => Spoken({"Liquidation"}, p)'
    BY <1>1, <1>3 DEF PositionChange
  <1>8. LastWrite(SizeKinds, p, row.size)' \/ Spoken({"PartiallyClosed", "Deleveraged"}, p)'
    <2>1. CASE e.kind \in SizeKinds
      <3>1. row.size = ValueIn(e)
        BY <1>1, <2>1 DEF PositionChange, SizeKinds, ValueIn
      <3>2. NewTold(ev, n, SizeKinds, p)
        BY <1>3, <2>1
      <3> QED
        BY <3>1, <3>2, LastWriteNew DEF e
    <2>2. CASE e.kind \in {"PartiallyClosed", "Deleveraged"}
      BY <1>3, <2>2
    <2>3. CASE e.kind \in {"PositionClosed", "Liquidation"}
      <3>1. row.size = old.size /\ old.status = "open"
        BY <1>1, <2>3 DEF PositionChange
      <3>2. QuietOn(ev, SizeKinds, p)
        BY <1>4, <2>3 DEF SizeKinds, PlaceKinds, PositionKinds
      <3> QED
        BY <1>2, <3>1, <3>2, LastWriteKept, SpokenGrows
    <2> QED
      BY <1>1, <2>1, <2>2, <2>3 DEF PlaceKinds, PositionKinds, SizeKinds
  <1>9. First({"PositionOpened"}, PlaceKinds, p)'
    <2>1. CASE e.kind = "PositionOpened"
      <3>1. Silent(PlaceKinds, p)
        BY <1>1, <1>2, <2>1 DEF PositionChange
      <3> QED
        BY <1>2, <3>1, FirstKept
    <2>2. CASE e.kind # "PositionOpened"
      <3>1. QuietOn(ev, {"PositionOpened"}, p)
        BY <1>4, <2>2 DEF PlaceKinds, PositionKinds
      <3> QED
        BY <1>2, <3>1, FirstKept
    <2> QED
      BY <2>1, <2>2
  <1>10. First({"Liquidation"}, {"Liquidation"}, p)'
    <2>1. CASE e.kind = "Liquidation"
      <3>1. old.status = "open"
        BY <1>1, <2>1 DEF PositionChange
      <3>2. Silent({"Liquidation"}, p)
        BY <3>1 DEF Silent, old
      <3> QED
        BY <1>2, <3>2, FirstKept
    <2>2. CASE e.kind # "Liquidation"
      <3>1. QuietOn(ev, {"Liquidation"}, p)
        BY <1>4, <2>2 DEF PlaceKinds
      <3> QED
        BY <1>2, <3>1, FirstKept
    <2> QED
      BY <2>1, <2>2
  <1> QED
    BY <1>5, <1>6, <1>7, <1>8, <1>9, <1>10 DEF PositionTold, row

LEMMA PositionQuiet ==
    ASSUME NEW p, PositionTold(p), NEW ev, NEW h, Extended(ev, h), NEW state,
           onchain' = state, QuietOn(ev, PlaceKinds, p), state.pos[p] = onchain.pos[p]
    PROVE  PositionTold(p)'
  <1> DEFINE row == state.pos[p]
  <1>1. /\ row.status = "none" => row.size = 0 /\ Silent(PlaceKinds, p)
        /\ row.status # "none" => Spoken({"PositionOpened"}, p)
        /\ row.status = "closed" => Spoken({"PositionClosed"}, p)
        /\ row.status = "liquidated" => Spoken({"Liquidation"}, p)
        /\ \/ row.status = "none" \/ LastWrite(SizeKinds, p, row.size)
           \/ Spoken({"PartiallyClosed", "Deleveraged"}, p)
        /\ First({"PositionOpened"}, PlaceKinds, p)
        /\ First({"Liquidation"}, {"Liquidation"}, p)
    BY DEF PositionTold
  <1> HIDE DEF row
  <1>2. QuietOn(ev, SizeKinds, p) /\ QuietOn(ev, {"PositionOpened"}, p)
        /\ QuietOn(ev, {"Liquidation"}, p)
    BY DEF QuietOn, NewTold, SizeKinds, PlaceKinds, PositionKinds
  <1>3. First({"PositionOpened"}, PlaceKinds, p)' /\ First({"Liquidation"}, {"Liquidation"}, p)'
    BY <1>1, <1>2, FirstKept
  <1>4. \A K : Spoken(K, p) => Spoken(K, p)'
    BY SpokenGrows
  <1>5. Silent(PlaceKinds, p) => Silent(PlaceKinds, p)'
    BY SpokenGrows
  <1>6. LastWrite(SizeKinds, p, row.size) => LastWrite(SizeKinds, p, row.size)'
    BY <1>2, LastWriteKept
  <1> QED
    BY <1>1, <1>3, <1>4, <1>5, <1>6 DEF PositionTold, row

\* The first of two kinds is told in an earlier block than the others.
Before(F, K, id) ==
    \A b, i, c, j : Told(b, i, F, id) /\ Told(c, j, K, id) => b < c
Ends == {"OrderExecuted", "OrderCancelled"}

LEMMA OrderKept ==
    ASSUME NEW o, OrderTold(o), NEW ev, NEW h, Extended(ev, h), NEW state,
           onchain' = state,
           \/ QuietOn(ev, OrderKinds, o) /\ state.ord[o] = onchain.ord[o]
           \/ \E n : /\ NewTold(ev, n, OrderKinds, o)
                     /\ OrderChange(ev[n], onchain.ord[o], state.ord[o])
                     /\ \A i \in 1..Len(ev) : ev[i].kind \in OrderKinds => i = n
    PROVE  OrderTold(o)'
  <1> DEFINE old == onchain.ord[o]
             new == state.ord[o]
  <1>1. /\ old = "none" => Silent(OrderKinds, o)
        /\ old # "none" => Spoken({"OrderPlaced"}, o)
        /\ old = "executed" => Spoken({"OrderExecuted"}, o)
        /\ old = "cancelled" => Spoken({"OrderCancelled"}, o)
        /\ Before({"OrderPlaced"}, Ends, o)
    BY DEF OrderTold, Before, Ends
  <1>2. SUFFICES /\ new = "none" => Silent(OrderKinds, o)'
                 /\ new # "none" => Spoken({"OrderPlaced"}, o)'
                 /\ new = "executed" => Spoken({"OrderExecuted"}, o)'
                 /\ new = "cancelled" => Spoken({"OrderCancelled"}, o)'
                 /\ Before({"OrderPlaced"}, Ends, o)'
    BY DEF OrderTold, Before, Ends
  <1> HIDE DEF old
  <1>3. \A K : Spoken(K, o) => Spoken(K, o)'
    BY SpokenGrows
  <1>4. CASE QuietOn(ev, OrderKinds, o) /\ new = old
    <2>1. QuietOn(ev, {"OrderPlaced"}, o) /\ QuietOn(ev, Ends, o)
      BY <1>4 DEF QuietOn, NewTold, OrderKinds, Ends
    <2>2. Before({"OrderPlaced"}, Ends, o)'
      BY <1>1, <2>1 DEF Before, QuietOn, Extended
    <2>3. old = "none" => Silent(OrderKinds, o)'
      BY <1>1, <1>4, SpokenGrows
    <2> QED
      BY <1>1, <1>3, <1>4, <2>2, <2>3
  <1>5. ASSUME NEW n, NewTold(ev, n, OrderKinds, o), OrderChange(ev[n], old, new),
               \A i \in 1..Len(ev) : ev[i].kind \in OrderKinds => i = n
        PROVE  /\ new # "none" /\ Spoken({"OrderPlaced"}, o)'
               /\ new = "executed" => Spoken({"OrderExecuted"}, o)'
               /\ new = "cancelled" => Spoken({"OrderCancelled"}, o)'
               /\ Before({"OrderPlaced"}, Ends, o)'
    <2>1. \A K : ev[n].kind \in K => Spoken(K, o)'
      <3> SUFFICES ASSUME NEW K, ev[n].kind \in K PROVE Spoken(K, o)'
        OBVIOUS
      <3>1. NewTold(ev, n, K, o)
        BY <1>5 DEF NewTold
      <3> QED
        BY <3>1, SpokenGrows DEF QuietOn
    <2>2. new # "none"
      BY <1>5 DEF OrderChange
    <2>3. Spoken({"OrderPlaced"}, o)'
      BY <1>1, <1>3, <1>5, <2>1 DEF OrderChange
    <2>4. /\ new = "executed" => Spoken({"OrderExecuted"}, o)'
          /\ new = "cancelled" => Spoken({"OrderCancelled"}, o)'
      BY <1>5, <2>1 DEF OrderChange
    <2>5. Before({"OrderPlaced"}, Ends, o)'
      <3> SUFFICES ASSUME NEW b, NEW i, NEW c, NEW j,
                          Told(b, i, {"OrderPlaced"}, o)', Told(c, j, Ends, o)'
                   PROVE  b < c
        BY DEF Before
      <3>1. CASE ev[n].kind = "OrderPlaced"
        <4>1. QuietOn(ev, Ends, o)
          BY <1>5, <3>1 DEF QuietOn, NewTold, Ends, OrderKinds
        <4>2. Silent(OrderKinds, o)
          BY <1>1, <1>5, <3>1 DEF OrderChange
        <4>3. Told(c, j, Ends, o)
          BY <4>1 DEF Extended, QuietOn
        <4>4. Told(c, j, OrderKinds, o)
          BY <4>3 DEF Told, Ends, OrderKinds
        <4> QED
          BY <4>2, <4>4 DEF Silent
      <3>2. CASE ev[n].kind # "OrderPlaced"
        <4>1. QuietOn(ev, {"OrderPlaced"}, o)
          BY <1>5, <3>2 DEF QuietOn, NewTold, OrderKinds
        <4>2. Told(b, i, {"OrderPlaced"}, o) /\ b \in 1..ChainHead
          BY <4>1 DEF Extended, QuietOn
        <4>3. CASE Told(c, j, Ends, o)
          BY <1>1, <4>2, <4>3 DEF Before
        <4>4. CASE ~Told(c, j, Ends, o)
          <5>1. c = h
            BY <4>4 DEF Extended
          <5> QED
            BY <4>2, <5>1 DEF Extended
        <4> QED
          BY <4>3, <4>4
      <3> QED
        BY <3>1, <3>2
    <2> QED
      BY <2>2, <2>3, <2>4, <2>5
  <1> QED
    BY <1>4, <1>5 DEF old

LEMMA ChainToldKept ==
    ASSUME IInv, TablesInv, ChainTold, ChainNext
    PROVE  /\ ChainTold'
           /\ \E ev, h : Extended(ev, h)
  <1>1. onchain \in OnchainStates
    BY DEF TablesInv, LogsTrue
  <1>2. PICK logs, state : Mine(logs, state) /\ Block(logs.diamond, state)
    BY <1>1, ChainMined DEF Mined
  <1>3. PICK ev : ev = logs.diamond
    OBVIOUS
  <1>4. PICK h : h = ChainHead + 1
    OBVIOUS
  <1>5. Extended(ev, h)
    BY <1>2, <1>3, <1>4, LogExtends DEF IInv
  <1>6. onchain' = state
    BY <1>2 DEF Mine
  <1>7. SettingPart(ev, state) /\ PositionPart(ev, state) /\ OrderPart(ev, state)
    BY <1>2, <1>3 DEF Block
  <1>8. SettingsTold'
    BY <1>1, <1>5, <1>6, <1>7, SettingsKept DEF ChainTold
  <1>9. \A b \in 1..(StartBlock - 1) : Logs(b)' = <<>>
    <2>1. \A b \in 1..(StartBlock - 1) : b \in 1..ChainHead
      BY <1>5, BlockAssumption DEF Extended, IInv, MarkInv
    <2> QED
      BY <1>5, <2>1 DEF Extended, ChainTold
  <1>10. ASSUME NEW p \in Positions
         PROVE  PositionTold(p)'
    <2>1. PositionTold(p)
      BY DEF ChainTold
    <2>2. CASE /\ state.pos = onchain.pos
               /\ \A i \in 1..Len(ev) : ev[i].kind \notin PlaceKinds
      <3>1. QuietOn(ev, PlaceKinds, p)
        BY <2>2 DEF QuietOn, NewTold
      <3> QED
        BY <1>5, <1>6, <2>1, <2>2, <3>1, PositionQuiet
    <2>3. ASSUME NEW q \in Positions, NEW row, NEW n,
                 state.pos = [onchain.pos EXCEPT ![q] = row],
                 n \in 1..Len(ev), ev[n].id = q, PositionChange(ev[n], onchain.pos[q], row),
                 \A i \in 1..Len(ev) : ev[i].kind \in PlaceKinds => i = n
          PROVE  PositionTold(p)'
      <3>1. CASE q # p
        <4>1. QuietOn(ev, PlaceKinds, p) /\ state.pos[p] = onchain.pos[p]
          BY <1>1, <2>3, <3>1 DEF QuietOn, NewTold, OnchainStates
        <4> QED
          BY <1>5, <1>6, <2>1, <4>1, PositionQuiet
      <3>2. CASE q = p
        <4>1. state.pos[p] = row
          BY <1>1, <2>3, <3>2 DEF OnchainStates
        <4>2. ev[n].kind \in PlaceKinds
          BY <2>3 DEF PositionChange, PlaceKinds, PositionKinds
        <4>3. NewTold(ev, n, PlaceKinds, p)
          BY <2>3, <3>2, <4>2 DEF NewTold
        <4>4. \A b, i : ~(onchain.pos[p].status = "open" /\ Told(b, i, {"Liquidation"}, p))
          BY DEF TablesInv, LogsTrue, GoodLogs, TrueOf, Told
        <4>5. PositionChange(ev[n], onchain.pos[p], state.pos[p])
          BY <2>3, <3>2, <4>1
        <4> QED
          BY <1>5, <1>6, <2>1, <2>3, <4>3, <4>4, <4>5, PositionKept
      <3> QED
        BY <3>1, <3>2
    <2> QED
      BY <1>7, <2>2, <2>3 DEF PositionPart
  <1>11. ASSUME NEW o \in Orders
         PROVE  OrderTold(o)'
    <2>1. OrderTold(o)
      BY DEF ChainTold
    <2>2. CASE /\ state.ord = onchain.ord
               /\ \A i \in 1..Len(ev) : ev[i].kind \notin OrderKinds
      <3>1. QuietOn(ev, OrderKinds, o)
        BY <2>2 DEF QuietOn, NewTold
      <3> QED
        BY <1>5, <1>6, <2>1, <2>2, <3>1, OrderKept
    <2>3. ASSUME NEW q \in Orders, NEW status, NEW n,
                 state.ord = [onchain.ord EXCEPT ![q] = status],
                 n \in 1..Len(ev), ev[n].id = q, OrderChange(ev[n], onchain.ord[q], status),
                 \A i \in 1..Len(ev) : ev[i].kind \in OrderKinds => i = n
          PROVE  OrderTold(o)'
      <3>1. CASE q # o
        <4>1. QuietOn(ev, OrderKinds, o) /\ state.ord[o] = onchain.ord[o]
          BY <1>1, <2>3, <3>1 DEF QuietOn, NewTold, OnchainStates
        <4> QED
          BY <1>5, <1>6, <2>1, <4>1, OrderKept
      <3>2. CASE q = o
        <4>1. state.ord[o] = status
          BY <1>1, <2>3, <3>2 DEF OnchainStates
        <4>2. ev[n].kind \in OrderKinds
          BY <2>3 DEF OrderChange, OrderKinds
        <4>3. NewTold(ev, n, OrderKinds, o)
          BY <2>3, <3>2, <4>2 DEF NewTold
        <4>4. OrderChange(ev[n], onchain.ord[o], state.ord[o])
          BY <2>3, <3>2, <4>1
        <4> QED
          BY <1>5, <1>6, <2>1, <2>3, <4>3, <4>4, OrderKept
      <3> QED
        BY <3>1, <3>2
    <2> QED
      BY <1>7, <2>2, <2>3 DEF OrderPart
  <1>12. OrdersApart'
    <2>1. \A i, j, o, q : NewTold(ev, i, OrderKinds, o) /\ NewTold(ev, j, OrderKinds, q) => i = j
      BY <1>7 DEF OrderPart, NewTold
    <2> QED
      BY <1>5, <2>1 DEF ChainTold, OrdersApart, Extended
  <1> QED
    BY <1>5, <1>8, <1>9, <1>10, <1>11, <1>12 DEF ChainTold

LEMMA InitTold == Init => ChainTold /\ TablesShown
  <1> SUFFICES ASSUME Init PROVE ChainTold /\ TablesShown
    OBVIOUS
  <1>1. ChainHead = StartBlock - 1 /\ StartBlock \in Nat \ {0}
    BY InitIInv, BlockAssumption
  <1>2. \A b \in 1..ChainHead : Logs(b) = <<>>
    BY <1>1 DEF Init, ChainInit, Logs, NoLogs, Logged
  <1>3. \A b, i, K, id : ~Told(b, i, K, id)
    BY <1>2 DEF Told
  <1>4. /\ \A K, id : Silent(K, id)
        /\ \A F, K, id : First(F, K, id)
    BY <1>3 DEF Silent, First
  <1>5. SettingsTold
    BY <1>3, <1>4 DEF SettingsTold, SettingTold, PricesTold, Init, ChainInit
  <1>6. ASSUME NEW p \in Positions
        PROVE  PositionTold(p)
    BY <1>4 DEF PositionTold, Init, ChainInit, NoPosition
  <1>7. ASSUME NEW o \in Orders
        PROVE  OrderTold(o)
    BY <1>3, <1>4 DEF OrderTold, Init, ChainInit
  <1>8. ChainTold
    BY <1>1, <1>2, <1>3, <1>5, <1>6, <1>7 DEF ChainTold, OrdersApart
  <1>9. \A b, i, s, K, id : ~Shown(b, i, s, K, id)
    BY <1>3 DEF Shown
  <1>10. SettingsShown
    BY <1>9 DEF SettingsShown, Shows, Init, EmptyTables
  <1>11. LiquidationsShown
    <2>1. DOMAIN db.rows = {}
      BY DEF Init, EmptyTables, NoHistory, EmptyBag, SetToBag
    <2> QED
      BY <1>9, <2>1 DEF LiquidationsShown
  <1>12. ASSUME NEW p \in Positions
         PROVE  PositionShown(p)
    BY <1>9 DEF PositionShown, Shows, Init, EmptyTables, NoRow
  <1>13. ASSUME NEW o \in Orders
         PROVE  OrderShown(o)
    BY <1>9 DEF OrderShown, Init, EmptyTables
  <1> QED
    BY <1>8, <1>10, <1>11, <1>12, <1>13 DEF TablesShown

-----------------------------------------------------------------------------
(* What a step shows the tables.                                           *)

\* The statements the tables' facts rest on: the first of a handler, and the
\* second of a liquidation.
KeyOf(s, K) == s = 1 \/ (s = 2 /\ K = {"Liquidation"})

\* No event is shown anew.
ShowsNothing ==
    \A b, i, s, K, id : Shown(b, i, s, K, id)' /\ KeyOf(s, K) => Shown(b, i, s, K, id)

\* The log is the same, or longer.
Longer ==
    \A b, i, K, id : Told(b, i, K, id) =>
       /\ Told(b, i, K, id)'
       /\ ValueIn(Logs(b)[i])' = ValueIn(Logs(b)[i])

\* Nothing was shown of what is behind the cursor.
LEMMA ShownBehind ==
    ASSUME IInv, InBatch, NEW b, NEW i, NEW s, NEW K, NEW id, Shown(b, i, s, K, id)
    PROVE  b <= scan.at
  <1>1. b \in Nat /\ scan.at \in Nat /\ lastIndexed \in Nat /\ lastIndexed < scan.at
    <2>1. scan # NoScan
      BY DEF InBatch
    <2> QED
      BY <2>1, BatchOnChain DEF Shown, Told
  <1> QED
    BY <1>1 DEF Shown, Done

LEMMA ChainShows ==
    ASSUME IInv, NEW ev, NEW h, Extended(ev, h), UNCHANGED indexerVars
    PROVE  ShowsNothing /\ Longer
  <1>1. UNCHANGED <<scan, lastIndexed, lost>> /\ InBatch' = InBatch
    BY DEF indexerVars, InBatch
  <1>2. \A b, i, s : Done(b, i, s)' = Done(b, i, s)
    BY <1>1 DEF Done
  <1>3. \A i, s : ~Done(h, i, s)
    <2>1. h > ChainHead /\ lastIndexed \in 0..ChainHead /\ ChainHead \in Nat /\ h \in Nat
      BY DEF Extended, IInv, MarkInv
    <2>2. scan # NoScan => scan.at \in Nat /\ scan.at <= h
      BY BatchOnChain DEF Extended
    <2>3. InBatch => scan.at < h
      BY BatchOnChain DEF InBatch, Extended
    <2> QED
      BY <2>1, <2>2, <2>3 DEF Done
  <1>4. ShowsNothing
    BY <1>2, <1>3 DEF ShowsNothing, Shown, Extended
  <1>5. Longer
    BY DEF Longer, Extended
  <1> QED
    BY <1>4, <1>5

\* Which statement of which event writes what.
Table(kind, s, stmt) ==
    /\ stmt = "insertNullTrade" => kind = "PositionModified" /\ s = 2
    /\ stmt = "insertPosition" <=> kind = "PositionOpened" /\ s = 1
    /\ stmt = "updatePositionModified" <=> kind = "PositionModified" /\ s = 1
    /\ stmt = "closePosition" <=> kind = "PositionClosed" /\ s = 1
    /\ stmt = "insertLiquidation" <=> kind = "Liquidation" /\ s = 1
    /\ stmt = "liquidatePosition" <=> kind = "Liquidation" /\ s = 2
    /\ stmt = "insertOrder" <=> kind = "OrderPlaced" /\ s = 1
    /\ stmt = "executeOrder" <=> kind = "OrderExecuted" /\ s = 1
    /\ stmt = "cancelOrder" <=> kind = "OrderCancelled" /\ s = 1
    /\ stmt = "insertPriceUpdates" <=> kind = "PricesUpdated" /\ s = 1
    /\ stmt = "upsertFeeConfig" <=> kind = "FeesUpdated" /\ s = 1
    /\ stmt = "upsertMarket" <=> kind = "MarketCreated" /\ s = 1
    /\ stmt = "enableMarket" <=> kind = "MarketEnabled" /\ s = 1
    /\ stmt = "disableMarket" <=> kind = "MarketDisabled" /\ s = 1
    /\ stmt = "upsertCollateralToken" <=> kind = "CollateralAdded" /\ s = 1
    /\ stmt = "removeCollateralToken" <=> kind = "CollateralRemoved" /\ s = 1
    /\ stmt = "insertUserVault" <=> kind = "VaultCreated" /\ s = 1

LEMMA TableOfStatements ==
    ASSUME NEW kind \in EventKinds, NEW s \in 1..Len(Statements(kind))
    PROVE  /\ Table(kind, s, Statements(kind)[s])
           /\ kind = "Liquidation" => Len(Statements(kind)) = 3
  <1>1. CASE kind \in PositionKinds
    <2>1. Statements(kind) = PositionStatements(kind)
      BY <1>1 DEF Statements
    <2>2. CASE kind = "PositionOpened"
      <3>1. Statements(kind) = <<"insertPosition", "insertTrade">>
        BY <2>1, <2>2 DEF PositionStatements
      <3>2. s = 1 \/ s = 2
        BY <3>1
      <3> QED
        BY <2>2, <3>1, <3>2 DEF Table
    <2>3. CASE kind = "PositionModified"
      <3>1. Statements(kind) = <<"updatePositionModified", "insertNullTrade">>
        BY <2>1, <2>3 DEF PositionStatements
      <3>2. s = 1 \/ s = 2
        BY <3>1
      <3> QED
        BY <2>3, <3>1, <3>2 DEF Table
    <2>4. CASE kind = "PartiallyClosed"
      <3>1. Statements(kind) = <<"insertTrade">>
        BY <2>1, <2>4 DEF PositionStatements
      <3>2. s = 1
        BY <3>1
      <3> QED
        BY <2>4, <3>1, <3>2 DEF Table
    <2>5. CASE kind = "PositionClosed"
      <3>1. Statements(kind) = <<"closePosition", "insertTrade">>
        BY <2>1, <2>5 DEF PositionStatements
      <3>2. s = 1 \/ s = 2
        BY <3>1
      <3> QED
        BY <2>5, <3>1, <3>2 DEF Table
    <2> QED
      BY <1>1, <2>2, <2>3, <2>4, <2>5 DEF PositionKinds
  <1>2. CASE kind = "Liquidation"
    <2>1. Statements(kind) = <<"insertLiquidation", "liquidatePosition", "insertTrade">>
      BY <1>2 DEF Statements, LiquidationStatements, PositionKinds
    <2>2. s = 1 \/ s = 2 \/ s = 3
      BY <2>1
    <2> QED
      BY <1>2, <2>1, <2>2 DEF Table
  <1>3. CASE kind \in OrderKinds
    <2>1. Statements(kind) = OrderStatements(kind)
      BY <1>3 DEF Statements, PositionKinds, OrderKinds
    <2>2. Len(Statements(kind)) = 1
      BY <1>3, <2>1 DEF OrderStatements, OrderKinds
    <2>3. s = 1
      BY <2>2
    <2> QED
      BY <1>3, <2>1, <2>3 DEF OrderStatements, OrderKinds, Table
  <1>4. CASE kind \in SettingKinds
    <2>1. Statements(kind) = SettingStatements(kind)
      BY <1>4 DEF Statements, PositionKinds, OrderKinds, SettingKinds
    <2>2. Len(Statements(kind)) = 1
      BY <1>4, <2>1 DEF SettingStatements, SettingKinds
    <2>3. s = 1
      BY <2>2
    <2> QED
      BY <1>4, <2>1, <2>3 DEF SettingStatements, SettingKinds, Table
  <1>5. CASE kind \in {"Deleveraged", "KeeperCycle", "ProtocolEvent"}
    <2>1. Statements(kind) \in {<<"insertProtocolEvent">>, <<"insertKeeperCycle">>}
      BY <1>5 DEF Statements, RecordStatements, CycleStatements, PositionKinds, OrderKinds,
                  SettingKinds, AccountKinds
    <2>2. Len(Statements(kind)) = 1
      BY <2>1
    <2>3. s = 1
      BY <2>2
    <2>4. Statements(kind)[s] \in {"insertProtocolEvent", "insertKeeperCycle"}
      BY <2>1, <2>3
    <2> QED
      BY <1>5, <2>3, <2>4 DEF Table
  <1> QED
    BY <1>1, <1>2, <1>3, <1>4, <1>5 DEF EventKinds

LEMMA SameLog ==
    ASSUME UNCHANGED chainVars
    PROVE  /\ Longer /\ ChainHead' = ChainHead
           /\ \A b : Logs(b)' = Logs(b)
           /\ \A b, i, K, id : Told(b, i, K, id)' <=> Told(b, i, K, id)
  <1>1. ChainHead' = ChainHead /\ \A b : Logs(b)' = Logs(b)
    BY DEF chainVars, ChainHead, Logs
  <1>2. \A b, i, K, id : Told(b, i, K, id)' <=> Told(b, i, K, id)
    BY <1>1 DEF Told
  <1> QED
    BY <1>1, <1>2 DEF Longer

\* The event the cursor stands at.
LEMMA CurrentTold ==
    ASSUME IInv, TablesInv, InBlock
    PROVE  /\ \A K, id : Told(scan.at, scan.event, K, id) <=> Current.kind \in K /\ Current.id = id
           /\ Current = Logs(scan.at)[scan.event]
           /\ Current.kind \in EventKinds
           /\ Table(Current.kind, scan.stmt, Todo[scan.stmt])
           /\ scan.stmt \in 1..Len(Todo) /\ Len(Todo) \in Nat
           /\ Current.kind = "Liquidation" => Len(Todo) = 3
           /\ scan \in Cursor /\ scan # NoScan
           /\ scan.at \in Nat /\ scan.event \in Nat \ {0} /\ scan.at <= scan.to /\ scan.to \in Nat
  <1>1. scan # NoScan /\ InBatch /\ scan.at <= scan.to
    BY DEF InBlock, InBatch
  <1>2. /\ scan \in Cursor /\ scan.at \in 1..ChainHead /\ scan.at \in Nat /\ scan.to \in Nat
    BY <1>1, BatchOnChain
  <1>3. /\ scan.event \in 1..Len(Logs(scan.at)) /\ Len(Logs(scan.at)) \in Nat
        /\ Current \in EventRecords /\ Handler(Current.kind, Todo)
        /\ scan.stmt \in 1..Len(Todo)
    BY CurrentEvent
  <1>4. Current.kind \in EventKinds /\ Len(Todo) \in Nat
    BY <1>3 DEF EventRecords, Handler
  <1>5. /\ Table(Current.kind, scan.stmt, Todo[scan.stmt])
        /\ Current.kind = "Liquidation" => Len(Todo) = 3
    <2>1. PICK kind : kind = Current.kind
      OBVIOUS
    <2>2. Todo = Statements(kind)
      BY <2>1 DEF Todo
    <2> QED
      BY <1>3, <1>4, <2>1, <2>2, TableOfStatements
  <1>6. \A K, id : Told(scan.at, scan.event, K, id) <=> Current.kind \in K /\ Current.id = id
    BY <1>2, <1>3 DEF Told, Current
  <1> QED
    BY <1>1, <1>2, <1>3, <1>4, <1>5, <1>6 DEF Current

LEMMA MovedCursor ==
    ASSUME scan \in Cursor, scan # NoScan, scan.event \in Nat \ {0}
    PROVE  /\ scan' = NextEvent =>
                /\ scan' # NoScan /\ scan'.at = scan.at /\ scan'.to = scan.to
                /\ scan'.event = scan.event + 1 /\ scan'.stmt = 1
           /\ scan' = NextStatement =>
                /\ scan' # NoScan /\ scan'.at = scan.at /\ scan'.to = scan.to
                /\ scan'.event = scan.event /\ scan'.stmt = scan.stmt + 1
  <1>1. scan' = NextEvent => /\ scan'.at = scan.at /\ scan'.to = scan.to
                             /\ scan'.event = scan.event + 1 /\ scan'.stmt = 1
    BY DEF NextEvent, Cursor
  <1>2. scan' = NextStatement => /\ scan'.at = scan.at /\ scan'.to = scan.to
                                 /\ scan'.event = scan.event /\ scan'.stmt = scan.stmt + 1
    BY DEF NextStatement, Cursor
  <1> QED
    BY <1>1, <1>2 DEF NoScan

\* A statement shows the event it belongs to, and no other.
ShowsCurrent ==
    \A b, i, s, K, id : Shown(b, i, s, K, id)' /\ KeyOf(s, K) =>
       \/ Shown(b, i, s, K, id)
       \/ /\ b = scan.at /\ i = scan.event /\ s = scan.stmt
          /\ Current.kind \in K /\ Current.id = id

LEMMA ExecuteShows ==
    ASSUME IInv, TablesInv, Execute
    PROVE  ShowsCurrent /\ Longer
  <1>1. /\ InBlock /\ UNCHANGED <<chainVars, lastIndexed>>
        /\ \/ scan.stmt = Len(Todo) /\ scan' = NextEvent /\ lost' = lost \ {Place}
           \/ scan.stmt # Len(Todo) /\ scan' = NextStatement /\ lost' = lost
    BY DEF Execute
  <1>2. /\ \A K, id : Told(scan.at, scan.event, K, id) <=> Current.kind \in K /\ Current.id = id
        /\ scan.stmt \in 1..Len(Todo) /\ Len(Todo) \in Nat
        /\ Current.kind = "Liquidation" => Len(Todo) = 3
        /\ scan \in Cursor /\ scan # NoScan
        /\ scan.at \in Nat /\ scan.event \in Nat \ {0} /\ scan.at <= scan.to
    BY <1>1, CurrentTold
  <1>3. Longer /\ \A b, i, K, id : Told(b, i, K, id)' <=> Told(b, i, K, id)
    BY <1>1, SameLog
  <1>4. InBatch
    BY <1>2 DEF InBatch
  <1> SUFFICES ASSUME NEW b, NEW i, NEW s, NEW K, NEW id,
                      Shown(b, i, s, K, id)', KeyOf(s, K), ~Shown(b, i, s, K, id)
               PROVE  /\ b = scan.at /\ i = scan.event /\ s = scan.stmt
                      /\ Current.kind \in K /\ Current.id = id
    BY <1>3 DEF ShowsCurrent
  <1>5. Told(b, i, K, id) /\ Done(b, i, s)' /\ ~Done(b, i, s)
    BY <1>3 DEF Shown
  <1>6. b \in Nat /\ i \in Nat
    BY <1>5 DEF Told
  <1>7. CASE scan.stmt = Len(Todo) /\ scan' = NextEvent /\ lost' = lost \ {Place}
    <2>1. /\ scan' # NoScan /\ scan'.at = scan.at /\ scan'.to = scan.to
          /\ scan'.event = scan.event + 1 /\ scan'.stmt = 1
      BY <1>2, <1>7, MovedCursor
    <2>2. \/ /\ b <= lastIndexed \/ b < scan.at \/ (b = scan.at /\ i < scan.event + 1)
             /\ <<b, i>> \notin lost \ {<<scan.at, scan.event>>}
          \/ b = scan.at /\ i = scan.event + 1 /\ s < 1
      BY <1>1, <1>5, <1>7, <2>1 DEF Done, InBatch, Place
    <2>3. s = 1 \/ (s = 2 /\ K = {"Liquidation"})
      BY DEF KeyOf
    <2>4. b = scan.at /\ i = scan.event
      <3>1. CASE <<b, i>> = <<scan.at, scan.event>>
        BY <3>1
      <3>2. CASE <<b, i>> # <<scan.at, scan.event>>
        <4>1. b # scan.at \/ i # scan.event
          BY <3>2
        <4>2. <<b, i>> \notin lost /\ (b <= lastIndexed \/ b < scan.at \/ (b = scan.at /\ i < scan.event))
          BY <1>2, <1>6, <2>2, <2>3, <3>2, <4>1
        <4> QED
          BY <1>2, <1>4, <1>5, <4>2 DEF Done
      <3> QED
        BY <3>1, <3>2
    <2>5. Current.kind \in K /\ Current.id = id
      BY <1>2, <1>5, <2>4
    <2>6. ~(s < scan.stmt)
      BY <1>4, <1>5, <2>4 DEF Done
    <2>7. s = scan.stmt
      BY <1>2, <1>7, <2>3, <2>5, <2>6
    <2> QED
      BY <2>4, <2>5, <2>7
  <1>8. CASE scan.stmt # Len(Todo) /\ scan' = NextStatement /\ lost' = lost
    <2>1. /\ scan' # NoScan /\ scan'.at = scan.at /\ scan'.to = scan.to
          /\ scan'.event = scan.event /\ scan'.stmt = scan.stmt + 1
      BY <1>2, <1>8, MovedCursor
    <2>2. b = scan.at /\ i = scan.event /\ s < scan.stmt + 1 /\ ~(s < scan.stmt)
      BY <1>1, <1>2, <1>4, <1>5, <1>8, <2>1 DEF Done, InBatch
    <2>3. s = scan.stmt
      BY <1>2, <2>2 DEF KeyOf
    <2> QED
      BY <1>2, <1>5, <2>2, <2>3
  <1> QED
    BY <1>1, <1>7, <1>8

LEMMA SkipShows ==
    ASSUME IInv, TablesInv, Fail \/ Refuse
    PROVE  ShowsNothing /\ Longer
  <1>1. /\ InBlock /\ UNCHANGED <<chainVars, lastIndexed>> /\ scan' = NextEvent
        /\ \/ lost' = lost \cup {Place}
           \/ lost' = lost /\ Todo[scan.stmt] = "insertNullTrade"
    BY DEF Fail, Refuse, Refused
  <1>2. /\ \A K, id : Told(scan.at, scan.event, K, id) <=> Current.kind \in K /\ Current.id = id
        /\ Table(Current.kind, scan.stmt, Todo[scan.stmt])
        /\ scan \in Cursor /\ scan # NoScan
        /\ scan.at \in Nat /\ scan.event \in Nat \ {0} /\ scan.at <= scan.to
    BY <1>1, CurrentTold
  <1>3. Longer /\ \A b, i, K, id : Told(b, i, K, id)' <=> Told(b, i, K, id)
    BY <1>1, SameLog
  <1>4. InBatch
    BY <1>2 DEF InBatch
  <1> SUFFICES ASSUME NEW b, NEW i, NEW s, NEW K, NEW id,
                      Shown(b, i, s, K, id)', KeyOf(s, K), ~Shown(b, i, s, K, id)
               PROVE  FALSE
    BY <1>3 DEF ShowsNothing
  <1>5. Told(b, i, K, id) /\ Done(b, i, s)' /\ ~Done(b, i, s)
    BY <1>3 DEF Shown
  <1>6. b \in Nat /\ i \in Nat
    BY <1>5 DEF Told
  <1>7. s = 1 \/ (s = 2 /\ K = {"Liquidation"})
    BY DEF KeyOf
  <1>8. /\ scan' # NoScan /\ scan'.at = scan.at /\ scan'.to = scan.to
        /\ scan'.event = scan.event + 1 /\ scan'.stmt = 1
    BY <1>1, <1>2, MovedCursor
  <1>9. /\ b <= lastIndexed \/ b < scan.at \/ (b = scan.at /\ i < scan.event + 1)
        /\ <<b, i>> \notin lost'
    BY <1>1, <1>5, <1>7, <1>8 DEF Done, InBatch
  <1>10. b = scan.at /\ i = scan.event
    <2>1. <<b, i>> \notin lost
      BY <1>1, <1>9
    <2> QED
      BY <1>2, <1>4, <1>5, <1>6, <1>9, <2>1 DEF Done
  <1>11. lost' = lost /\ Current.kind = "PositionModified" /\ scan.stmt = 2
    BY <1>1, <1>2, <1>9, <1>10 DEF Place, Table
  <1>12. Current.kind \in K /\ ~(s < scan.stmt)
    BY <1>2, <1>4, <1>5, <1>10 DEF Done
  <1> QED
    BY <1>7, <1>11, <1>12

LEMMA OtherShows ==
    ASSUME IInv, TablesInv, ChainTold,
           \/ EndBlock \/ Record \/ Boot \/ StartScan \/ GoLive \/ RecordFails \/ Signal
           \/ Exit \/ Crash
    PROVE  ShowsNothing /\ Longer
  <1>1. UNCHANGED <<chainVars, lost>>
    BY DEF EndBlock, Record, Boot, StartScan, GoLive, RecordFails, Signal, Exit, Crash
  <1>2. Longer /\ \A b, i, K, id : Told(b, i, K, id)' <=> Told(b, i, K, id)
    BY <1>1, SameLog
  <1>3. lastIndexed \in Nat /\ ChainHead \in Nat
    BY HeadIsNat DEF IInv, MarkInv
  <1> SUFFICES ASSUME NEW b, NEW i, NEW s, NEW K, NEW id,
                      Shown(b, i, s, K, id)', KeyOf(s, K)
               PROVE  Done(b, i, s)
    BY <1>2 DEF ShowsNothing, Shown
  <1>4. Told(b, i, K, id) /\ Done(b, i, s)'
    BY <1>2 DEF Shown
  <1>5. b \in Nat \ {0} /\ i \in Nat \ {0}
    BY <1>4 DEF Told
  <1>6. ~(s < 1)
    BY DEF KeyOf
  <1>7. CASE EndBlock
    <2>1. /\ InBatch /\ ~InBlock /\ scan # NoScan /\ UNCHANGED lastIndexed
          /\ scan' = [scan EXCEPT !.at = @ + 1, !.event = 1, !.stmt = 1]
      BY <1>7 DEF EndBlock, InBatch
    <2>2. scan \in Cursor /\ scan.at \in Nat
      BY <2>1, BatchOnChain
    <2>3. scan'.at = scan.at + 1 /\ scan'.event = 1 /\ scan'.stmt = 1
      BY <2>1, <2>2 DEF Cursor
    <2>4. scan.event \in Nat /\ scan.event > Len(Logs(scan.at))
      BY <2>1, <2>2 DEF InBlock, TablesInv, LogsTrue, GoodLogs, Cursor
    <2>5. b = scan.at => i < scan.event
      BY <1>4, <1>5, <2>4 DEF Told
    <2>6. <<b, i>> \notin lost /\ (b <= lastIndexed \/ b < scan.at + 1)
      BY <1>1, <1>4, <1>5, <1>6, <2>1, <2>3 DEF Done
    <2>7. b < scan.at + 1 => b < scan.at \/ b = scan.at
      BY <1>5, <2>2
    <2> QED
      BY <2>1, <2>5, <2>6, <2>7 DEF Done
  <1>8. CASE Record
    <2>1. scan # NoScan /\ scan' = NoScan /\ lastIndexed' = scan.to /\ scan.at > scan.to
      BY <1>8 DEF Record, BatchDone
    <2>2. scan.at \in Nat /\ scan.to \in Nat
      BY <2>1, BatchOnChain
    <2>3. b <= scan.to /\ <<b, i>> \notin lost
      BY <1>1, <1>4, <2>1 DEF Done, InBatch
    <2> QED
      BY <1>5, <2>1, <2>2, <2>3 DEF Done
  <1>9. CASE Boot
    <2>1. scan = NoScan /\ scan' = scan
      BY <1>9 DEF Boot, IInv, ScanInv
    <2>2. b <= lastIndexed' /\ <<b, i>> \notin lost
      BY <1>1, <1>4, <2>1 DEF Done, InBatch
    <2>3. CASE lastIndexed < StartBlock
      <3>1. lastIndexed' = StartBlock - 1
        BY <1>9, <2>3 DEF Boot
      <3>2. Logs(b) = <<>>
        BY <1>5, <2>2, <3>1, BlockAssumption DEF ChainTold
      <3> QED
        BY <1>4, <3>2 DEF Told
    <2>4. CASE ~(lastIndexed < StartBlock)
      BY <1>9, <2>2, <2>4 DEF Boot, Done
    <2> QED
      BY <2>3, <2>4
  <1>10. CASE StartScan
    <2>1. /\ pc # "down" /\ UNCHANGED lastIndexed /\ scan'.at = next
          /\ scan'.event = 1 /\ scan'.stmt = 1
      BY <1>10 DEF StartScan
    <2>2. next = lastIndexed + 1
      BY <2>1 DEF IInv, MarkInv
    <2>3. <<b, i>> \notin lost /\ (b <= lastIndexed \/ b < next)
      BY <1>1, <1>4, <1>5, <1>6, <2>1 DEF Done
    <2> QED
      BY <1>3, <1>5, <2>2, <2>3 DEF Done
  <1>11. CASE GoLive \/ RecordFails \/ Signal \/ Exit \/ Crash
    <2>1. UNCHANGED lastIndexed /\ (scan' = scan \/ scan' = NoScan)
      BY <1>11 DEF GoLive, RecordFails, Signal, Exit, Crash, LoseMemory
    <2> QED
      BY <1>1, <1>4, <2>1 DEF Done, InBatch
  <1> QED
    BY <1>7, <1>8, <1>9, <1>10, <1>11

-----------------------------------------------------------------------------
(* The tables keep what they were shown.                                   *)

LEMMA ShowsStay ==
    ASSUME ShowsNothing, Longer, NEW K, NEW F, NEW id, NEW set, NEW v,
           Shows(K, F, id, set, v)
    PROVE  Shows(K, F, id, set, v)'
  <1>1. \A c, j, G : Shown(c, j, 1, G, id)' => Shown(c, j, 1, G, id)
    BY DEF ShowsNothing, KeyOf
  <1>2. ASSUME LastRead(K, id, v)
        PROVE  LastRead(K, id, v)'
    <2>1. PICK b, i : /\ Told(b, i, K, id) /\ ValueIn(Logs(b)[i]) = v
                      /\ \A c, j : Shown(c, j, 1, K, id) => c <= b
      BY <1>2 DEF LastRead
    <2>2. Told(b, i, K, id)' /\ ValueIn(Logs(b)[i])' = v
      BY <2>1 DEF Longer
    <2>3. \A c, j : Shown(c, j, 1, K, id)' => c <= b
      BY <1>1, <2>1
    <2> QED
      BY <2>2, <2>3 DEF LastRead
  <1> QED
    BY <1>1, <1>2 DEF Shows

\* What the current statement may do to a value that events of K write, and
\* that is set from the first of F on.
Writes(K, F, id, set, v, set2, v2) ==
    \/ /\ set2 = set /\ v2 = v
       /\ ~(Current.kind \in K /\ Current.id = id /\ scan.stmt = 1)
    \/ /\ set2 /\ v2 = ValueIn(Current)
       /\ Current.kind \in K /\ Current.id = id
    \/ ~set /\ ~set2 /\ Current.kind \notin F
    \/ /\ set /\ set2 /\ v2 = v
       /\ \A c, j : Told(c, j, K, id) => scan.at <= c

LEMMA ShowsRun ==
    ASSUME IInv, TablesInv, InBlock, ShowsCurrent, Longer,
           NEW K, NEW F, NEW id, NEW set, NEW v, NEW set2, NEW v2, F \subseteq K,
           Shows(K, F, id, set, v), Writes(K, F, id, set, v, set2, v2)
    PROVE  Shows(K, F, id, set2, v2)'
  <1>1. /\ Told(scan.at, scan.event, K, id) <=> Current.kind \in K /\ Current.id = id
        /\ Current = Logs(scan.at)[scan.event] /\ scan.at \in Nat /\ InBatch
    BY CurrentTold DEF InBlock
  <1>2. \A c, j, G : Shown(c, j, 1, G, id)' =>
           \/ Shown(c, j, 1, G, id)
           \/ c = scan.at /\ scan.stmt = 1 /\ Current.kind \in G /\ Current.id = id
    BY DEF ShowsCurrent, KeyOf
  <1>3. \A c, j : Shown(c, j, 1, K, id)' => c <= scan.at
    BY <1>1, <1>2, ShownBehind
  <1>4. CASE /\ set2 = set /\ v2 = v
             /\ ~(Current.kind \in K /\ Current.id = id /\ scan.stmt = 1)
    <2>1. \A c, j : /\ Shown(c, j, 1, K, id)' => Shown(c, j, 1, K, id)
                    /\ Shown(c, j, 1, F, id)' => Shown(c, j, 1, F, id)
      BY <1>2, <1>4
    <2>2. ASSUME LastRead(K, id, v)
          PROVE  LastRead(K, id, v)'
      <3>1. PICK b, i : /\ Told(b, i, K, id) /\ ValueIn(Logs(b)[i]) = v
                        /\ \A c, j : Shown(c, j, 1, K, id) => c <= b
        BY <2>2 DEF LastRead
      <3>2. Told(b, i, K, id)' /\ ValueIn(Logs(b)[i])' = v
        BY <3>1 DEF Longer
      <3>3. \A c, j : Shown(c, j, 1, K, id)' => c <= b
        BY <2>1, <3>1
      <3> QED
        BY <3>2, <3>3 DEF LastRead
    <2> QED
      BY <1>4, <2>1, <2>2 DEF Shows
  <1>5. CASE set2 /\ v2 = ValueIn(Current) /\ Current.kind \in K /\ Current.id = id
    <2>1. PICK b, i : b = scan.at /\ i = scan.event
      OBVIOUS
    <2>2. Told(b, i, K, id) /\ ValueIn(Logs(b)[i]) = v2
      BY <1>1, <1>5, <2>1
    <2>3. Told(b, i, K, id)' /\ ValueIn(Logs(b)[i])' = v2
      BY <2>2 DEF Longer
    <2>4. \A c, j : Shown(c, j, 1, K, id)' => c <= b
      BY <1>3, <2>1
    <2>5. LastRead(K, id, v2)'
      BY <2>3, <2>4 DEF LastRead
    <2> QED
      BY <1>5, <2>5 DEF Shows
  <1>6. CASE ~set /\ ~set2 /\ Current.kind \notin F
    BY <1>2, <1>6 DEF Shows
  <1>7. CASE /\ set /\ set2 /\ v2 = v
             /\ \A c, j : Told(c, j, K, id) => scan.at <= c
    <2>1. PICK b, i : /\ Told(b, i, K, id) /\ ValueIn(Logs(b)[i]) = v
                      /\ \A c, j : Shown(c, j, 1, K, id) => c <= b
      BY <1>7 DEF Shows, LastRead
    <2>2. Told(b, i, K, id)' /\ ValueIn(Logs(b)[i])' = v
      BY <2>1 DEF Longer
    <2>3. scan.at <= b
      BY <1>7, <2>1
    <2>4. \A c, j : Shown(c, j, 1, K, id)' => c <= b
      BY <1>2, <2>1, <2>3
    <2>5. LastRead(K, id, v2)'
      BY <1>7, <2>2, <2>4 DEF LastRead
    <2> QED
      BY <1>7, <2>5 DEF Shows
  <1> QED
    BY <1>4, <1>5, <1>6, <1>7 DEF Writes

\* Steps that show nothing and leave the tables alone.
LEMMA TablesStay ==
    ASSUME TablesShown, ShowsNothing, Longer, UNCHANGED db
    PROVE  TablesShown'
  <1>1. \A c, j, s, G, id : Shown(c, j, s, G, id)' /\ KeyOf(s, G) => Shown(c, j, s, G, id)
    BY DEF ShowsNothing
  <1>2. SettingsShown'
    <2>1. PICK m, t, w, f, q : m = db.market /\ t = db.token /\ w = db.vault
                               /\ f = db.fees /\ q = db.prices
      OBVIOUS
    <2>2. /\ Shows(MarketKinds, {"MarketCreated"}, 0, m # "none", m)
          /\ Shows(TokenKinds, {"CollateralAdded"}, 0, t # "none", t)
          /\ Shows({"VaultCreated"}, {"VaultCreated"}, 0, w # "none", w)
          /\ Shows({"FeesUpdated"}, {"FeesUpdated"}, 0, f # 0, f)
          /\ Shows({"PricesUpdated"}, {"PricesUpdated"}, 0, q # 0, q)
      BY <2>1 DEF TablesShown, SettingsShown
    <2>3. /\ Shows(MarketKinds, {"MarketCreated"}, 0, m # "none", m)'
          /\ Shows(TokenKinds, {"CollateralAdded"}, 0, t # "none", t)'
          /\ Shows({"VaultCreated"}, {"VaultCreated"}, 0, w # "none", w)'
          /\ Shows({"FeesUpdated"}, {"FeesUpdated"}, 0, f # 0, f)'
          /\ Shows({"PricesUpdated"}, {"PricesUpdated"}, 0, q # 0, q)'
      BY ONLY <2>2, ShowsNothing, Longer, ShowsStay
    <2> QED
      BY <2>1, <2>3 DEF SettingsShown
  <1>3. LiquidationsShown'
    <2>1. \A b, i : \A p \in Positions : Told(b, i, {"Liquidation"}, p)
                                            => Told(b, i, {"Liquidation"}, p)'
      BY DEF Longer
    <2> QED
      BY <1>1, <2>1 DEF TablesShown, LiquidationsShown, KeyOf, LiquidationRow
  <1>4. ASSUME NEW p \in Positions
        PROVE  PositionShown(p)'
    <2>1. PICK row : row = db.pos[p]
      OBVIOUS
    <2>2. PositionShown(p) /\ db'.pos[p] = row
      BY <2>1 DEF TablesShown
    <2>3. Shows(SizeKinds, {"PositionOpened"}, p, row # NoRow, row.size)
      BY <2>1, <2>2 DEF PositionShown
    <2>4. Shows(SizeKinds, {"PositionOpened"}, p, row # NoRow, row.size)'
      BY ONLY <2>3, ShowsNothing, Longer, ShowsStay
    <2>5. \A b, i, c, j : Shown(b, i, 1, {"PositionOpened"}, p)' =>
             /\ Shown(c, j, 1, {"PositionClosed"}, p)' => row.status = "closed"
             /\ Shown(c, j, 2, {"Liquidation"}, p)' => row.status = "liquidated"
      BY <1>1, <2>1, <2>2 DEF PositionShown, KeyOf
    <2>6. /\ row.status \in {"none", "open", "closed", "liquidated"}
          /\ row.status = "none" => row = NoRow
      BY <2>1, <2>2 DEF PositionShown
    <2> QED
      BY <2>2, <2>4, <2>5, <2>6 DEF PositionShown
  <1>5. ASSUME NEW o \in Orders
        PROVE  OrderShown(o)'
    <2>1. OrderShown(o)
      BY DEF TablesShown
    <2>2. Spoken({"OrderPlaced"}, o) => Spoken({"OrderPlaced"}, o)'
      BY DEF Longer, Spoken
    <2> QED
      BY <1>1, <2>1, <2>2 DEF OrderShown, KeyOf
  <1> QED
    BY <1>2, <1>3, <1>4, <1>5 DEF TablesShown

-----------------------------------------------------------------------------
(* What a statement does to the tables, to the letter.                     *)

RunsStatement(stmt, e) ==
    /\ stmt \in AnyStatement \ {"insertNullTrade"}
    /\ stmt \in PositionStatement => e.id \in Positions
    /\ stmt \in OrderStatement => e.id \in Orders

PositionRun(stmt, e, old, row) ==
    /\ stmt = "insertPosition" =>
          row = IF old = NoRow THEN [status |-> "open", size |-> e.val] ELSE old
    /\ old = NoRow /\ stmt # "insertPosition" => row = NoRow
    /\ old # NoRow =>
          /\ stmt = "updatePositionModified" => row.status = old.status /\ row.size = e.val
          /\ stmt = "closePosition" => row.status = "closed" /\ row.size = old.size
          /\ stmt = "liquidatePosition" => row.status = "liquidated" /\ row.size = old.size

LEMMA PositionRuns ==
    ASSUME NEW d \in Tables, NEW stmt, NEW e \in EventRecords, NEW b \in Nat,
           RunsStatement(stmt, e), NEW p \in Positions
    PROVE  LET row == Run(d, stmt, e, b).pos[p]
           IN  IF stmt \in PositionStatement /\ p = e.id
               THEN PositionRun(stmt, e, d.pos[p], row)
               ELSE row = d.pos[p]
  <1>1. CASE stmt \notin PositionStatement
    <2>1. CASE stmt \in OrderStatement
      BY <1>1, <2>1, OrderStatementRuns DEF RunsStatement
    <2>2. CASE stmt \in SettingStatement
      BY <1>1, <2>2, SettingStatementRuns
    <2>3. CASE stmt \in DOMAIN Inserts
      BY <1>1, <2>3, InsertStatementRuns
    <2> QED
      BY <1>1, <2>1, <2>2, <2>3 DEF RunsStatement, AnyStatement
  <1>2. CASE stmt \in PositionStatement
    <2>1. /\ e.id \in Positions /\ e.val \in Int /\ d.pos[e.id] \in Row
          /\ d.pos \in [Positions -> Row]
      BY <1>2 DEF RunsStatement, EventRecords, Tables
    <2>2. PICK id, val, old : id = e.id /\ val = e.val /\ old = d.pos[e.id]
      OBVIOUS
    <2>3. ASSUME NEW row, NEW d2, d2 = [d EXCEPT !.pos[id] = row]
          PROVE  d2.pos[p] = IF p = id THEN row ELSE d.pos[p]
      BY <2>1, <2>2, <2>3 DEF Tables
    <2>4. CASE stmt = "insertPosition"
      <3>1. Run(d, stmt, e, b) =
              IF old = NoRow THEN [d EXCEPT !.pos[id] = [status |-> "open", size |-> val]] ELSE d
        BY <2>2, <2>4 DEF Run, insertPosition
      <3>2. Run(d, stmt, e, b).pos[p] =
              IF p = id /\ old = NoRow THEN [status |-> "open", size |-> val] ELSE d.pos[p]
        BY <2>3, <3>1
      <3> QED
        BY <1>2, <2>2, <2>4, <3>2 DEF PositionRun
    <2>5. CASE stmt = "updatePositionModified"
      <3>1. Run(d, stmt, e, b) =
              IF old = NoRow THEN d ELSE [d EXCEPT !.pos[id] = [old EXCEPT !.size = val]]
        BY <2>1, <2>2, <2>5 DEF Run, updatePositionModified, Tables
      <3>2. PICK row : row = [old EXCEPT !.size = val]
        OBVIOUS
      <3>3. row.status = old.status /\ row.size = val
        BY <2>1, <2>2, <3>2 DEF Row
      <3>4. Run(d, stmt, e, b).pos[p] = IF p = id /\ old # NoRow THEN row ELSE d.pos[p]
        BY <2>3, <3>1, <3>2
      <3> QED
        BY <1>2, <2>2, <2>5, <3>3, <3>4 DEF PositionRun
    <2>6. ASSUME NEW status, Run(d, stmt, e, b) = closePosition(d, id, status),
                 stmt \notin {"insertPosition", "updatePositionModified"},
                 stmt = "closePosition" => status = "closed",
                 stmt = "liquidatePosition" => status = "liquidated"
          PROVE  LET row == Run(d, stmt, e, b).pos[p]
                 IN  IF p = e.id THEN PositionRun(stmt, e, d.pos[p], row)
                                 ELSE row = d.pos[p]
      <3>1. Run(d, stmt, e, b) =
              IF old = NoRow THEN d ELSE [d EXCEPT !.pos[id] = [old EXCEPT !.status = status]]
        BY <2>1, <2>2, <2>6 DEF closePosition, Tables
      <3>2. PICK row : row = [old EXCEPT !.status = status]
        OBVIOUS
      <3>3. row.status = status /\ row.size = old.size
        BY <2>1, <2>2, <3>2 DEF Row
      <3>4. Run(d, stmt, e, b).pos[p] = IF p = id /\ old # NoRow THEN row ELSE d.pos[p]
        BY <2>3, <3>1, <3>2
      <3> QED
        BY <2>2, <2>6, <3>3, <3>4 DEF PositionRun
    <2>7. CASE stmt = "closePosition"
      <3>1. Run(d, stmt, e, b) = closePosition(d, id, "closed")
        BY <2>2, <2>7 DEF Run
      <3> QED
        BY <1>2, <2>6, <2>7, <3>1
    <2>8. CASE stmt = "liquidatePosition"
      <3>1. Run(d, stmt, e, b) = closePosition(d, id, "liquidated")
        BY <2>2, <2>8 DEF Run
      <3> QED
        BY <1>2, <2>6, <2>8, <3>1
    <2> QED
      BY <1>2, <2>4, <2>5, <2>7, <2>8 DEF PositionStatement
  <1> QED
    BY <1>1, <1>2

OrderRun(stmt, old, status) ==
    /\ stmt = "insertOrder" => status = IF old = "none" THEN "active" ELSE old
    /\ old = "none" /\ stmt # "insertOrder" => status = "none"
    /\ old # "none" => /\ stmt = "executeOrder" => status = "executed"
                       /\ stmt = "cancelOrder" => status = "cancelled"

LEMMA OrderRuns ==
    ASSUME NEW d \in Tables, NEW stmt, NEW e \in EventRecords, NEW b \in Nat,
           RunsStatement(stmt, e), NEW o \in Orders
    PROVE  LET status == Run(d, stmt, e, b).ord[o]
           IN  IF stmt \in OrderStatement /\ o = e.id
               THEN OrderRun(stmt, d.ord[o], status)
               ELSE status = d.ord[o]
  <1>1. CASE stmt \notin OrderStatement
    <2>1. CASE stmt \in PositionStatement
      BY <1>1, <2>1, PositionStatementRuns DEF RunsStatement
    <2>2. CASE stmt \in SettingStatement
      BY <1>1, <2>2, SettingStatementRuns
    <2>3. CASE stmt \in DOMAIN Inserts
      BY <1>1, <2>3, InsertStatementRuns
    <2> QED
      BY <1>1, <2>1, <2>2, <2>3 DEF RunsStatement, AnyStatement
  <1>2. CASE stmt \in OrderStatement
    <2>1. e.id \in Orders /\ d.ord \in [Orders -> OrderStatus]
      BY <1>2 DEF RunsStatement, Tables
    <2>2. ASSUME NEW status, NEW d2, d2 = [d EXCEPT !.ord[e.id] = status]
          PROVE  d2.ord[o] = IF o = e.id THEN status ELSE d.ord[o]
      BY <2>1, <2>2 DEF Tables
    <2>3. CASE stmt = "insertOrder"
      <3>1. Run(d, stmt, e, b) =
              IF d.ord[e.id] = "none" THEN [d EXCEPT !.ord[e.id] = "active"] ELSE d
        BY <2>3 DEF Run, insertOrder
      <3> QED
        BY <1>2, <2>2, <2>3, <3>1 DEF OrderRun
    <2>4. CASE stmt = "executeOrder"
      <3>1. Run(d, stmt, e, b) =
              IF d.ord[e.id] = "none" THEN d ELSE [d EXCEPT !.ord[e.id] = "executed"]
        BY <2>4 DEF Run, resolveOrder
      <3> QED
        BY <1>2, <2>2, <2>4, <3>1 DEF OrderRun
    <2>5. CASE stmt = "cancelOrder"
      <3>1. Run(d, stmt, e, b) =
              IF d.ord[e.id] = "none" THEN d ELSE [d EXCEPT !.ord[e.id] = "cancelled"]
        BY <2>5 DEF Run, resolveOrder
      <3> QED
        BY <1>2, <2>2, <2>5, <3>1 DEF OrderRun
    <2> QED
      BY <1>2, <2>3, <2>4, <2>5 DEF OrderStatement
  <1> QED
    BY <1>1, <1>2

SettingRun(stmt, e, d, d2) ==
    /\ stmt \notin {"upsertMarket", "enableMarket", "disableMarket"} => d2.market = d.market
    /\ stmt = "upsertMarket" => d2.market = IF d.market = "none" THEN "on" ELSE d.market
    /\ stmt = "enableMarket" => d2.market = IF d.market = "none" THEN "none" ELSE "on"
    /\ stmt = "disableMarket" => d2.market = IF d.market = "none" THEN "none" ELSE "off"
    /\ stmt \notin {"upsertCollateralToken", "removeCollateralToken"} => d2.token = d.token
    /\ stmt = "upsertCollateralToken" => d2.token = "on"
    /\ stmt = "removeCollateralToken" => d2.token = IF d.token = "none" THEN "none" ELSE "off"
    /\ IF stmt = "insertUserVault" THEN d2.vault = IF d.vault = "none" THEN "on" ELSE d.vault
                                   ELSE d2.vault = d.vault
    /\ d2.fees = IF stmt = "upsertFeeConfig" THEN e.val ELSE d.fees
    /\ d2.prices = IF stmt = "insertPriceUpdates" THEN e.val ELSE d.prices

LEMMA SettingRuns ==
    ASSUME NEW d \in Tables, NEW stmt, NEW e \in EventRecords, NEW b \in Nat,
           RunsStatement(stmt, e)
    PROVE  SettingRun(stmt, e, d, Run(d, stmt, e, b))
  <1> DEFINE d2 == Run(d, stmt, e, b)
             Same == /\ d2.market = d.market /\ d2.token = d.token /\ d2.vault = d.vault
                     /\ d2.fees = d.fees
  <1>1. CASE stmt \in PositionStatement
    <2>1. \/ d2 = d
          \/ \E pos : d2 = [d EXCEPT !.pos = pos]
      <3>1. \/ d2 = d
            \/ \E p, row : d2 = [d EXCEPT !.pos[p] = row]
            \/ \E p, size : d2 = [d EXCEPT !.pos[p].size = size]
            \/ \E p, status : d2 = [d EXCEPT !.pos[p].status = status]
        BY <1>1 DEF PositionStatement, Run, insertPosition, updatePositionModified,
                    closePosition
      <3> QED
        BY <3>1 DEF Tables
    <2>2. Same /\ d2.prices = d.prices
      BY <2>1 DEF Tables
    <2> HIDE DEF d2
    <2> QED
      BY <1>1, <2>2 DEF SettingRun, PositionStatement, d2
  <1>2. CASE stmt \in OrderStatement
    <2>1. \/ d2 = d
          \/ \E o, status : d2 = [d EXCEPT !.ord[o] = status]
      BY <1>2 DEF OrderStatement, Run, insertOrder, resolveOrder
    <2>2. Same /\ d2.prices = d.prices
      BY <2>1 DEF Tables
    <2> HIDE DEF d2
    <2> QED
      BY <1>2, <2>2 DEF SettingRun, OrderStatement, d2
  <1>3. CASE stmt \in {"upsertMarket", "enableMarket", "disableMarket"}
    <2>1. d2 \in {d, [d EXCEPT !.market = "on"], [d EXCEPT !.market = "off"]}
      BY <1>3 DEF Run, upsertMarket, setMarketEnabled
    <2>2. /\ d2.token = d.token /\ d2.vault = d.vault /\ d2.fees = d.fees
          /\ d2.prices = d.prices
      BY <2>1 DEF Tables
    <2>3. /\ stmt = "upsertMarket" => d2.market = IF d.market = "none" THEN "on" ELSE d.market
          /\ stmt = "enableMarket" => d2.market = IF d.market = "none" THEN "none" ELSE "on"
          /\ stmt = "disableMarket" => d2.market = IF d.market = "none" THEN "none" ELSE "off"
      BY DEF Run, upsertMarket, setMarketEnabled, Tables
    <2> HIDE DEF d2
    <2> QED
      BY <1>3, <2>2, <2>3 DEF SettingRun, d2
  <1>4. CASE stmt \in {"upsertCollateralToken", "removeCollateralToken"}
    <2>1. d2 \in {d, [d EXCEPT !.token = "on"], [d EXCEPT !.token = "off"]}
      BY <1>4 DEF Run, upsertCollateralToken, removeCollateralToken
    <2>2. /\ d2.market = d.market /\ d2.vault = d.vault /\ d2.fees = d.fees
          /\ d2.prices = d.prices
      BY <2>1 DEF Tables
    <2>3. /\ stmt = "upsertCollateralToken" => d2.token = "on"
          /\ stmt = "removeCollateralToken" =>
                d2.token = IF d.token = "none" THEN "none" ELSE "off"
      BY DEF Run, upsertCollateralToken, removeCollateralToken, Tables
    <2> HIDE DEF d2
    <2> QED
      BY <1>4, <2>2, <2>3 DEF SettingRun, d2
  <1>5. CASE stmt \in {"insertUserVault", "updateMarginMode", "upsertDelegate", "removeDelegate"}
    <2>1. d2 \in {d, [d EXCEPT !.vault = "on"], [d EXCEPT !.mode = "cross"],
                  [d EXCEPT !.delegate = TRUE], [d EXCEPT !.delegate = FALSE]}
      BY <1>5 DEF Run, insertUserVault, updateMarginMode, upsertDelegate, removeDelegate
    <2>2. /\ d2.market = d.market /\ d2.token = d.token /\ d2.fees = d.fees
          /\ d2.prices = d.prices
      BY <2>1 DEF Tables
    <2>3. d2.vault = IF stmt = "insertUserVault" /\ d.vault = "none" THEN "on" ELSE d.vault
      BY <1>5 DEF Run, insertUserVault, updateMarginMode, upsertDelegate, removeDelegate, Tables
    <2> HIDE DEF d2
    <2> QED
      BY <1>5, <2>2, <2>3 DEF SettingRun, d2
  <1>6. CASE stmt = "upsertFeeConfig"
    <2>1. d2 = [d EXCEPT !.fees = e.val]
      BY <1>6 DEF Run, upsertFeeConfig
    <2>2. /\ d2.market = d.market /\ d2.token = d.token /\ d2.vault = d.vault
          /\ d2.prices = d.prices /\ d2.fees = e.val
      BY <2>1 DEF Tables
    <2> HIDE DEF d2
    <2> QED
      BY <1>6, <2>2 DEF SettingRun, d2
  <1>7. CASE stmt \in DOMAIN Inserts
    <2>1. PICK inserted : inserted = Insert(d, Inserts[stmt], b)
      OBVIOUS
    <2>2. d2 = IF stmt = "insertPriceUpdates" THEN [inserted EXCEPT !.prices = e.val]
                                              ELSE inserted
      BY <1>7, <2>1 DEF Run, Inserts, insertTradingAccountEvent, insertPriceUpdates
    <2>3. PICK rows : inserted = [d EXCEPT !.rows = rows]
      BY <2>1 DEF Insert
    <2>4. Same /\ d2.prices = IF stmt = "insertPriceUpdates" THEN e.val ELSE d.prices
      BY <2>2, <2>3 DEF Tables
    <2> HIDE DEF d2
    <2> QED
      BY <1>7, <2>4 DEF SettingRun, Inserts, d2
  <1> QED
    BY <1>1, <1>2, <1>3, <1>4, <1>5, <1>6, <1>7
       DEF RunsStatement, AnyStatement, SettingStatement

-----------------------------------------------------------------------------
(* A statement shows its event, and nothing else is taken back.            *)

\* What the statement at the cursor does.
LEMMA ExecuteRuns ==
    ASSUME IInv, TablesInv, Execute
    PROVE  LET stmt == Todo[scan.stmt]
           IN  /\ InBlock /\ UNCHANGED chainVars
               /\ db \in Tables /\ Current \in EventRecords /\ scan.at \in Nat
               /\ RunsStatement(stmt, Current) /\ TrueOf(Current, onchain)
               /\ Table(Current.kind, scan.stmt, stmt)
               /\ db' = Run(db, stmt, Current, scan.at)
  <1>1. InBlock /\ UNCHANGED chainVars /\ Todo[scan.stmt] # "insertNullTrade"
        /\ db' = Run(db, Todo[scan.stmt], Current, scan.at)
    BY DEF Execute, Refused
  <1>2. /\ Current \in EventRecords /\ TrueOf(Current, onchain)
        /\ Handler(Current.kind, Todo) /\ scan.stmt \in 1..Len(Todo)
        /\ Todo[scan.stmt] \in AnyStatement
    BY <1>1, CurrentEvent
  <1>3. /\ Todo[scan.stmt] \in PositionStatement => Current.id \in Positions
        /\ Todo[scan.stmt] \in OrderStatement => Current.id \in Orders
    BY <1>2 DEF Handler, TrueOf
  <1>4. Table(Current.kind, scan.stmt, Todo[scan.stmt]) /\ scan.at \in Nat
    BY <1>1, CurrentTold
  <1>5. db \in Tables
    BY DEF TablesInv, RowsTrue
  <1> QED
    BY <1>1, <1>2, <1>3, <1>4, <1>5 DEF RunsStatement

\* Of the events of one block only the last is not an order's.
LEMMA OnePerBlock ==
    ASSUME TablesInv, NEW b, NEW i, NEW j, NEW K, NEW L, NEW id, NEW id2,
           Told(b, i, K, id), Told(b, j, L, id2),
           K \cap OrderKinds = {}, L \cap OrderKinds = {}
    PROVE  i = j
  <1>1. /\ b \in 1..ChainHead /\ i \in 1..Len(Logs(b)) /\ j \in 1..Len(Logs(b))
        /\ Logs(b)[i].kind \notin OrderKinds /\ Logs(b)[j].kind \notin OrderKinds
    BY DEF Told
  <1>2. GoodLogs(Logs(b), onchain)
    BY <1>1 DEF TablesInv, LogsTrue
  <1>3. Len(Logs(b)) \in Nat
    BY <1>2, LenProperties DEF GoodLogs
  <1>4. i = Len(Logs(b)) /\ j = Len(Logs(b))
    BY <1>1, <1>2, <1>3 DEF GoodLogs
  <1> QED
    BY <1>4

LEMMA SettingsExecute ==
    ASSUME IInv, TablesInv, ChainTold, TablesShown, Execute, ShowsCurrent, Longer
    PROVE  SettingsShown'
  <1>1. PICK e, s, stmt, at : e = Current /\ s = scan.stmt /\ stmt = Todo[scan.stmt] /\ at = scan.at
    OBVIOUS
  <1>2. PICK m, t, w, f, q : m = db.market /\ t = db.token /\ w = db.vault
                             /\ f = db.fees /\ q = db.prices
    OBVIOUS
  <1>3. PICK m2, t2, w2, f2, q2 : m2 = db'.market /\ t2 = db'.token /\ w2 = db'.vault
                                  /\ f2 = db'.fees /\ q2 = db'.prices
    OBVIOUS
  <1>4. /\ InBlock /\ db \in Tables /\ e \in EventRecords /\ at \in Nat
        /\ RunsStatement(stmt, e) /\ Table(e.kind, s, stmt)
        /\ db' = Run(db, stmt, e, at)
    BY <1>1, ExecuteRuns
  <1>5. SettingRun(stmt, e, db, db')
    BY <1>4, SettingRuns
  <1>6. \A K, id : Told(at, scan.event, K, id) <=> e.kind \in K /\ e.id = id
    BY <1>1, <1>4, CurrentTold
  <1>7. e.kind \in SettingKinds => e.id = 0
    BY <1>6 DEF ChainTold, SettingsTold
  <1>8. e.kind \in {"FeesUpdated", "PricesUpdated"} => e.val # 0
    <2>1. e.kind = "FeesUpdated" => e.val = at
      BY <1>1, <1>4, <1>6, <1>7, CurrentTold DEF ChainTold, SettingsTold, SettingKinds
    <2>2. e.kind = "PricesUpdated" => e.val = at
      BY <1>1, <1>4, <1>6, <1>7, CurrentTold DEF ChainTold, SettingsTold, PricesTold, SettingKinds
    <2>3. at # 0
      BY <1>1, <1>4, BatchOnChain DEF InBlock, InBatch
    <2> QED
      BY <2>1, <2>2, <2>3
  <1>9. /\ Shows(MarketKinds, {"MarketCreated"}, 0, m # "none", m)
        /\ Shows(TokenKinds, {"CollateralAdded"}, 0, t # "none", t)
        /\ Shows({"VaultCreated"}, {"VaultCreated"}, 0, w # "none", w)
        /\ Shows({"FeesUpdated"}, {"FeesUpdated"}, 0, f # 0, f)
        /\ Shows({"PricesUpdated"}, {"PricesUpdated"}, 0, q # 0, q)
    BY <1>2 DEF TablesShown, SettingsShown
  <1>10. Shows(MarketKinds, {"MarketCreated"}, 0, m2 # "none", m2)'
    <2>1. CASE stmt \notin {"upsertMarket", "enableMarket", "disableMarket"}
      <3>1. m2 = m
        BY <1>2, <1>3, <1>5, <2>1 DEF SettingRun
      <3>2. ~(e.kind \in MarketKinds /\ s = 1)
        BY <1>4, <2>1 DEF Table, MarketKinds
      <3>3. Writes(MarketKinds, {"MarketCreated"}, 0, m # "none", m, m2 # "none", m2)
        BY <1>1, <3>1, <3>2 DEF Writes
      <3> QED
        BY <1>4, <1>9, <3>3, ShowsRun DEF MarketKinds
    <2>2. CASE stmt = "upsertMarket"
      <3>1. e.kind = "MarketCreated" /\ e.id = 0 /\ ValueIn(e) = "on"
        BY <1>4, <1>7, <2>2 DEF Table, SettingKinds, ValueIn
      <3>2. m2 = IF m = "none" THEN "on" ELSE m
        BY <1>2, <1>3, <1>5, <2>2 DEF SettingRun
      <3>3. Told(at, scan.event, {"MarketCreated"}, 0)
        BY <1>6, <3>1
      <3>4. \A c, j : Told(c, j, MarketKinds, 0) => at <= c
        BY <3>3 DEF ChainTold, SettingsTold, First
      <3>5. Writes(MarketKinds, {"MarketCreated"}, 0, m # "none", m, m2 # "none", m2)
        BY <1>1, <3>1, <3>2, <3>4 DEF Writes, MarketKinds
      <3> QED
        BY <1>4, <1>9, <3>5, ShowsRun DEF MarketKinds
    <2>3. CASE stmt \in {"enableMarket", "disableMarket"}
      <3>1. /\ e.kind \in MarketKinds \ {"MarketCreated"} /\ e.id = 0
            /\ ValueIn(e) = IF stmt = "enableMarket" THEN "on" ELSE "off"
        BY <1>4, <1>7, <2>3 DEF Table, SettingKinds, ValueIn, MarketKinds
      <3>2. m2 = IF m = "none" THEN "none" ELSE ValueIn(e)
        BY <1>2, <1>3, <1>5, <2>3, <3>1 DEF SettingRun
      <3>3. Writes(MarketKinds, {"MarketCreated"}, 0, m # "none", m, m2 # "none", m2)
        BY <1>1, <2>3, <3>1, <3>2 DEF Writes
      <3> QED
        BY <1>4, <1>9, <3>3, ShowsRun DEF MarketKinds
    <2> QED
      BY <2>1, <2>2, <2>3
  <1>11. Shows(TokenKinds, {"CollateralAdded"}, 0, t2 # "none", t2)'
    <2>1. CASE stmt \notin {"upsertCollateralToken", "removeCollateralToken"}
      <3>1. t2 = t
        BY <1>2, <1>3, <1>5, <2>1 DEF SettingRun
      <3>2. ~(e.kind \in TokenKinds /\ s = 1)
        BY <1>4, <2>1 DEF Table, TokenKinds
      <3>3. Writes(TokenKinds, {"CollateralAdded"}, 0, t # "none", t, t2 # "none", t2)
        BY <1>1, <3>1, <3>2 DEF Writes
      <3> QED
        BY <1>4, <1>9, <3>3, ShowsRun DEF TokenKinds
    <2>2. CASE stmt = "upsertCollateralToken"
      <3>1. e.kind = "CollateralAdded" /\ e.id = 0 /\ ValueIn(e) = "on"
        BY <1>4, <1>7, <2>2 DEF Table, SettingKinds, ValueIn
      <3>2. t2 = "on"
        BY <1>3, <1>5, <2>2 DEF SettingRun
      <3>3. Writes(TokenKinds, {"CollateralAdded"}, 0, t # "none", t, t2 # "none", t2)
        BY <1>1, <3>1, <3>2 DEF Writes, TokenKinds
      <3> QED
        BY <1>4, <1>9, <3>3, ShowsRun DEF TokenKinds
    <2>3. CASE stmt = "removeCollateralToken"
      <3>1. e.kind = "CollateralRemoved" /\ e.id = 0 /\ ValueIn(e) = "off"
        BY <1>4, <1>7, <2>3 DEF Table, SettingKinds, ValueIn
      <3>2. t2 = IF t = "none" THEN "none" ELSE "off"
        BY <1>2, <1>3, <1>5, <2>3 DEF SettingRun
      <3>3. Writes(TokenKinds, {"CollateralAdded"}, 0, t # "none", t, t2 # "none", t2)
        BY <1>1, <3>1, <3>2 DEF Writes, TokenKinds
      <3> QED
        BY <1>4, <1>9, <3>3, ShowsRun DEF TokenKinds
    <2> QED
      BY <2>1, <2>2, <2>3
  <1>12. Shows({"VaultCreated"}, {"VaultCreated"}, 0, w2 # "none", w2)'
    <2>1. CASE stmt # "insertUserVault"
      <3>1. w2 = w
        BY <1>2, <1>3, <1>5, <2>1 DEF SettingRun
      <3>2. ~(e.kind = "VaultCreated" /\ s = 1)
        BY <1>4, <2>1 DEF Table
      <3>3. Writes({"VaultCreated"}, {"VaultCreated"}, 0, w # "none", w, w2 # "none", w2)
        BY <1>1, <3>1, <3>2 DEF Writes
      <3> QED
        BY <1>4, <1>9, <3>3, ShowsRun
    <2>2. CASE stmt = "insertUserVault"
      <3>1. e.kind = "VaultCreated" /\ e.id = 0 /\ ValueIn(e) = "on"
        BY <1>4, <1>7, <2>2 DEF Table, SettingKinds, ValueIn
      <3>2. w2 = IF w = "none" THEN "on" ELSE w
        BY <1>2, <1>3, <1>5, <2>2 DEF SettingRun
      <3>3. w # "none" => w = "on"
        BY <1>9 DEF Shows, LastRead, Told, ValueIn
      <3>4. Writes({"VaultCreated"}, {"VaultCreated"}, 0, w # "none", w, w2 # "none", w2)
        BY <1>1, <3>1, <3>2, <3>3 DEF Writes
      <3> QED
        BY <1>4, <1>9, <3>4, ShowsRun
    <2> QED
      BY <2>1, <2>2
  <1>13. Shows({"FeesUpdated"}, {"FeesUpdated"}, 0, f2 # 0, f2)'
    <2>1. f2 = IF stmt = "upsertFeeConfig" THEN e.val ELSE f
      BY <1>2, <1>3, <1>5 DEF SettingRun
    <2>2. stmt = "upsertFeeConfig" <=> e.kind = "FeesUpdated" /\ s = 1
      BY <1>4 DEF Table
    <2>3. stmt = "upsertFeeConfig" => ValueIn(e) = e.val /\ e.id = 0 /\ e.val # 0
      BY <1>7, <1>8, <2>2 DEF ValueIn, SettingKinds
    <2>4. Writes({"FeesUpdated"}, {"FeesUpdated"}, 0, f # 0, f, f2 # 0, f2)
      BY <1>1, <2>1, <2>2, <2>3 DEF Writes
    <2> QED
      BY <1>4, <1>9, <2>4, ShowsRun
  <1>14. Shows({"PricesUpdated"}, {"PricesUpdated"}, 0, q2 # 0, q2)'
    <2>1. q2 = IF stmt = "insertPriceUpdates" THEN e.val ELSE q
      BY <1>2, <1>3, <1>5 DEF SettingRun
    <2>2. stmt = "insertPriceUpdates" <=> e.kind = "PricesUpdated" /\ s = 1
      BY <1>4 DEF Table
    <2>3. stmt = "insertPriceUpdates" => ValueIn(e) = e.val /\ e.id = 0 /\ e.val # 0
      BY <1>7, <1>8, <2>2 DEF ValueIn, SettingKinds
    <2>4. Writes({"PricesUpdated"}, {"PricesUpdated"}, 0, q # 0, q, q2 # 0, q2)
      BY <1>1, <2>1, <2>2, <2>3 DEF Writes
    <2> QED
      BY <1>4, <1>9, <2>4, ShowsRun
  <1> QED
    BY <1>3, <1>10, <1>11, <1>12, <1>13, <1>14 DEF SettingsShown

LEMMA LiquidationsExecute ==
    ASSUME IInv, TablesInv, TablesShown, Execute, ShowsCurrent, Longer
    PROVE  LiquidationsShown'
  <1>1. PICK e, s, stmt, at : e = Current /\ s = scan.stmt /\ stmt = Todo[scan.stmt] /\ at = scan.at
    OBVIOUS
  <1>2. /\ InBlock /\ db \in Tables /\ e \in EventRecords /\ at \in Nat
        /\ RunsStatement(stmt, e) /\ Table(e.kind, s, stmt) /\ TrueOf(e, onchain)
        /\ db' = Run(db, stmt, e, at)
    BY <1>1, ExecuteRuns
  <1>3. \A K, id : Told(at, scan.event, K, id) <=> e.kind \in K /\ e.id = id
    BY <1>1, <1>2, CurrentTold
  <1>4. DOMAIN db'.rows = IF stmt \in DOMAIN Inserts THEN DOMAIN db.rows \cup {<<Inserts[stmt], at>>}
                                                     ELSE DOMAIN db.rows
    <2>1. CASE stmt \in DOMAIN Inserts
      <3>1. PICK new : new = <<Inserts[stmt], at>>
        OBVIOUS
      <3>2. /\ DOMAIN Run(db, stmt, e, at).rows = DOMAIN db.rows \cup {new}
            /\ \A r \in DOMAIN db.rows \ {new} : Run(db, stmt, e, at).rows[r] = db.rows[r]
        BY <1>2, <2>1, <3>1, InsertStatementRuns
      <3> QED
        BY <1>2, <2>1, <3>1, <3>2
    <2>2. CASE stmt \in SettingStatement
      <3>1. stmt \notin DOMAIN Inserts
        BY <2>2 DEF SettingStatement, Inserts
      <3> QED
        BY <1>2, <2>2, <3>1, SettingStatementRuns
    <2>3. CASE stmt \in PositionStatement
      <3>1. stmt \notin DOMAIN Inserts
        BY <2>3 DEF PositionStatement, Inserts
      <3> QED
        BY <1>2, <2>3, <3>1, PositionStatementRuns DEF RunsStatement
    <2>4. CASE stmt \in OrderStatement
      <3>1. stmt \notin DOMAIN Inserts
        BY <2>4 DEF OrderStatement, Inserts
      <3> QED
        BY <1>2, <2>4, <3>1, OrderStatementRuns DEF RunsStatement
    <2> QED
      BY <1>2, <2>1, <2>2, <2>3, <2>4 DEF RunsStatement, AnyStatement
  <1>5. stmt \in DOMAIN Inserts => (Inserts[stmt] = "liquidations" <=> stmt = "insertLiquidation")
    BY DEF Inserts
  <1>6. stmt = "insertLiquidation" <=> e.kind = "Liquidation" /\ s = 1
    BY <1>2 DEF Table
  <1>7. \A b, i : \A p \in Positions : Told(b, i, {"Liquidation"}, p)
                                          => Told(b, i, {"Liquidation"}, p)'
    BY DEF Longer
  <1>8. ASSUME NEW b, LiquidationRow(b) \in DOMAIN db'.rows
        PROVE  \E i : \E p \in Positions : Told(b, i, {"Liquidation"}, p)'
    <2>1. CASE LiquidationRow(b) \in DOMAIN db.rows
      BY <1>7, <2>1 DEF TablesShown, LiquidationsShown
    <2>2. CASE LiquidationRow(b) \notin DOMAIN db.rows
      <3>1. stmt = "insertLiquidation" /\ b = at
        BY <1>4, <1>5, <1>8, <2>2 DEF LiquidationRow
      <3>2. Told(b, scan.event, {"Liquidation"}, e.id) /\ e.id \in Positions
        BY <1>2, <1>3, <1>6, <3>1 DEF TrueOf
      <3> QED
        BY <1>7, <3>2
    <2> QED
      BY <2>1, <2>2
  <1>9. ASSUME NEW b, NEW i, NEW p \in Positions, Shown(b, i, 1, {"Liquidation"}, p)'
        PROVE  LiquidationRow(b) \in DOMAIN db'.rows
    <2>1. CASE Shown(b, i, 1, {"Liquidation"}, p)
      <3>1. LiquidationRow(b) \in DOMAIN db.rows
        BY <2>1 DEF TablesShown, LiquidationsShown
      <3> QED
        BY <1>4, <3>1
    <2>2. CASE ~Shown(b, i, 1, {"Liquidation"}, p)
      <3>1. b = at /\ s = 1 /\ e.kind = "Liquidation"
        BY <1>1, <1>9, <2>2 DEF ShowsCurrent, KeyOf
      <3>2. stmt = "insertLiquidation" /\ stmt \in DOMAIN Inserts
        BY <1>6, <3>1 DEF Inserts
      <3> QED
        BY <1>4, <1>5, <3>1, <3>2 DEF LiquidationRow
    <2> QED
      BY <2>1, <2>2
  <1>10. \A b : LiquidationRow(b)' = LiquidationRow(b)
    BY DEF LiquidationRow
  <1> QED
    BY <1>8, <1>9, <1>10 DEF LiquidationsShown

LEMMA PositionExecute ==
    ASSUME IInv, TablesInv, ChainTold, TablesShown, Execute, ShowsCurrent, Longer,
           NEW p \in Positions
    PROVE  PositionShown(p)'
  <1>1. PICK e, s, stmt, at : e = Current /\ s = scan.stmt /\ stmt = Todo[scan.stmt] /\ at = scan.at
    OBVIOUS
  <1>2. /\ InBlock /\ db \in Tables /\ e \in EventRecords /\ at \in Nat
        /\ RunsStatement(stmt, e) /\ Table(e.kind, s, stmt)
        /\ db' = Run(db, stmt, e, at)
    BY <1>1, ExecuteRuns
  <1>3. \A K, id : Told(at, scan.event, K, id) <=> e.kind \in K /\ e.id = id
    BY <1>1, <1>2, CurrentTold
  <1>4. PICK old, row : old = db.pos[p] /\ row = db'.pos[p]
    OBVIOUS
  <1>5. IF stmt \in PositionStatement /\ p = e.id THEN PositionRun(stmt, e, old, row)
                                                  ELSE row = old
    <2>1. LET r == Run(db, stmt, e, at).pos[p]
          IN  IF stmt \in PositionStatement /\ p = e.id THEN PositionRun(stmt, e, db.pos[p], r)
                                                        ELSE r = db.pos[p]
      BY ONLY <1>2, PositionRuns, p \in Positions
    <2> QED
      BY ONLY <1>2, <1>4, <2>1
  <1>6. /\ old.status \in {"none", "open", "closed", "liquidated"}
        /\ old.status = "none" => old = NoRow
        /\ Shows(SizeKinds, {"PositionOpened"}, p, old # NoRow, old.size)
        /\ \A b, i, c, j : Shown(b, i, 1, {"PositionOpened"}, p) =>
             /\ Shown(c, j, 1, {"PositionClosed"}, p) => old.status = "closed"
             /\ Shown(c, j, 2, {"Liquidation"}, p) => old.status = "liquidated"
    BY <1>4 DEF TablesShown, PositionShown
  <1>7. NoRow.status = "none"
    BY DEF NoRow
  <1>8. First({"PositionOpened"}, PlaceKinds, p)
    BY DEF ChainTold, PositionTold
  <1>9. /\ stmt = "insertPosition" <=> e.kind = "PositionOpened" /\ s = 1
        /\ stmt = "updatePositionModified" <=> e.kind = "PositionModified" /\ s = 1
        /\ stmt = "closePosition" <=> e.kind = "PositionClosed" /\ s = 1
        /\ stmt = "liquidatePosition" <=> e.kind = "Liquidation" /\ s = 2
    BY <1>2 DEF Table
  <1>10. Shows(SizeKinds, {"PositionOpened"}, p, row # NoRow, row.size)'
    <2>1. Writes(SizeKinds, {"PositionOpened"}, p, old # NoRow, old.size, row # NoRow, row.size)
      <3>1. CASE ~(stmt \in PositionStatement /\ p = e.id)
        <4>1. row = old
          BY <1>5, <3>1
        <4>2. ~(e.kind \in SizeKinds /\ e.id = p /\ s = 1)
          BY <1>9, <3>1 DEF SizeKinds, PositionStatement
        <4> QED
          BY <1>1, <4>1, <4>2 DEF Writes
      <3>2. CASE stmt = "insertPosition" /\ p = e.id
        <4>1. e.kind = "PositionOpened" /\ ValueIn(e) = e.val
          BY <1>9, <3>2 DEF ValueIn
        <4>2. row = IF old = NoRow THEN [status |-> "open", size |-> e.val] ELSE old
          BY <1>5, <3>2 DEF PositionStatement, PositionRun
        <4>3. \A c, j : Told(c, j, SizeKinds, p) => at <= c
          <5>1. Told(at, scan.event, {"PositionOpened"}, p)
            BY <1>3, <3>2, <4>1
          <5>2. \A c, j : Told(c, j, SizeKinds, p) => Told(c, j, PlaceKinds, p)
            BY DEF Told, SizeKinds, PlaceKinds, PositionKinds
          <5> QED
            BY <1>8, <5>1, <5>2 DEF First
        <4>4. CASE old = NoRow
          <5>1. row.status = "open" /\ row.size = e.val
            BY <4>2, <4>4
          <5>2. row # NoRow
            BY <1>7, <5>1
          <5> QED
            BY <1>1, <3>2, <4>1, <5>1, <5>2 DEF Writes, SizeKinds
        <4>5. CASE old # NoRow
          BY <1>1, <4>2, <4>3, <4>5 DEF Writes
        <4> QED
          BY <4>4, <4>5
      <3>3. CASE stmt = "updatePositionModified" /\ p = e.id
        <4>1. e.kind = "PositionModified" /\ ValueIn(e) = e.val
          BY <1>9, <3>3 DEF ValueIn
        <4>2. /\ old = NoRow => row = NoRow
              /\ old # NoRow => row.status = old.status /\ row.size = e.val
          BY <1>5, <3>3 DEF PositionStatement, PositionRun
        <4>3. old # NoRow => row # NoRow
          BY <1>6, <1>7, <4>2
        <4> QED
          BY <1>1, <3>3, <4>1, <4>2, <4>3 DEF Writes, SizeKinds
      <3>4. CASE stmt \in {"closePosition", "liquidatePosition"} /\ p = e.id
        <4>1. e.kind \notin SizeKinds
          BY <1>9, <3>4 DEF SizeKinds
        <4>2. /\ old = NoRow => row = NoRow
              /\ old # NoRow => row.status \in {"closed", "liquidated"} /\ row.size = old.size
          BY <1>5, <3>4 DEF PositionStatement, PositionRun
        <4>3. (row # NoRow) = (old # NoRow) /\ row.size = old.size
          BY <1>7, <4>2
        <4> QED
          BY <1>1, <4>1, <4>3 DEF Writes
      <3> QED
        BY <3>1, <3>2, <3>3, <3>4 DEF PositionStatement
    <2>2. {"PositionOpened"} \subseteq SizeKinds
      BY DEF SizeKinds
    <2> QED
      BY <1>2, <1>6, <2>1, <2>2, ShowsRun
  <1>11. /\ row.status \in {"none", "open", "closed", "liquidated"}
         /\ row.status = "none" => row = NoRow
    <2>1. CASE ~(stmt \in PositionStatement /\ p = e.id)
      BY <1>5, <1>6, <2>1
    <2>2. CASE stmt \in PositionStatement /\ p = e.id
      BY <1>5, <1>6, <1>7, <2>2 DEF PositionRun, PositionStatement
    <2> QED
      BY <2>1, <2>2
  <1>12. /\ old.status \in {"closed", "liquidated"} => row.status = old.status
    BY <1>4, ExecuteRows DEF TablesAdvance
  <1>13. ASSUME NEW b, NEW i, NEW c, NEW j, NEW n, NEW kind, NEW end,
                Shown(b, i, 1, {"PositionOpened"}, p)', Shown(c, j, n, {kind}, p)',
                \/ n = 1 /\ kind = "PositionClosed" /\ end = "closed"
                \/ n = 2 /\ kind = "Liquidation" /\ end = "liquidated"
         PROVE  row.status = end
    <2>1. \/ Shown(b, i, 1, {"PositionOpened"}, p)
          \/ b = at /\ i = scan.event /\ s = 1 /\ e.kind = "PositionOpened" /\ e.id = p
      BY <1>1, <1>13 DEF ShowsCurrent, KeyOf
    <2>2. \/ Shown(c, j, n, {kind}, p)
          \/ c = at /\ j = scan.event /\ s = n /\ e.kind = kind /\ e.id = p
      BY <1>1, <1>13 DEF ShowsCurrent, KeyOf
    <2>3. CASE Shown(b, i, 1, {"PositionOpened"}, p) /\ Shown(c, j, n, {kind}, p)
      BY <1>6, <1>12, <1>13, <2>3
    <2>4. CASE /\ Shown(b, i, 1, {"PositionOpened"}, p)
               /\ c = at /\ j = scan.event /\ s = n /\ e.kind = kind /\ e.id = p
      <3>1. old # NoRow
        BY <1>6, <2>4 DEF Shows
      <3>2. /\ kind = "PositionClosed" => stmt = "closePosition"
            /\ kind = "Liquidation" => stmt = "liquidatePosition"
        BY <1>9, <1>13, <2>4
      <3>3. PositionRun(stmt, e, old, row)
        BY <1>5, <1>13, <2>4, <3>2 DEF PositionStatement
      <3> QED
        BY <1>13, <3>1, <3>2, <3>3 DEF PositionRun
    <2>5. CASE /\ b = at /\ i = scan.event /\ s = 1 /\ e.kind = "PositionOpened" /\ e.id = p
               /\ Shown(c, j, n, {kind}, p)
      <3>1. Told(c, j, {kind}, p) /\ c \in Nat /\ kind \in PlaceKinds
        BY <1>13, <2>5 DEF Shown, Told, PlaceKinds, PositionKinds
      <3>2. c <= at
        BY <1>1, <1>2, <2>5, ShownBehind DEF InBlock
      <3>3. Told(at, scan.event, {"PositionOpened"}, p)
        BY <1>3, <2>5
      <3>4. Told(c, j, PlaceKinds, p)
        BY <3>1 DEF Told
      <3>5. c = at
        BY <1>2, <1>8, <3>1, <3>2, <3>3, <3>4 DEF First
      <3>6. j = scan.event
        <4>1. {kind} \cap OrderKinds = {} /\ {"PositionOpened"} \cap OrderKinds = {}
          BY <1>13 DEF OrderKinds
        <4>2. Told(at, j, {kind}, p)
          BY <3>1, <3>5
        <4> QED
          BY ONLY TablesInv, <3>3, <4>1, <4>2, OnePerBlock
      <3>7. e.kind = kind
        BY <1>3, <3>1, <3>5, <3>6
      <3> QED
        BY <1>13, <2>5, <3>7
    <2>6. CASE /\ e.kind = "PositionOpened" /\ e.kind = kind
      BY <1>13, <2>6
    <2> QED
      BY <2>1, <2>2, <2>3, <2>4, <2>5, <2>6
  <1>14. ASSUME NEW b, NEW i, NEW c, NEW j, Shown(b, i, 1, {"PositionOpened"}, p)'
         PROVE  /\ Shown(c, j, 1, {"PositionClosed"}, p)' => row.status = "closed"
                /\ Shown(c, j, 2, {"Liquidation"}, p)' => row.status = "liquidated"
    <2>1. ASSUME Shown(c, j, 1, {"PositionClosed"}, p)' PROVE row.status = "closed"
      <3>1. PICK n, kind, end : n = 1 /\ kind = "PositionClosed" /\ end = "closed"
        OBVIOUS
      <3>2. Shown(c, j, n, {kind}, p)'
        BY <2>1, <3>1
      <3>3. row.status = end
        BY ONLY <1>13, <1>14, <3>1, <3>2
      <3> QED
        BY <3>1, <3>3
    <2>2. ASSUME Shown(c, j, 2, {"Liquidation"}, p)' PROVE row.status = "liquidated"
      <3>1. PICK n, kind, end : n = 2 /\ kind = "Liquidation" /\ end = "liquidated"
        OBVIOUS
      <3>2. Shown(c, j, n, {kind}, p)'
        BY <2>2, <3>1
      <3>3. row.status = end
        BY ONLY <1>13, <1>14, <3>1, <3>2
      <3> QED
        BY <3>1, <3>3
    <2> QED
      BY <2>1, <2>2
  <1> QED
    BY <1>4, <1>10, <1>11, <1>14 DEF PositionShown

LEMMA OrderExecute ==
    ASSUME IInv, TablesInv, ChainTold, TablesShown, Execute, ShowsCurrent, Longer,
           NEW o \in Orders
    PROVE  OrderShown(o)'
  <1>1. PICK e, s, stmt, at : e = Current /\ s = scan.stmt /\ stmt = Todo[scan.stmt] /\ at = scan.at
    OBVIOUS
  <1>2. /\ InBlock /\ db \in Tables /\ e \in EventRecords /\ at \in Nat
        /\ RunsStatement(stmt, e) /\ Table(e.kind, s, stmt)
        /\ db' = Run(db, stmt, e, at)
    BY <1>1, ExecuteRuns
  <1>3. \A K, id : Told(at, scan.event, K, id) <=> e.kind \in K /\ e.id = id
    BY <1>1, <1>2, CurrentTold
  <1>4. PICK old, new : old = db.ord[o] /\ new = db'.ord[o]
    OBVIOUS
  <1>5. IF stmt \in OrderStatement /\ o = e.id THEN OrderRun(stmt, old, new) ELSE new = old
    <2>1. LET n == Run(db, stmt, e, at).ord[o]
          IN  IF stmt \in OrderStatement /\ o = e.id THEN OrderRun(stmt, db.ord[o], n)
                                                     ELSE n = db.ord[o]
      BY ONLY <1>2, OrderRuns, o \in Orders
    <2> QED
      BY ONLY <1>2, <1>4, <2>1
  <1>6. /\ old # "none" => Spoken({"OrderPlaced"}, o)
        /\ \A b, i : Shown(b, i, 1, {"OrderPlaced"}, o) => old # "none"
        /\ \A b, i, c, j : Shown(b, i, 1, {"OrderPlaced"}, o) =>
              /\ Shown(c, j, 1, {"OrderExecuted"}, o) => old = "executed"
              /\ Shown(c, j, 1, {"OrderCancelled"}, o) => old = "cancelled"
    BY <1>4 DEF TablesShown, OrderShown
  <1>7. /\ stmt = "insertOrder" <=> e.kind = "OrderPlaced" /\ s = 1
        /\ stmt = "executeOrder" <=> e.kind = "OrderExecuted" /\ s = 1
        /\ stmt = "cancelOrder" <=> e.kind = "OrderCancelled" /\ s = 1
    BY <1>2 DEF Table
  <1>8. old \in {"executed", "cancelled"} => new = old
    BY <1>4, ExecuteRows DEF TablesAdvance
  <1>9. /\ old # "none" => new # "none"
        /\ stmt = "insertOrder" /\ o = e.id => new # "none"
        /\ old = "none" /\ new # "none" => stmt = "insertOrder" /\ o = e.id
    BY <1>5 DEF OrderRun, OrderStatement
  <1>10. new # "none" => Spoken({"OrderPlaced"}, o)'
    <2>1. Spoken({"OrderPlaced"}, o) => Spoken({"OrderPlaced"}, o)'
      BY DEF Longer, Spoken
    <2>2. stmt = "insertOrder" /\ o = e.id => Told(at, scan.event, {"OrderPlaced"}, o)
      BY <1>3, <1>7
    <2> QED
      BY <1>6, <1>9, <2>1, <2>2 DEF Spoken
  <1>11. ASSUME NEW b, NEW i, Shown(b, i, 1, {"OrderPlaced"}, o)'
         PROVE  \/ Shown(b, i, 1, {"OrderPlaced"}, o)
                \/ b = at /\ i = scan.event /\ s = 1 /\ e.kind = "OrderPlaced" /\ e.id = o
    BY <1>1, <1>11 DEF ShowsCurrent, KeyOf
  <1>12. \A b, i : Shown(b, i, 1, {"OrderPlaced"}, o)' => new # "none"
    BY <1>6, <1>7, <1>9, <1>11
  <1>13. ASSUME NEW b, NEW i, NEW c, NEW j, NEW kind, NEW end,
                Shown(b, i, 1, {"OrderPlaced"}, o)', Shown(c, j, 1, {kind}, o)',
                \/ kind = "OrderExecuted" /\ end = "executed"
                \/ kind = "OrderCancelled" /\ end = "cancelled"
         PROVE  new = end
    <2>1. \/ Shown(c, j, 1, {kind}, o)
          \/ c = at /\ j = scan.event /\ s = 1 /\ e.kind = kind /\ e.id = o
      BY <1>1, <1>13 DEF ShowsCurrent, KeyOf
    <2>2. CASE Shown(b, i, 1, {"OrderPlaced"}, o) /\ Shown(c, j, 1, {kind}, o)
      BY <1>6, <1>8, <1>13, <2>2
    <2>3. CASE Shown(b, i, 1, {"OrderPlaced"}, o) /\ s = 1 /\ e.kind = kind /\ e.id = o
      <3>1. old # "none"
        BY <1>6, <2>3
      <3>2. OrderRun(stmt, old, new)
        BY <1>5, <1>7, <1>13, <2>3 DEF OrderStatement
      <3> QED
        BY <1>7, <1>13, <2>3, <3>1, <3>2 DEF OrderRun
    <2>4. CASE /\ b = at /\ i = scan.event /\ s = 1 /\ e.kind = "OrderPlaced" /\ e.id = o
               /\ Shown(c, j, 1, {kind}, o)
      <3>1. Told(c, j, {"OrderExecuted", "OrderCancelled"}, o) /\ c \in Nat
        BY <1>13, <2>4 DEF Shown, Told
      <3>2. c <= at
        BY <1>1, <1>2, <2>4, ShownBehind DEF InBlock
      <3>3. Told(at, scan.event, {"OrderPlaced"}, o)
        BY <1>3, <2>4
      <3>4. at < c
        BY <3>1, <3>3 DEF ChainTold, OrderTold
      <3> QED
        BY <1>2, <3>1, <3>2, <3>4
    <2>5. CASE e.kind = "OrderPlaced" /\ e.kind = kind
      BY <1>13, <2>5
    <2> QED
      BY <1>11, <1>13, <2>1, <2>2, <2>3, <2>4, <2>5
  <1>14. ASSUME NEW b, NEW i, NEW c, NEW j, Shown(b, i, 1, {"OrderPlaced"}, o)'
         PROVE  /\ Shown(c, j, 1, {"OrderExecuted"}, o)' => new = "executed"
                /\ Shown(c, j, 1, {"OrderCancelled"}, o)' => new = "cancelled"
    <2>1. ASSUME Shown(c, j, 1, {"OrderExecuted"}, o)' PROVE new = "executed"
      <3>1. PICK kind, end : kind = "OrderExecuted" /\ end = "executed"
        OBVIOUS
      <3>2. Shown(c, j, 1, {kind}, o)'
        BY <2>1, <3>1
      <3>3. new = end
        BY ONLY <1>13, <1>14, <3>1, <3>2
      <3> QED
        BY <3>1, <3>3
    <2>2. ASSUME Shown(c, j, 1, {"OrderCancelled"}, o)' PROVE new = "cancelled"
      <3>1. PICK kind, end : kind = "OrderCancelled" /\ end = "cancelled"
        OBVIOUS
      <3>2. Shown(c, j, 1, {kind}, o)'
        BY <2>2, <3>1
      <3>3. new = end
        BY ONLY <1>13, <1>14, <3>1, <3>2
      <3> QED
        BY <3>1, <3>3
    <2> QED
      BY <2>1, <2>2
  <1> QED
    BY <1>4, <1>10, <1>12, <1>14 DEF OrderShown

LEMMA NextTold ==
    ASSUME IInv, TablesInv, ChainTold, TablesShown, [Next]_vars
    PROVE  ChainTold' /\ TablesShown'
  <1>1. CASE ChainStep
    <2>1. ChainTold' /\ UNCHANGED indexerVars
      BY <1>1, ChainToldKept DEF ChainStep
    <2>2. PICK ev, h : Extended(ev, h)
      BY <1>1, ChainToldKept DEF ChainStep
    <2>3. ShowsNothing /\ Longer
      BY <2>1, <2>2, ChainShows
    <2>4. UNCHANGED db
      BY <2>1 DEF indexerVars
    <2> QED
      BY <2>1, <2>3, <2>4, TablesStay
  <1>2. ASSUME UNCHANGED chainVars
        PROVE  ChainTold'
    <2>1. /\ \A b : Logs(b)' = Logs(b)
          /\ \A b, i, K, id : Told(b, i, K, id)' <=> Told(b, i, K, id)
      BY <1>2, SameLog
    <2>2. onchain' = onchain
      BY <1>2 DEF chainVars
    <2>3. /\ \A K, id, v : LastWrite(K, id, v)' <=> LastWrite(K, id, v)
          /\ \A K, id : Silent(K, id)' <=> Silent(K, id)
          /\ \A K, id : Spoken(K, id)' <=> Spoken(K, id)
          /\ \A F, K, id : First(F, K, id)' <=> First(F, K, id)
      BY <2>1 DEF LastWrite, Silent, Spoken, First
    <2>4. SettingsTold'
      <3>1. PricesTold'
        BY <2>1, <2>2 DEF PricesTold, ChainTold, SettingsTold
      <3> QED
        BY <2>1, <2>2, <2>3, <3>1 DEF ChainTold, SettingsTold, SettingTold
    <2>5. \A p \in Positions : PositionTold(p)'
      BY <2>2, <2>3 DEF ChainTold, PositionTold
    <2>6. \A o \in Orders : OrderTold(o)'
      BY <2>1, <2>2, <2>3 DEF ChainTold, OrderTold
    <2> QED
      BY <2>1, <2>4, <2>5, <2>6 DEF ChainTold, OrdersApart
  <1>3. CASE Execute
    <2>1. UNCHANGED chainVars
      BY <1>3 DEF Execute
    <2>2. ShowsCurrent /\ Longer
      BY <1>3, ExecuteShows
    <2>3. SettingsShown' /\ LiquidationsShown'
      BY <1>3, <2>2, SettingsExecute, LiquidationsExecute
    <2>4. \A p \in Positions : PositionShown(p)'
      BY <1>3, <2>2, PositionExecute
    <2>5. \A o \in Orders : OrderShown(o)'
      BY <1>3, <2>2, OrderExecute
    <2> QED
      BY <1>2, <2>1, <2>3, <2>4, <2>5 DEF TablesShown
  <1>4. CASE Fail \/ Refuse
    <2>1. UNCHANGED <<chainVars, db>>
      BY <1>4 DEF Fail, Refuse
    <2> QED
      BY <1>2, <1>4, <2>1, SkipShows, TablesStay
  <1>5. CASE \/ EndBlock \/ Record \/ Boot \/ StartScan \/ GoLive \/ RecordFails \/ Signal
             \/ Exit \/ Crash
    <2>1. UNCHANGED <<chainVars, db>>
      BY <1>5 DEF EndBlock, Record, Boot, StartScan, GoLive, RecordFails, Signal, Exit, Crash
    <2> QED
      BY <1>2, <1>5, <2>1, OtherShows, TablesStay
  <1>6. CASE UNCHANGED vars
    <2>1. UNCHANGED <<chainVars, db, scan, lastIndexed, lost>>
      BY <1>6 DEF vars, indexerVars
    <2>2. Longer /\ \A b, i, K, id : Told(b, i, K, id)' <=> Told(b, i, K, id)
      BY <2>1, SameLog
    <2>3. \A b, i, s : Done(b, i, s)' <=> Done(b, i, s)
      BY <2>1 DEF Done, InBatch
    <2>4. ShowsNothing
      BY <2>2, <2>3 DEF ShowsNothing, Shown
    <2> QED
      BY <1>2, <2>1, <2>2, <2>4, TablesStay
  <1> QED
    BY <1>1, <1>3, <1>4, <1>5, <1>6 DEF Next, IndexerNext

LEMMA TablesFollow == Spec => [](IInv /\ TablesInv /\ ChainTold /\ TablesShown)
  <1>1. Init => ChainTold /\ TablesShown
    BY InitTold
  <1>2. IInv /\ TablesInv /\ ChainTold /\ TablesShown /\ [Next]_vars
           => ChainTold' /\ TablesShown'
    BY NextTold
  <1> QED
    BY <1>1, <1>2, InvariantHolds, PTL DEF Spec

-----------------------------------------------------------------------------
(* Counting: a bag of single copies, and objects by the blocks that tell   *)
(* of them.                                                                *)

\* A set of naturals that is not empty has a least element.
LEMMA LeastNumber ==
    ASSUME NEW W, W \subseteq Nat, W # {}
    PROVE  \E n \in W : \A m \in W : n <= m
  <1> DEFINE R == OpToRel(<, Nat)
  <1>1. PICK n \in W : \A m \in W : <<m, n>> \notin R
    <2>1. IsWellFoundedOn(R, Nat)
      BY NatLessThanWellFounded
    <2> HIDE DEF R
    <2> QED
      BY <2>1, WFMin
  <1>2. \A m \in W : <<m, n>> \in Nat \X Nat
    OBVIOUS
  <1>3. \A m \in W : ~(m < n)
    BY <1>1, <1>2 DEF OpToRel
  <1> QED
    BY <1>3

LEMMA OneCopyEach ==
    ASSUME NEW S, IsFiniteSet(S), NEW B, B = [r \in S |-> 1]
    PROVE  BagCardinality(B) = Cardinality(S)
  <1> DEFINE some(T) == CHOOSE e \in T : TRUE
             Sums(g) == g = [T \in SUBSET S |-> IF T = {} THEN 0 ELSE B[some(T)] + g[T \ {some(T)}]]
  <1>1. BagCardinality(B) = (CHOOSE g : Sums(g))[S]
    <2>1. DOMAIN B = S
      OBVIOUS
    <2> QED
      BY <2>1 DEF BagCardinality
  <1>2. ASSUME NEW T \in SUBSET S
        PROVE  /\ IsFiniteSet(T) /\ Cardinality(T) \in Nat
               /\ T = {} => Cardinality(T) = 0
               /\ T # {} => /\ some(T) \in T /\ B[some(T)] = 1
                            /\ T \ {some(T)} \in SUBSET S
                            /\ Cardinality(T \ {some(T)}) = Cardinality(T) - 1
    <2>1. IsFiniteSet(T) /\ Cardinality(T) \in Nat
      BY FS_Subset, FS_CardinalityType
    <2>2. T = {} => Cardinality(T) = 0
      BY FS_EmptySet
    <2>3. ASSUME T # {}
          PROVE  /\ some(T) \in T /\ B[some(T)] = 1
                 /\ T \ {some(T)} \in SUBSET S
                 /\ Cardinality(T \ {some(T)}) = Cardinality(T) - 1
      <3>1. some(T) \in T
        BY <2>3
      <3>2. some(T) \in S
        BY <3>1
      <3> HIDE DEF some
      <3>3. B[some(T)] = 1
        BY <3>2
      <3>4. Cardinality(T \ {some(T)}) = Cardinality(T) - 1
        BY <2>1, <3>1, FS_RemoveElement
      <3> QED
        BY <3>1, <3>3, <3>4
    <2> QED
      BY <2>1, <2>2, <2>3
  <1> HIDE DEF some
  <1>3. Sums([T \in SUBSET S |-> Cardinality(T)])
    <2> DEFINE count == [T \in SUBSET S |-> Cardinality(T)]
    <2>1. ASSUME NEW T \in SUBSET S
          PROVE  Cardinality(T) = IF T = {} THEN 0 ELSE B[some(T)] + count[T \ {some(T)}]
      <3>1. CASE T = {}
        BY <1>2, <3>1
      <3>2. CASE T # {}
        <4>1. count[T \ {some(T)}] = Cardinality(T) - 1
          BY <1>2, <3>2
        <4> QED
          BY <1>2, <3>2, <4>1
      <3> QED
        BY <3>1, <3>2
    <2> QED
      BY <2>1
  <1>4. PICK g : g = (CHOOSE x : Sums(x)) /\ Sums(g)
    <2> HIDE DEF Sums
    <2> QED
      BY <1>3
  <1>5. ASSUME NEW T \in SUBSET S
        PROVE  g[T] = IF T = {} THEN 0 ELSE B[some(T)] + g[T \ {some(T)}]
    BY <1>4
  <1>6. \A T \in SUBSET S : g[T] = Cardinality(T)
    <2> DEFINE W == {n \in Nat : \E T \in SUBSET S : Cardinality(T) = n /\ g[T] # n}
    <2>1. SUFFICES ASSUME W # {} PROVE FALSE
      BY <1>2
    <2>2. PICK n \in W : \A m \in W : n <= m
      BY <2>1, LeastNumber
    <2>3. PICK T \in SUBSET S : Cardinality(T) = n /\ g[T] # n
      BY <2>2
    <2>4. T # {}
      BY <1>2, <1>5, <2>3
    <2>5. PICK U \in SUBSET S : U = T \ {some(T)} /\ Cardinality(U) = n - 1 /\ Cardinality(U) \in Nat
      BY <1>2, <2>3, <2>4
    <2>6. g[U] = n - 1
      <3>1. n - 1 \notin W /\ n - 1 \in Nat
        BY <2>2, <2>5
      <3> QED
        BY <2>5, <3>1
    <2>7. g[T] = 1 + g[U]
      BY <1>2, <1>5, <2>4, <2>5
    <2> QED
      BY <2>2, <2>3, <2>6, <2>7
  <1> QED
    BY <1>1, <1>4, <1>6

\* No more objects than blocks, when each is told of in a block of its own.
LEMMA ABlockEach ==
    ASSUME NEW ids, NEW K, ChainHead \in Nat, \A p \in ids : Spoken(K, p),
           \A b, i, j, p, q : Told(b, i, K, p) /\ Told(b, j, K, q) => i = j
    PROVE  /\ IsFiniteSet(ids) /\ Cardinality(ids) \in Nat
           /\ Cardinality(ids) <= ChainHead
  <1> DEFINE block(p) == CHOOSE b : \E i : Told(b, i, K, p)
             f == [p \in ids |-> block(p)]
  <1>1. ASSUME NEW p \in ids
        PROVE  f[p] \in 1..ChainHead /\ \E i : Told(f[p], i, K, p)
    <2>1. \E b : \E i : Told(b, i, K, p)
      BY DEF Spoken
    <2>2. \E i : Told(block(p), i, K, p)
      BY <2>1
    <2> HIDE DEF block
    <2> QED
      BY <2>2 DEF Told
  <1> HIDE DEF block
  <1>2. DOMAIN f = ids /\ f \in [ids -> 1..ChainHead]
    <2>1. \A p \in ids : block(p) \in 1..ChainHead
      BY <1>1
    <2> QED
      BY <2>1
  <1> HIDE DEF f
  <1>3. ASSUME NEW p \in ids, NEW q \in ids, f[p] = f[q]
        PROVE  p = q
    <2>1. PICK b : b = f[p]
      OBVIOUS
    <2>2. PICK i, j : Told(b, i, K, p) /\ Told(b, j, K, q)
      BY <1>1, <1>3, <2>1
    <2>3. i = j
      BY <2>2
    <2> QED
      BY <2>2, <2>3 DEF Told
  <1>4. f \in Injection(ids, 1..ChainHead)
    BY <1>2, <1>3 DEF Injection, IsInjective
  <1>5. IsFiniteSet(1..ChainHead) /\ Cardinality(1..ChainHead) = ChainHead
    <2>1. 1 \in Int /\ ChainHead \in Int
      OBVIOUS
    <2> QED
      BY <2>1, FS_Interval
  <1>6. IsFiniteSet(ids) /\ Cardinality(ids) <= ChainHead
    BY <1>4, <1>5, FS_Injection
  <1> QED
    BY <1>6, FS_CardinalityType

\* A page as long as the chain lists them all.
LEMMA ListsAll ==
    ASSUME NEW ids, IsFiniteSet(ids), Cardinality(ids) <= ChainHead, ChainHead \in Nat,
           ChainHead <= MaxBlock
    PROVE  Newest(ids, AllIds, AllIds) = ids
  <1>1. Page(AllIds, AllIds) = MaxBlock * 2
    BY DEF Page, AllIds
  <1>2. MaxBlock \in Nat
    BY BlockAssumption
  <1>3. ASSUME NEW i \in ids
        PROVE  Cardinality({j \in ids : j >= i}) <= MaxBlock * 2
    <2> DEFINE newer == {j \in ids : j >= i}
    <2>1. newer \in SUBSET ids
      OBVIOUS
    <2> HIDE DEF newer
    <2>2. IsFiniteSet(newer) /\ Cardinality(newer) <= Cardinality(ids)
      BY <2>1, FS_Subset
    <2>3. Cardinality(newer) \in Nat /\ Cardinality(ids) \in Nat
      BY <2>2, FS_CardinalityType
    <2>4. Cardinality(newer) <= MaxBlock * 2
      BY <1>2, <2>2, <2>3
    <2> QED
      BY <2>4 DEF newer
  <1> QED
    BY <1>1, <1>3 DEF Newest

-----------------------------------------------------------------------------
(* At the head, with no handler cut short, every event has been shown, so  *)
(* the tables' values are the chain's.                                     *)

LEMMA AllShown ==
    ASSUME UpToDate, NEW b, NEW i, NEW s, NEW K, NEW id, Told(b, i, K, id)
    PROVE  Shown(b, i, s, K, id)
  BY DEF UpToDate, Shown, Done, Told

\* What was written last is what was read last.
LEMMA ReadsLast ==
    ASSUME TablesInv, UpToDate, ChainHead \in Nat, NEW K, K \cap OrderKinds = {}, NEW id,
           NEW v, NEW w, LastWrite(K, id, v), LastRead(K, id, w)
    PROVE  v = w
  <1>1. PICK b, i : /\ Told(b, i, K, id) /\ ValueIn(Logs(b)[i]) = v
                    /\ \A c, j : Told(c, j, K, id) => c <= b
    BY DEF LastWrite
  <1>2. PICK c, j : /\ Told(c, j, K, id) /\ ValueIn(Logs(c)[j]) = w
                    /\ \A d, k : Shown(d, k, 1, K, id) => d <= c
    BY DEF LastRead
  <1>3. b <= c /\ c <= b /\ b \in Nat /\ c \in Nat
    <2>1. Shown(b, i, 1, K, id)
      BY <1>1, AllShown
    <2> QED
      BY <1>1, <1>2, <2>1 DEF Told
  <1>4. b = c
    BY <1>3
  <1>5. Told(b, j, K, id)
    BY <1>2, <1>4
  <1>6. i = j
    BY ONLY TablesInv, <1>1, <1>5, K \cap OrderKinds = {}, OnePerBlock
  <1> QED
    BY <1>1, <1>2, <1>4, <1>6

LEMMA SettingMirrored ==
    ASSUME TablesInv, UpToDate, ChainHead \in Nat, NEW K, K \cap OrderKinds = {},
           NEW F, NEW v, NEW w, NEW unset,
           SettingTold(K, F, v, unset), Shows(K, F, 0, w # unset, w)
    PROVE  v = w
  <1>1. CASE v = unset
    BY <1>1 DEF SettingTold, Shows, LastRead, Silent
  <1>2. CASE v # unset
    <2>1. LastWrite(K, 0, v) /\ Spoken(F, 0)
      BY <1>2 DEF SettingTold
    <2>2. w # unset
      BY <2>1, AllShown DEF Spoken, Shows
    <2>3. LastRead(K, 0, w)
      BY <2>2 DEF Shows
    <2> QED
      BY <2>1, <2>3, ReadsLast
  <1> QED
    BY <1>1, <1>2

LEMMA SettingsMirrored ==
    ASSUME TablesInv, ChainTold, TablesShown, UpToDate, ChainHead \in Nat
    PROVE  <<db.fees, db.market, db.token, db.vault>>
              = <<onchain.fees, onchain.market, onchain.token, onchain.vault>>
  <1>1. /\ MarketKinds \cap OrderKinds = {} /\ TokenKinds \cap OrderKinds = {}
        /\ {"VaultCreated"} \cap OrderKinds = {} /\ {"FeesUpdated"} \cap OrderKinds = {}
    BY DEF MarketKinds, TokenKinds, OrderKinds
  <1>2. db.market = onchain.market
    <2>1. PICK K, F, v, w, unset : /\ K = MarketKinds /\ F = {"MarketCreated"} /\ unset = "none"
                                   /\ v = onchain.market /\ w = db.market
      OBVIOUS
    <2>2. SettingTold(K, F, v, unset)
      BY <2>1 DEF ChainTold, SettingsTold
    <2>3. Shows(K, F, 0, w # unset, w)
      BY <2>1 DEF TablesShown, SettingsShown
    <2>4. K \cap OrderKinds = {}
      BY <1>1, <2>1
    <2>5. v = w
      BY ONLY TablesInv, UpToDate, ChainHead \in Nat, <2>2, <2>3, <2>4, SettingMirrored
    <2> QED
      BY <2>1, <2>5
  <1>3. db.token = onchain.token
    <2>1. PICK K, F, v, w, unset : /\ K = TokenKinds /\ F = {"CollateralAdded"} /\ unset = "none"
                                   /\ v = onchain.token /\ w = db.token
      OBVIOUS
    <2>2. SettingTold(K, F, v, unset)
      BY <2>1 DEF ChainTold, SettingsTold
    <2>3. Shows(K, F, 0, w # unset, w)
      BY <2>1 DEF TablesShown, SettingsShown
    <2>4. K \cap OrderKinds = {}
      BY <1>1, <2>1
    <2>5. v = w
      BY ONLY TablesInv, UpToDate, ChainHead \in Nat, <2>2, <2>3, <2>4, SettingMirrored
    <2> QED
      BY <2>1, <2>5
  <1>4. db.vault = onchain.vault
    <2>1. PICK K, F, v, w, unset : /\ K = {"VaultCreated"} /\ F = {"VaultCreated"} /\ unset = "none"
                                   /\ v = onchain.vault /\ w = db.vault
      OBVIOUS
    <2>2. SettingTold(K, F, v, unset)
      BY <2>1 DEF ChainTold, SettingsTold
    <2>3. Shows(K, F, 0, w # unset, w)
      BY <2>1 DEF TablesShown, SettingsShown
    <2>4. K \cap OrderKinds = {}
      BY <1>1, <2>1
    <2>5. v = w
      BY ONLY TablesInv, UpToDate, ChainHead \in Nat, <2>2, <2>3, <2>4, SettingMirrored
    <2> QED
      BY <2>1, <2>5
  <1>5. db.fees = onchain.fees
    <2>1. PICK K, F, v, w, unset : /\ K = {"FeesUpdated"} /\ F = {"FeesUpdated"} /\ unset = 0
                                   /\ v = onchain.fees /\ w = db.fees
      OBVIOUS
    <2>2. SettingTold(K, F, v, unset)
      BY <2>1 DEF ChainTold, SettingsTold
    <2>3. Shows(K, F, 0, w # unset, w)
      BY <2>1 DEF TablesShown, SettingsShown
    <2>4. K \cap OrderKinds = {}
      BY <1>1, <2>1
    <2>5. v = w
      BY ONLY TablesInv, UpToDate, ChainHead \in Nat, <2>2, <2>3, <2>4, SettingMirrored
    <2> QED
      BY <2>1, <2>5
  <1> QED
    BY <1>2, <1>3, <1>4, <1>5

LEMMA PricesMirrored ==
    ASSUME TablesInv, ChainTold, TablesShown, UpToDate, ChainHead \in Nat, PostedByOracle
    PROVE  db.prices = onchain.prices
  <1> DEFINE P == {"PricesUpdated"}
  <1>1. Shows(P, P, 0, db.prices # 0, db.prices)
    BY DEF TablesShown, SettingsShown
  <1>2. \A b, i : Told(b, i, P, 0) => b <= onchain.prices /\ Logs(b)[i].val = b
    BY DEF ChainTold, SettingsTold, PricesTold
  <1>3. ASSUME db.prices # 0
        PROVE  /\ db.prices \in 1..ChainHead /\ db.prices <= onchain.prices
               /\ \A c, j : Told(c, j, P, 0) => c <= db.prices
    <2>1. PICK b, i : /\ Told(b, i, P, 0) /\ ValueIn(Logs(b)[i]) = db.prices
                      /\ \A c, j : Shown(c, j, 1, P, 0) => c <= b
      BY <1>1, <1>3 DEF Shows, LastRead
    <2>2. b \in 1..ChainHead /\ ValueIn(Logs(b)[i]) = b
      BY <1>2, <2>1 DEF Told, ValueIn
    <2> QED
      BY <1>2, <2>1, <2>2, AllShown
  <1>4. onchain.prices \in Nat
    BY DEF TablesInv, LogsTrue, OnchainStates
  <1>5. CASE onchain.prices = 0
    BY <1>3, <1>5
  <1>6. CASE onchain.prices # 0
    <2>1. Logs(onchain.prices)[1].kind = "PricesUpdated"
      BY <1>6 DEF PostedByOracle
    <2>2. PICK i : Told(onchain.prices, i, {"PricesUpdated", "KeeperCycle"}, 0)
      BY <1>6 DEF ChainTold, SettingsTold, PricesTold
    <2>3. onchain.prices \in 1..ChainHead /\ 1 \in 1..Len(Logs(onchain.prices))
      <3>1. onchain.prices \in 1..ChainHead /\ i \in 1..Len(Logs(onchain.prices))
        BY <2>2 DEF Told
      <3>2. GoodLogs(Logs(onchain.prices), onchain)
        BY <3>1 DEF TablesInv, LogsTrue
      <3>3. Len(Logs(onchain.prices)) \in Nat
        BY <3>2, LenProperties DEF GoodLogs
      <3> QED
        BY <3>1, <3>3
    <2>4. PICK id : id = Logs(onchain.prices)[1].id
      OBVIOUS
    <2>5. Told(onchain.prices, 1, SettingKinds, id)
      BY <2>1, <2>3, <2>4 DEF Told, SettingKinds
    <2>6. id = 0
      BY <2>5 DEF ChainTold, SettingsTold
    <2>7. Told(onchain.prices, 1, P, 0)
      BY <2>1, <2>3, <2>4, <2>6 DEF Told
    <2>8. db.prices # 0
      BY <1>1, <2>7, AllShown DEF Shows
    <2>9. db.prices \in 1..ChainHead /\ db.prices <= onchain.prices /\ onchain.prices <= db.prices
      BY <1>3, <2>7, <2>8
    <2> QED
      BY <1>4, <2>9
  <1> QED
    BY <1>5, <1>6

LEMMA PositionMirrored ==
    ASSUME TablesInv, ChainTold, TablesShown, UpToDate, ChainHead \in Nat, NEW p \in Positions
    PROVE  /\ db.pos[p].status = "open" <=> onchain.pos[p].status \in {"open", "deleveraged"}
           /\ db.pos[p].status = "liquidated" <=> onchain.pos[p].status = "liquidated"
           /\ Reduced(p) \/ db.pos[p].size = onchain.pos[p].size
           /\ db.pos[p].status # "none" => Spoken({"PositionOpened"}, p)
           /\ db.pos[p].status = "liquidated" => Spoken({"Liquidation"}, p)
  <1>1. PICK row, old : row = onchain.pos[p] /\ old = db.pos[p]
    OBVIOUS
  <1>2. /\ row.status = "none" => row.size = 0 /\ Silent(PlaceKinds, p)
        /\ row.status # "none" => Spoken({"PositionOpened"}, p)
        /\ row.status = "closed" => Spoken({"PositionClosed"}, p)
        /\ row.status = "liquidated" => Spoken({"Liquidation"}, p)
        /\ \/ row.status = "none" \/ LastWrite(SizeKinds, p, row.size)
           \/ Spoken({"PartiallyClosed", "Deleveraged"}, p)
    BY <1>1 DEF ChainTold, PositionTold
  <1>3. /\ old.status \in {"none", "open", "closed", "liquidated"}
        /\ old.status = "none" => old = NoRow
        /\ Shows(SizeKinds, {"PositionOpened"}, p, old # NoRow, old.size)
        /\ \A b, i, c, j : Shown(b, i, 1, {"PositionOpened"}, p) =>
             /\ Shown(c, j, 1, {"PositionClosed"}, p) => old.status = "closed"
             /\ Shown(c, j, 2, {"Liquidation"}, p) => old.status = "liquidated"
    BY <1>1 DEF TablesShown, PositionShown
  <1>4. old.status \in {"closed", "liquidated"} => old.status = row.status
    BY <1>1 DEF TablesInv, RowsTrue
  <1>5. row.status \in PositionStatus
    BY <1>1 DEF TablesInv, LogsTrue, OnchainStates, Row
  <1>6. ASSUME Spoken({"PartiallyClosed", "Deleveraged"}, p)
        PROVE  Reduced(p)
    BY <1>6 DEF Spoken, Told, Reduced, Happened
  <1>7. CASE row.status = "none"
    <2>1. old = NoRow
      <3>1. SUFFICES ASSUME old # NoRow PROVE FALSE
        OBVIOUS
      <3>2. PICK b, i : Told(b, i, SizeKinds, p)
        BY <1>3, <3>1 DEF Shows, LastRead
      <3>3. Told(b, i, PlaceKinds, p)
        BY <3>2 DEF Told, SizeKinds, PlaceKinds, PositionKinds
      <3> QED
        BY <1>2, <1>7, <3>3 DEF Silent
    <2> QED
      BY <1>1, <1>2, <1>7, <2>1 DEF NoRow
  <1>8. CASE row.status # "none"
    <2>1. PICK b, i : Told(b, i, {"PositionOpened"}, p) /\ Shown(b, i, 1, {"PositionOpened"}, p)
      BY <1>2, <1>8, AllShown DEF Spoken
    <2>2. old # NoRow /\ old.status # "none"
      BY <1>3, <2>1 DEF Shows
    <2>3. row.status = "closed" => old.status = "closed"
      BY <1>2, <1>3, <2>1, AllShown DEF Spoken
    <2>4. row.status = "liquidated" => old.status = "liquidated"
      BY <1>2, <1>3, <2>1, AllShown DEF Spoken
    <2>5. Reduced(p) \/ old.size = row.size
      <3>1. SUFFICES ASSUME ~Reduced(p) PROVE old.size = row.size
        OBVIOUS
      <3>2. LastWrite(SizeKinds, p, row.size)
        BY <1>2, <1>6, <1>8, <3>1
      <3>3. LastRead(SizeKinds, p, old.size)
        BY <1>3, <2>2 DEF Shows
      <3>4. SizeKinds \cap OrderKinds = {}
        BY DEF SizeKinds, OrderKinds
      <3> QED
        BY <3>2, <3>3, <3>4, ReadsLast
    <2> QED
      BY <1>1, <1>2, <1>3, <1>4, <1>5, <1>8, <2>2, <2>3, <2>4, <2>5 DEF PositionStatus
  <1> QED
    BY <1>7, <1>8

LEMMA OrderMirrored ==
    ASSUME TablesInv, ChainTold, TablesShown, UpToDate, ChainHead \in Nat, NEW o \in Orders
    PROVE  /\ db.ord[o] = "active" <=> onchain.ord[o] = "active"
           /\ db.ord[o] = "active" => Spoken({"OrderPlaced"}, o)
  <1>1. PICK old, new : old = db.ord[o] /\ new = onchain.ord[o]
    OBVIOUS
  <1>2. OrderTold(o) /\ OrderShown(o)
    BY DEF ChainTold, TablesShown
  <1>3. old \in OrderStatus /\ new \in OrderStatus /\ (old \in {"executed", "cancelled"} => old = new)
    BY <1>1 DEF TablesInv, RowsTrue, LogsTrue, OnchainStates, Tables
  <1>4. new = "none" => old = "none"
    BY <1>1, <1>2 DEF OrderTold, OrderShown, Silent, Spoken, Told, OrderKinds
  <1>5. ASSUME new # "none"
        PROVE  /\ old # "none"
               /\ new = "executed" => old = "executed"
               /\ new = "cancelled" => old = "cancelled"
    <2>1. PICK b, i : Shown(b, i, 1, {"OrderPlaced"}, o)
      BY <1>1, <1>2, <1>5, AllShown DEF OrderTold, Spoken
    <2>2. old # "none"
      BY <1>1, <1>2, <2>1 DEF OrderShown
    <2>3. new = "executed" => old = "executed"
      BY <1>1, <1>2, <2>1, AllShown DEF OrderTold, OrderShown, Spoken
    <2>4. new = "cancelled" => old = "cancelled"
      BY <1>1, <1>2, <2>1, AllShown DEF OrderTold, OrderShown, Spoken
    <2> QED
      BY <2>2, <2>3, <2>4
  <1>6. old = "active" => Spoken({"OrderPlaced"}, o)
    BY <1>1, <1>2 DEF OrderShown
  <1> QED
    BY <1>1, <1>3, <1>4, <1>5, <1>6 DEF OrderStatus

\* One liquidation row for each position liquidated.
LEMMA LiquidationsCounted ==
    ASSUME IInv, TablesInv, ChainTold, TablesShown, UpToDate, ChainHead \in Nat, ~interrupted
    PROVE  Rows(db, "liquidations") = Cardinality({p \in Positions : onchain.pos[p].status = "liquidated"})
  <1> DEFINE K == {"Liquidation"}
             L == {p \in Positions : onchain.pos[p].status = "liquidated"}
             of == {r \in DOMAIN db.rows : r[1] = "liquidations"}
             block(p) == CHOOSE b : \E i : Told(b, i, K, p)
             f == [p \in L |-> LiquidationRow(block(p))]
  <1>1. K \cap OrderKinds = {}
    BY DEF OrderKinds
  <1>2. \A b, i, j, p, q : Told(b, i, K, p) /\ Told(b, j, K, q) => i = j
    BY <1>1, OnePerBlock
  <1>3. ASSUME NEW p \in L
        PROVE  Spoken(K, p) /\ \E i : Told(block(p), i, K, p)
    <2>1. Spoken(K, p)
      BY DEF ChainTold, PositionTold
    <2>2. \E b : \E i : Told(b, i, K, p)
      BY <2>1 DEF Spoken
    <2> QED
      BY <2>1, <2>2
  <1> HIDE DEF block
  <1>4. IsFiniteSet(L)
    <2> HIDE DEF L, K
    <2> QED
      BY <1>2, <1>3, ABlockEach
  <1>5. ASSUME NEW p \in L
        PROVE  LiquidationRow(block(p)) \in of
    <2>1. PICK i : Told(block(p), i, K, p)
      BY <1>3
    <2>2. Shown(block(p), i, 1, K, p)
      BY <2>1, AllShown
    <2>3. LiquidationRow(block(p)) \in DOMAIN db.rows
      BY <2>2 DEF TablesShown, LiquidationsShown
    <2> QED
      BY <2>3 DEF LiquidationRow
  <1>6. f \in [L -> of] /\ \A p \in L : f[p] = LiquidationRow(block(p))
    <2> HIDE DEF L, of
    <2> QED
      BY <1>5
  <1>7. ASSUME NEW p \in L, NEW q \in L, block(p) = block(q)
        PROVE  p = q
    <2>1. PICK b : b = block(p)
      OBVIOUS
    <2>2. PICK i, j : Told(b, i, K, p) /\ Told(b, j, K, q)
      BY <1>3, <1>7, <2>1
    <2>3. i = j
      BY <1>2, <2>2
    <2> QED
      BY <2>2, <2>3 DEF Told
  <1>8. ASSUME NEW r \in of
        PROVE  \E p \in L : LiquidationRow(block(p)) = r
    <2>1. PICK S \in SUBSET (HistoryTables \X Nat) : db.rows \in [S -> Nat]
      BY DEF TablesInv, RowsTrue, Tables, History
    <2>2. PICK b : r = LiquidationRow(b) /\ LiquidationRow(b) \in DOMAIN db.rows
      BY <2>1 DEF LiquidationRow
    <2>3. PICK i, p : p \in Positions /\ Told(b, i, K, p)
      BY <2>2 DEF TablesShown, LiquidationsShown
    <2>4. p \in L
      BY <2>3 DEF TablesInv, LogsTrue, GoodLogs, TrueOf, Told
    <2>5. PICK c, j : c = block(p) /\ Told(c, j, K, p)
      BY <1>3, <2>4
    <2>6. First(K, K, p)
      BY <2>3 DEF ChainTold, PositionTold
    <2>7. b <= c /\ c <= b /\ b \in Nat /\ c \in Nat
      BY <2>3, <2>5, <2>6 DEF First, Told
    <2>8. b = c
      BY <2>7
    <2> QED
      BY <2>2, <2>4, <2>5, <2>8
  <1>9. f \in Bijection(L, of)
    <2> HIDE DEF L, of, f
    <2>1. f \in Injection(L, of)
      BY <1>6, <1>7 DEF Injection, IsInjective, LiquidationRow
    <2>2. f \in Surjection(L, of)
      BY <1>6, <1>8 DEF Surjection
    <2> QED
      BY <2>1, <2>2 DEF Bijection
  <1>10. IsFiniteSet(of) /\ Cardinality(of) = Cardinality(L)
    <2> HIDE DEF L, of, f
    <2> QED
      BY <1>4, <1>9, FS_Bijection DEF ExistsBijection
  <1>11. \A r \in of : db.rows[r] = 1
    BY DEF TablesInv, HistoryTrue
  <1>12. [r \in of |-> db.rows[r]] = [r \in of |-> 1]
    <2> HIDE DEF of
    <2> QED
      BY <1>11
  <1>13. Rows(db, "liquidations") = BagCardinality([r \in of |-> db.rows[r]])
    BY DEF Rows
  <1>14. BagCardinality([r \in of |-> 1]) = Cardinality(of)
    <2> HIDE DEF of
    <2> QED
      BY <1>10, OneCopyEach
  <1> HIDE DEF of, L
  <1>15. Rows(db, "liquidations") = Cardinality(L)
    BY <1>10, <1>12, <1>13, <1>14
  <1> QED
    BY <1>15 DEF L

LEMMA Mirrored ==
    ASSUME IInv, TablesInv, ChainTold, TablesShown, ChainHead <= MaxBlock
    PROVE  MirrorsChain
  <1> SUFFICES ASSUME UpToDate
               PROVE  /\ positions(db, "open", AllIds, AllIds)
                            = {p \in Positions : onchain.pos[p].status \in {"open", "deleveraged"}}
                      /\ orders(db, "active", AllIds, AllIds)
                            = {o \in Orders : onchain.ord[o] = "active"}
                      /\ userStats(db).liquidated
                            = Cardinality({p \in Positions : onchain.pos[p].status = "liquidated"})
                      /\ \A p \in Positions : Reduced(p) \/ db.pos[p].size = onchain.pos[p].size
                      /\ PostedByOracle => marketStats(db).latestPrice = onchain.prices
                      /\ interrupted \/ marketStats(db).liquidations = userStats(db).liquidated
                      /\ <<db.fees, db.market, db.token, db.vault>>
                            = <<onchain.fees, onchain.market, onchain.token, onchain.vault>>
    BY DEF MirrorsChain
  <1>1. ChainHead \in Nat
    BY HeadIsNat DEF IInv
  <1>2. DOMAIN db.pos = Positions /\ DOMAIN db.ord = Orders
    BY DEF TablesInv, RowsTrue, Tables
  <1> DEFINE open == {p \in Positions : onchain.pos[p].status \in {"open", "deleveraged"}}
             active == {o \in Orders : onchain.ord[o] = "active"}
             liquidated == {p \in Positions : onchain.pos[p].status = "liquidated"}
  <1>3. positions(db, "open", AllIds, AllIds) = open
    <2>1. {p \in DOMAIN db.pos : db.pos[p].status = "open"} = open
      BY <1>1, <1>2, PositionMirrored
    <2>2. \A p \in open : Spoken({"PositionOpened"}, p)
      BY <1>1, PositionMirrored
    <2>3. \A b, i, j, p, q : Told(b, i, {"PositionOpened"}, p) /\ Told(b, j, {"PositionOpened"}, q)
                               => i = j
      <3>1. {"PositionOpened"} \cap OrderKinds = {}
        BY DEF OrderKinds
      <3> QED
        BY <3>1, OnePerBlock
    <2> HIDE DEF open
    <2>4. IsFiniteSet(open) /\ Cardinality(open) <= ChainHead
      BY <1>1, <2>2, <2>3, ABlockEach
    <2>5. Newest(open, AllIds, AllIds) = open
      BY <1>1, <2>4, ListsAll
    <2> QED
      BY <2>1, <2>5 DEF positions
  <1>4. orders(db, "active", AllIds, AllIds) = active
    <2>1. {o \in DOMAIN db.ord : db.ord[o] = "active"} = active
      BY <1>1, <1>2, OrderMirrored
    <2>2. \A o \in active : Spoken({"OrderPlaced"}, o)
      BY <1>1, OrderMirrored
    <2>3. \A b, i, j, p, q : Told(b, i, {"OrderPlaced"}, p) /\ Told(b, j, {"OrderPlaced"}, q)
                               => i = j
      <3>1. \A b, i, o : Told(b, i, {"OrderPlaced"}, o) => Told(b, i, OrderKinds, o)
        BY DEF Told, OrderKinds
      <3> QED
        BY <3>1 DEF ChainTold, OrdersApart
    <2> HIDE DEF active
    <2>4. IsFiniteSet(active) /\ Cardinality(active) <= ChainHead
      BY <1>1, <2>2, <2>3, ABlockEach
    <2>5. Newest(active, AllIds, AllIds) = active
      BY <1>1, <2>4, ListsAll
    <2> QED
      BY <2>1, <2>5 DEF orders
  <1>5. userStats(db).liquidated = Cardinality(liquidated)
    <2>1. {p \in DOMAIN db.pos : db.pos[p].status = "liquidated"} = liquidated
      BY <1>1, <1>2, PositionMirrored
    <2> QED
      BY <2>1 DEF userStats, Counted
  <1>6. \A p \in Positions : Reduced(p) \/ db.pos[p].size = onchain.pos[p].size
    BY <1>1, PositionMirrored
  <1>7. PostedByOracle => marketStats(db).latestPrice = onchain.prices
    BY <1>1, PricesMirrored DEF marketStats
  <1>8. ASSUME ~interrupted
        PROVE  marketStats(db).liquidations = userStats(db).liquidated
    <2>1. marketStats(db).liquidations = Rows(db, "liquidations")
      BY DEF marketStats
    <2> QED
      BY <1>1, <1>5, <1>8, <2>1, LiquidationsCounted
  <1>9. interrupted \in BOOLEAN
    BY DEF TablesInv, Shape
  <1> QED
    BY <1>1, <1>3, <1>4, <1>5, <1>6, <1>7, <1>8, <1>9, SettingsMirrored

\* The chain stops growing at its bound.
LEMMA HeadBounded == Spec => [](ChainHead <= MaxBlock)
  <1>1. Init => ChainHead <= MaxBlock
    BY InitIInv, BlockAssumption
  <1>2. IInv /\ ChainHead <= MaxBlock /\ [Next]_vars => (ChainHead <= MaxBlock)'
    <2> SUFFICES ASSUME IInv, ChainHead <= MaxBlock, [Next]_vars
                 PROVE  ChainHead' <= MaxBlock
      BY DEF ChainHead
    <2>1. CASE ChainNext
      <3>1. PICK logs, state : Mine(logs, state)
        BY <2>1, ChainGrows
      <3>2. ChainHead' = ChainHead + 1 /\ ChainHead < MaxBlock /\ ChainHead \in Nat
        BY <3>1, BlockAppended, HeadIsNat DEF IInv, Mine
      <3> QED
        BY <3>2, BlockAssumption
    <2>2. CASE UNCHANGED chainVars
      BY <2>2 DEF chainVars, ChainHead
    <2> QED
      BY <2>1, <2>2 DEF Next, ChainStep, IndexerNext, vars, Boot, StartScan, GoLive,
              Execute, Fail, Refuse, EndBlock, Record, RecordFails, Signal, Exit, Crash
  <1> QED
    BY <1>1, <1>2, InvariantHolds, PTL DEF Spec

\* Once the recorded block is the head and no handler was cut short by a
\* database error, what the API answers is the chain: its open positions and
\* their sizes, active orders, liquidations, latest prices, fees, market, token
\* and vault switches, whatever batches were scanned twice in between.  Of every
\* event the effect is in the tables, none that another event of the same row
\* overtakes, and scanning a range again takes nothing back.
THEOREM TablesMirrorChain == Spec => []MirrorsChain
  <1>1. IInv /\ TablesInv /\ ChainTold /\ TablesShown /\ ChainHead <= MaxBlock => MirrorsChain
    BY Mirrored
  <1> QED
    BY <1>1, TablesFollow, HeadBounded, PTL
=============================================================================
