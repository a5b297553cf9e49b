------------------------------- MODULE Indexer ------------------------------
(***************************************************************************)
(* The indexer process (.indexer/index.js and src/scanner.js): it reads    *)
(* the log in batches, first up to the head it saw when it started, then   *)
(* following the head, runs the statements of each event's handler one by  *)
(* one, and records the last block of a batch after the batch.  The        *)
(* database survives the process; everything else is lost by a crash.      *)
(*                                                                         *)
(* A failing statement ends its handler and is swallowed, so the event     *)
(* counts as indexed: those a database error cut short are kept in lost.   *)
(* A failing getLogs changes nothing and is retried: a stuttering step     *)
(* here.                                                                   *)
(***************************************************************************)
EXTENDS ChainLog, IndexerTables

CONSTANTS
    BatchSize,
    MaxFaults       \* bound on crashes, database errors and failing records

ASSUME IndexerAssumption ==
    BatchSize \in Nat \ {0} /\ MaxFaults \in Nat

VARIABLES
    db,             \* the tables
    lastIndexed,    \* indexer_state.last_indexed_block
    pc,             \* down | catchup | live
    running,        \* cleared by SIGINT and SIGTERM
    next,           \* first block of the next batch
    target,         \* the head read at start, where catching up ends
    scan,           \* the batch in progress: its end, block, event, statement
    handled,        \* blocks gone through
    lost,           \* events whose handler a database error cut short
    interrupted,    \* a batch was stored in part, or stored and not recorded
    faults

indexerVars == <<db, lastIndexed, pc, running, next, target, scan, handled,
                 lost, interrupted, faults>>
vars == <<chainVars, indexerVars>>

NoScan == [to |-> 0, at |-> 0, event |-> 0, stmt |-> 0]
Lesser(a, b) == IF a < b THEN a ELSE b

\* The tables are there: db/migrate.js has run.
Init ==
    /\ ChainInit
    /\ db = EmptyTables(Positions, Orders)
    /\ lastIndexed = 0
    /\ pc = "down" /\ running = TRUE
    /\ next = 0 /\ target = 0
    /\ scan = NoScan
    /\ handled = {} /\ lost = {}
    /\ interrupted = FALSE
    /\ faults = 0

\* main up to the loops: migrate is idempotent, the mark starts just below the
\* deployment block, the head is read once.
Boot ==
    LET mark == IF lastIndexed < StartBlock THEN StartBlock - 1 ELSE lastIndexed
    IN  /\ pc = "down"
        /\ lastIndexed' = mark
        /\ target' = ChainHead
        /\ next' = mark + 1
        /\ pc' = IF ChainHead > mark THEN "catchup" ELSE "live"
        /\ running' = TRUE
        /\ UNCHANGED <<chainVars, db, scan, handled, lost, interrupted, faults>>

\* Mutant: polling keeps comparing with the head read at start.
Limit_ReadOnce == target

Limit == IF pc = "catchup" THEN target ELSE ChainHead

\* Mutant: the end of the batch is not cut at the head.
StartScan_Unclamped ==
    /\ pc # "down" /\ running
    /\ scan = NoScan
    /\ next <= Limit
    /\ scan' = [to |-> next + BatchSize - 1, at |-> next, event |-> 1, stmt |-> 1]
    /\ UNCHANGED <<chainVars, db, lastIndexed, pc, running, next, target,
                   handled, lost, interrupted, faults>>

\* getLogs of the next batch has answered.
StartScan ==
    /\ pc # "down" /\ running
    /\ scan = NoScan
    /\ next <= Limit
    /\ scan' = [to |-> Lesser(next + BatchSize - 1, Limit), at |-> next,
                event |-> 1, stmt |-> 1]
    /\ UNCHANGED <<chainVars, db, lastIndexed, pc, running, next, target,
                   handled, lost, interrupted, faults>>

\* The catch-up loop has ended; polling starts from the recorded block.
GoLive ==
    /\ pc = "catchup" /\ scan = NoScan
    /\ ~running \/ next > target
    /\ pc' = "live"
    /\ next' = lastIndexed + 1
    /\ UNCHANGED <<chainVars, db, lastIndexed, running, target, scan, handled,
                   lost, interrupted, faults>>

\* getLogs asks for what the Diamond emitted.
Logs(b) == chain[b].diamond

InBatch == scan # NoScan /\ scan.at <= scan.to
InBlock == InBatch /\ scan.event <= Len(Logs(scan.at))
Current == Logs(scan.at)[scan.event]
Todo == Statements(Current.kind)
Place == <<scan.at, scan.event>>

NextEvent == [scan EXCEPT !.event = @ + 1, !.stmt = 1]
NextStatement == [scan EXCEPT !.stmt = @ + 1]

\* One statement of the current handler succeeds.
Execute ==
    /\ InBlock
    /\ ~Refused(Todo[scan.stmt])
    /\ db' = Run(db, Todo[scan.stmt], Current, scan.at)
    /\ IF scan.stmt = Len(Todo)
       THEN scan' = NextEvent /\ lost' = lost \ {Place}
       ELSE scan' = NextStatement /\ UNCHANGED lost
    /\ UNCHANGED <<chainVars, lastIndexed, pc, running, next, target, handled,
                   interrupted, faults>>

\* Mutant: without the try around each event, the range is scanned again.
Fail_Rethrows ==
    /\ InBlock /\ faults < MaxFaults
    /\ ~Refused(Todo[scan.stmt])
    /\ faults' = faults + 1
    /\ scan' = NoScan
    /\ UNCHANGED <<chainVars, db, lastIndexed, pc, running, next, target,
                   handled, lost, interrupted>>

\* It fails: scanBlocks logs the error and goes on with the next event.
Fail ==
    /\ InBlock /\ faults < MaxFaults
    /\ ~Refused(Todo[scan.stmt])
    /\ faults' = faults + 1
    /\ scan' = NextEvent
    /\ lost' = lost \union {Place}
    /\ UNCHANGED <<chainVars, db, lastIndexed, pc, running, next, target,
                   handled, interrupted>>

\* The database refuses it by a constraint: the same path, every time.
Refuse ==
    /\ InBlock
    /\ Refused(Todo[scan.stmt])
    /\ scan' = NextEvent
    /\ UNCHANGED <<chainVars, db, lastIndexed, pc, running, next, target,
                   handled, lost, interrupted, faults>>

EndBlock ==
    /\ InBatch /\ ~InBlock
    /\ handled' = handled \union {scan.at}
    /\ scan' = [scan EXCEPT !.at = @ + 1, !.event = 1, !.stmt = 1]
    /\ UNCHANGED <<chainVars, db, lastIndexed, pc, running, next, target, lost,
                   interrupted, faults>>

BatchDone == scan # NoScan /\ scan.at > scan.to

\* Mutant: the chain's head is recorded, not the end of the batch.
Record_Head ==
    /\ BatchDone
    /\ lastIndexed' = ChainHead
    /\ next' = scan.to + 1
    /\ scan' = NoScan
    /\ UNCHANGED <<chainVars, db, pc, running, target, handled, lost,
                   interrupted, faults>>

\* setLastIndexedBlock
Record ==
    /\ BatchDone
    /\ lastIndexed' = scan.to
    /\ next' = scan.to + 1
    /\ scan' = NoScan
    /\ UNCHANGED <<chainVars, db, pc, running, target, handled, lost,
                   interrupted, faults>>

\* It throws: both loops catch it and scan the same range again.
RecordFails ==
    /\ BatchDone /\ faults < MaxFaults
    /\ faults' = faults + 1
    /\ scan' = NoScan
    /\ interrupted' = TRUE
    /\ UNCHANGED <<chainVars, db, lastIndexed, pc, running, next, target,
                   handled, lost>>

\* A signal lets the batch in progress finish; the loops then end.
Signal ==
    /\ pc # "down" /\ running
    /\ running' = FALSE
    /\ UNCHANGED <<chainVars, db, lastIndexed, pc, next, target, scan, handled,
                   lost, interrupted, faults>>

LoseMemory ==
    /\ pc' = "down" /\ running' = TRUE
    /\ next' = 0 /\ target' = 0 /\ scan' = NoScan

Exit ==
    /\ pc = "live" /\ ~running /\ scan = NoScan
    /\ LoseMemory
    /\ UNCHANGED <<chainVars, db, lastIndexed, handled, lost, interrupted,
                   faults>>

Crash ==
    /\ pc # "down" /\ faults < MaxFaults
    /\ faults' = faults + 1
    /\ interrupted' = (interrupted \/ scan # NoScan)
    /\ LoseMemory
    /\ UNCHANGED <<chainVars, db, lastIndexed, handled, lost>>

IndexerNext ==
    \/ Boot \/ StartScan \/ GoLive \/ Execute \/ Fail \/ Refuse \/ EndBlock
    \/ Record \/ RecordFails \/ Signal \/ Exit \/ Crash

ChainStep == ChainNext /\ UNCHANGED indexerVars

Next == ChainStep \/ IndexerNext

Spec == Init /\ [][Next]_vars

\* The process runs: each of its steps is eventually taken while it can be.
\* Crashes, signals and restarts are not its own.
Progress == StartScan \/ GoLive \/ Execute \/ Refuse \/ EndBlock \/ Record
FairSpec == Spec /\ WF_vars(Progress)
-----------------------------------------------------------------------------
\* Every variable keeps its shape; a batch in progress lies above the mark
\* and below the head.
TypeOK ==
    /\ lastIndexed \in 0..ChainHead
    /\ pc \in {"down", "catchup", "live"}
    /\ {running, interrupted} \subseteq BOOLEAN
    /\ next \in 0..(ChainHead + 1) /\ target \in 0..ChainHead
    /\ scan # NoScan =>
          /\ pc # "down"
          /\ lastIndexed < scan.at /\ scan.at <= scan.to + 1 /\ scan.to <= ChainHead
    /\ handled \subseteq 1..ChainHead
    /\ faults \in 0..MaxFaults

\* The mark never passes a block the scanner has not gone through, however
\* batches, crashes, failing records and restarts fall (at-least-once
\* delivery).
Delivery == INSTANCE EventDelivery WITH
                First <- StartBlock, published <- ChainHead, delivered <- handled,
                acked <- IF lastIndexed < StartBlock THEN StartBlock - 1
                                                     ELSE lastIndexed
ImplementsDelivery == Delivery!Spec

\* What the API answers once the mark is at the head and no handler failed:
\* exactly the chain's open positions, active orders, latest prices, fees,
\* vaults, market and token switches, in spite of batches scanned twice, and
\* as many liquidations as positions liquidated unless one was.  Four things
\* it cannot mirror: the close of a position by deleveraging, whose event it
\* only records; sizes after a reduction; prices a keeper cycle posted; what
\* accounts emit (AccountsListed).
AllIds == MaxBlock * 2
UpToDate == lastIndexed = ChainHead /\ lost = {}
Happened(kind, p) == \E b \in 1..ChainHead : \E i \in 1..Len(Logs(b)) :
                        Logs(b)[i].kind = kind /\ Logs(b)[i].id = p
Reduced(p) == Happened("PartiallyClosed", p) \/ Happened("Deleveraged", p)
PostedByOracle == onchain.prices = 0 \/ Logs(onchain.prices)[1].kind = "PricesUpdated"
MirrorsChain ==
    UpToDate =>
      /\ positions(db, "open", AllIds, AllIds)
            = {p \in Positions : onchain.pos[p].status \in {"open", "deleveraged"}}
      /\ orders(db, "active", AllIds, AllIds)
            = {o \in Orders : onchain.ord[o] = "active"}
      /\ userStats(db).liquidated
            = Cardinality({p \in Positions : onchain.pos[p].status = "liquidated"})
      /\ \A p \in Positions : Reduced(p) \/ db.pos[p].size = onchain.pos[p].size
      /\ PostedByOracle => marketStats(db).latestPrice = onchain.prices
      /\ interrupted \/ marketStats(db).liquidations = userStats(db).liquidated
      /\ <<db.fees, db.market, db.token, db.vault>>
            = <<onchain.fees, onchain.market, onchain.token, onchain.vault>>

\* A history row is written once per event, unless a batch was cut short or
\* its end could not be recorded; a graceful stop and failing handlers do not
\* duplicate.
HistoryOnce ==
    interrupted \/ \A row \in DOMAIN db.rows : Copies(db, row[1], row[2]) <= 1

\* Positions and orders only move forward in the tables, also while a range
\* is scanned a second time: what the API has shown as closed, liquidated,
\* executed or cancelled is never shown open or active again.
RowsOnlyAdvance ==
    [][/\ \A p \in Positions : db.pos[p].status \in {"closed", "liquidated"}
                                  => db'.pos[p].status = db.pos[p].status
       /\ \A o \in Orders : db.ord[o] \in {"executed", "cancelled"}
                                  => db'.ord[o] = db.ord[o]]_db

\* An indexer that stays up reaches the head of a chain that stops growing,
\* whatever was interrupted before.
CatchesUp == <>[](pc # "down" /\ running) => <>[](lastIndexed = ChainHead)

\* docs/indexer-api.md: trades holds "every trade event (opens, closes,
\* modifications)".  The column constraints refuse every modification.
ModificationsListed ==
    lastIndexed = ChainHead =>
        \A b \in StartBlock..ChainHead : \A i \in 1..Len(Logs(b)) :
            Logs(b)[i].kind = "PositionModified" /\ faults = 0
                => Copies(db, "trades", b) > 0

\* abi.js:97, "TRADING ACCOUNT EVENTS": what accounts emit reaches the API.
\* Refuted: they emit it from their own addresses (and under other
\* signatures), and the scanner asks for the Diamond's logs only.
AccountsListed ==
    lastIndexed = ChainHead /\ faults = 0 =>
        \A b \in StartBlock..ChainHead : \A i \in 1..Len(chain[b].account) :
            chain[b].account[i].kind \in {"MarginLocked", "MarginReleased"}
                => Copies(db, "trading_account_events", b) > 0 /\ accountActivity(db).events > 0
=============================================================================
