------------------------------ MODULE ChainLog ------------------------------
(***************************************************************************)
(* The chain as the off-chain services see it: a log of blocks, each with  *)
(* the events one transaction of the Diamond emitted in it, beside the     *)
(* contract state those events speak of.  The contract's own rules are in  *)
(* PerpTrading and OrderBook; here only the order of events of one object  *)
(* matters, and which of its events the contract emits: a partial close    *)
(* emits PositionClosed(isFullClose = false) and nothing else, an executed *)
(* order emits OrderExecuted and then PositionOpened or PositionClosed, a  *)
(* deleveraged position ADLExecuted only, and a keeper cycle that posts    *)
(* prices KeeperCycleExecuted and no PricesUpdated.  Margin is locked and  *)
(* released by the user's account, a contract of its own, which emits the  *)
(* events that say so, from its own address; transactions that only go to  *)
(* the account are left out.                                               *)
(***************************************************************************)
EXTENDS Integers, Sequences

CONSTANTS
    Positions,      \* position ids
    Orders,         \* order ids
    MaxSize,        \* sizes of positions are 1..MaxSize
    StartBlock,     \* the block the Diamond was deployed in
    MaxBlock        \* bound: the chain stops growing here

ASSUME BlockAssumption ==
    /\ StartBlock \in Nat \ {0} /\ MaxBlock \in Nat
    /\ StartBlock <= MaxBlock + 1

VARIABLES
    chain,          \* the blocks: what each emitter logged in it
    onchain         \* the contract state

chainVars == <<chain, onchain>>

ChainHead == Len(chain)
Event(kind, id, val) == [kind |-> kind, id |-> id, val |-> val]

\* The logs of a block by the address that emitted them: the trader's account,
\* the Diamond.  No reader asks for both, so their common order is left out.
Logged(account, diamond) == [account |-> account, diamond |-> diamond]
NoLogs == Logged(<<>>, <<>>)

NoPosition == [status |-> "none", size |-> 0]

ChainInit ==
    /\ chain = [b \in 1..(StartBlock - 1) |-> NoLogs]
    /\ onchain = [pos    |-> [p \in Positions |-> NoPosition],
                  ord    |-> [o \in Orders |-> "none"],
                  market |-> "none", token |-> "none", vault |-> "none",
                  prices |-> 0, fees |-> 0]

\* One transaction per block: what it logs, and the state it leaves.
Mine(logs, state) ==
    /\ ChainHead < MaxBlock
    /\ chain' = Append(chain, logs)
    /\ onchain' = state

SetPosition(p, status, size) ==
    [onchain EXCEPT !.pos[p] = [status |-> status, size |-> size]]

\* lockForPosition and unlockFromPosition of the trader's account, called in
\* the same transaction (each also emits LedgerEntryRecorded); what a
\* liquidation leaves over is not shown.
Locked(p) == Event("MarginLocked", p, 0)
Released(p) == Event("MarginReleased", p, 0)

OpenPosition(p, size) ==
    /\ onchain.pos[p].status = "none"
    /\ Mine(Logged(<<Locked(p)>>, <<Event("PositionOpened", p, size)>>), SetPosition(p, "open", size))

\* addCollateral leaves the size, addSize raises it.
ModifyPosition(p, size) ==
    /\ onchain.pos[p].status = "open" /\ size >= onchain.pos[p].size
    /\ Mine(Logged(<<Locked(p)>>, <<Event("PositionModified", p, size)>>), SetPosition(p, "open", size))

PartialClose(p, size) ==
    /\ onchain.pos[p].status = "open" /\ size < onchain.pos[p].size
    /\ Mine(Logged(<<Released(p)>>, <<Event("PartiallyClosed", p, size)>>), SetPosition(p, "open", size))

ClosePosition(p) ==
    /\ onchain.pos[p].status = "open"
    /\ Mine(Logged(<<Released(p)>>, <<Event("PositionClosed", p, 0)>>),
            SetPosition(p, "closed", onchain.pos[p].size))

LiquidatePosition(p) ==
    /\ onchain.pos[p].status = "open"
    /\ Mine(Logged(<<>>, <<Event("Liquidation", p, 0)>>),
            SetPosition(p, "liquidated", onchain.pos[p].size))

\* autoDeleverage, to what is left of the position.
Deleverage(p, left) ==
    /\ onchain.pos[p].status = "open" /\ left < onchain.pos[p].size
    /\ Mine(Logged(<<Released(p)>>, <<Event("Deleveraged", p, 0)>>),
            IF left = 0 THEN SetPosition(p, "deleveraged", onchain.pos[p].size)
                        ELSE SetPosition(p, "open", left))

PlaceOrder(o) ==
    /\ onchain.ord[o] = "none"
    /\ Mine(Logged(<<>>, <<Event("OrderPlaced", o, 0)>>), [onchain EXCEPT !.ord[o] = "active"])

ExecuteOrder(o, p, size) ==
    /\ onchain.ord[o] = "active" /\ onchain.pos[p].status = "none"
    /\ Mine(Logged(<<Locked(p)>>, <<Event("OrderExecuted", o, 0), Event("PositionOpened", p, size)>>),
            [SetPosition(p, "open", size) EXCEPT !.ord[o] = "executed"])

\* Only a keeper cycle closes positions for orders.
ExecuteCloseOrder(o, p) ==
    /\ onchain.ord[o] = "active" /\ onchain.pos[p].status = "open"
    /\ Mine(Logged(<<Released(p)>>, <<Event("OrderExecuted", o, 0), Event("PositionClosed", p, 0)>>),
            [SetPosition(p, "closed", onchain.pos[p].size) EXCEPT !.ord[o] = "executed"])

CancelOrder(o) ==
    /\ onchain.ord[o] = "active"
    /\ Mine(Logged(<<>>, <<Event("OrderCancelled", o, 0)>>),
            [onchain EXCEPT !.ord[o] = "cancelled"])

\* Prices and fees are registers: the block that wrote last stands for the value.
PostPrices ==
    Mine(Logged(<<>>, <<Event("PricesUpdated", 0, ChainHead + 1)>>),
         [onchain EXCEPT !.prices = ChainHead + 1])

CyclePrices ==
    Mine(Logged(<<>>, <<Event("KeeperCycle", 0, 0)>>),
         [onchain EXCEPT !.prices = ChainHead + 1])

SetFees ==
    Mine(Logged(<<>>, <<Event("FeesUpdated", 0, ChainHead + 1)>>),
         [onchain EXCEPT !.fees = ChainHead + 1])

CreateMarket ==
    /\ onchain.market = "none"
    /\ Mine(Logged(<<>>, <<Event("MarketCreated", 0, 0)>>), [onchain EXCEPT !.market = "on"])

SwitchMarket ==
    \/ /\ onchain.market = "on"
       /\ Mine(Logged(<<>>, <<Event("MarketDisabled", 0, 0)>>), [onchain EXCEPT !.market = "off"])
    \/ /\ onchain.market = "off"
       /\ Mine(Logged(<<>>, <<Event("MarketEnabled", 0, 0)>>), [onchain EXCEPT !.market = "on"])

AddCollateral ==
    /\ onchain.token # "on"
    /\ Mine(Logged(<<>>, <<Event("CollateralAdded", 0, 0)>>), [onchain EXCEPT !.token = "on"])

RemoveCollateral ==
    /\ onchain.token = "on"
    /\ Mine(Logged(<<>>, <<Event("CollateralRemoved", 0, 0)>>), [onchain EXCEPT !.token = "off"])

\* A vault for a user who had none.
CreateVault ==
    /\ onchain.vault = "none"
    /\ Mine(Logged(<<>>, <<Event("VaultCreated", 0, 0)>>), [onchain EXCEPT !.vault = "on"])

\* The events that are only kept as a record: pauses, roles, cuts, funding,
\* vault movements.
RecordOnly == Mine(Logged(<<>>, <<Event("ProtocolEvent", 0, 0)>>), onchain)

ChainNext ==
    \/ PostPrices \/ CyclePrices \/ SetFees \/ CreateMarket \/ SwitchMarket
    \/ AddCollateral \/ RemoveCollateral \/ CreateVault \/ RecordOnly
    \/ \E p \in Positions : ClosePosition(p) \/ LiquidatePosition(p)
    \/ \E p \in Positions, size \in 1..MaxSize :
          OpenPosition(p, size) \/ ModifyPosition(p, size) \/ PartialClose(p, size)
    \/ \E p \in Positions, left \in 0..MaxSize : Deleverage(p, left)
    \/ \E o \in Orders, p \in Positions : ExecuteCloseOrder(o, p)
    \/ \E o \in Orders : PlaceOrder(o) \/ CancelOrder(o)
    \/ \E o \in Orders, p \in Positions, size \in 1..MaxSize : ExecuteOrder(o, p, size)
=============================================================================
