------------------------------ MODULE OracleNode ------------------------------
(***************************************************************************)
(* The oracle node (.oracle): one loop that asks every price source, side  *)
(* by side, and posts what they answered in one transaction, retried when  *)
(* it fails or is not confirmed in time.  Like the engine's, the loop      *)
(* races a cycle against a timeout and leaves the loser running; unlike    *)
(* the engine's, a source that fails takes only its own markets out of     *)
(* the batch, and nothing is kept from one cycle to the next.              *)
(*                                                                         *)
(* The sources and the chain are external.  The market moves along         *)
(* PriceAt; a price is named by the tick it was asked at, 0 being none.    *)
(***************************************************************************)
EXTENDS Naturals, Sequences, FiniteSets

Rules == INSTANCE EngineRules

CONSTANTS
    Slots,              \* 1 .. n: cycles that may run at once
    Markets, Sources, Source,   \* the source of each market
    PriceAt,            \* by tick and market: the digits the source sends ...
    Digits,             \* ... and how many of a market's are decimals
    Decimals,           \* of a price on the chain (18)
    MaxDeviationBps, MaxRetries, AlertAfter,
    MaxFaults,          \* bound on timeouts, failing or hanging calls, crashes
    MaxPending          \* bound on unmined transactions

MaxTick == Len(PriceAt)
Ticks == 0 .. MaxTick

ASSUME OracleAssumption ==
    /\ Slots \subseteq Nat \ {0} /\ Slots # {}
    /\ IsFiniteSet(Markets) /\ Source \in [Markets -> Sources]
    /\ PriceAt \in Seq([Markets -> Nat]) /\ PriceAt # <<>>
    /\ Digits \in [Markets -> Nat] /\ Decimals \in Nat
    /\ {MaxRetries, AlertAfter, MaxPending} \subseteq Nat \ {0}
    /\ MaxDeviationBps \in Nat /\ MaxFaults \in Nat

VARIABLES
    tick, sourceUp,                         \* the market and the sources
    posted, byLate, queue,                  \* the chain; whose price an abandoned cycle's is
    up, slot, main, failures, alerted,      \* the node
    faults

worldVars == <<tick, sourceUp, posted, byLate, queue>>
nodeVars == <<up, slot, main, failures, alerted>>
vars == <<worldVars, nodeVars, faults>>

None == [m \in Markets |-> 0]
Idle == [pc |-> "off", asked |-> {}, quote |-> None, tries |-> 0, late |-> FALSE]

Init ==
    /\ tick = 1 /\ sourceUp = [s \in Sources |-> TRUE]
    /\ posted = None /\ byLate = [m \in Markets |-> FALSE] /\ queue = <<>>
    /\ up = FALSE /\ slot = [c \in Slots |-> Idle] /\ main = 0
    /\ failures = 0 /\ alerted = FALSE
    /\ faults = 0

Fault == faults < MaxFaults /\ faults' = faults + 1

\* _normalize and _toPrice18, as in the engine.
ToPrice18(m, value) ==
    IF Source[m] = "pyth" THEN Rules!normalize(value, Digits[m], Decimals)
                          ELSE Rules!toPrice18(value, Digits[m], Decimals)

Prices == [m \in Markets |-> [t \in Ticks |-> IF t = 0 THEN 0 ELSE ToPrice18(m, PriceAt[t][m])]]
Price18(m, t) == Prices[m][t]
-----------------------------------------------------------------------------
(* The world.                                                              *)

MarketMoves ==
    /\ tick < MaxTick
    /\ tick' = tick + 1
    /\ UNCHANGED <<sourceUp, posted, byLate, queue, nodeVars, faults>>

SourceFails(s) ==
    /\ sourceUp[s] /\ Fault
    /\ sourceUp' = [sourceUp EXCEPT ![s] = FALSE]
    /\ UNCHANGED <<tick, posted, byLate, queue, nodeVars>>

SourceReturns(s) ==
    /\ ~sourceUp[s]
    /\ sourceUp' = [sourceUp EXCEPT ![s] = TRUE]
    /\ UNCHANGED <<tick, posted, byLate, queue, nodeVars, faults>>

Batch(quote) == {m \in Markets : quote[m] # 0}

\* OracleFacet.batchUpdatePrices: all the prices, or none.
Accepted(quote) ==
    \A m \in Batch(quote) :
        Rules!WithinDeviation(Price18(m, posted[m]), Price18(m, quote[m]), MaxDeviationBps)

\* The wallet's oldest transaction is mined.
Mine ==
    LET tx == Head(queue)
        outcome == IF Accepted(tx.quote) THEN "mined" ELSE "reverted"
    IN  /\ queue # <<>>
        /\ queue' = Tail(queue)
        /\ IF Accepted(tx.quote)
           THEN LET new(m) == m \in Batch(tx.quote)
                IN  /\ posted' = [m \in Markets |-> IF new(m) THEN tx.quote[m] ELSE posted[m]]
                    /\ byLate' = [m \in Markets |-> IF new(m) THEN tx.late ELSE byLate[m]]
           ELSE UNCHANGED <<posted, byLate>>
        /\ slot' = IF tx.slot # 0 THEN [slot EXCEPT ![tx.slot].pc = outcome] ELSE slot
        /\ UNCHANGED <<tick, sourceUp, up, main, failures, alerted, faults>>

Forget(c) ==
    [i \in DOMAIN queue |-> IF queue[i].slot = c THEN [queue[i] EXCEPT !.slot = 0] ELSE queue[i]]
-----------------------------------------------------------------------------
(* The node.                                                               *)

Boot ==
    /\ ~up
    /\ up' = TRUE
    /\ UNCHANGED <<worldVars, slot, main, failures, alerted, faults>>

Crash ==
    /\ up /\ Fault
    /\ up' = FALSE /\ slot' = [c \in Slots |-> Idle] /\ main' = 0
    /\ failures' = 0 /\ alerted' = FALSE
    /\ queue' = [i \in DOMAIN queue |-> [queue[i] EXCEPT !.slot = 0]]
    /\ UNCHANGED <<tick, sourceUp, posted, byLate>>

FreeSlot ==
    LET free == {c \in Slots : slot[c].pc = "off"}
    IN  IF free = {} THEN 0 ELSE CHOOSE c \in free : \A d \in free : c <= d

\* Mutant: the next cycle does not wait for the last one.
Begin_OnInterval(c) ==
    /\ up /\ c = FreeSlot
    /\ slot' = [slot EXCEPT ![c] = [Idle EXCEPT !.pc = "fetch", !.asked = Sources]]
    /\ main' = c
    /\ UNCHANGED <<worldVars, up, failures, alerted, faults>>

\* A cycle asks all sources at once.
Begin(c) ==
    /\ up /\ main = 0 /\ c = FreeSlot
    /\ slot' = [slot EXCEPT ![c] = [Idle EXCEPT !.pc = "fetch", !.asked = Sources]]
    /\ main' = c
    /\ UNCHANGED <<worldVars, up, failures, alerted, faults>>

\* fetchPrices answers for the markets of a source, except those in gap, for
\* which it has no row; a price that comes out as zero is dropped.
Fetch(c, s, gap) ==
    /\ slot[c].pc = "fetch" /\ s \in slot[c].asked /\ sourceUp[s]
    /\ IF gap = {} THEN UNCHANGED faults ELSE Fault
    /\ slot' = [slot EXCEPT
          ![c].asked = @ \ {s},
          ![c].quote = [m \in Markets |->
              IF Source[m] = s /\ m \notin gap /\ Price18(m, tick) > 0 THEN tick ELSE @[m]]]
    /\ UNCHANGED <<worldVars, up, main, failures, alerted>>

\* Mutant: one source's error is the cycle's.
FetchFails_EndsCycle(c, s) ==
    /\ slot[c].pc = "fetch" /\ s \in slot[c].asked
    /\ IF sourceUp[s] THEN Fault ELSE UNCHANGED faults
    /\ slot' = [slot EXCEPT ![c] = Idle]
    /\ main' = IF main = c THEN 0 ELSE main
    /\ UNCHANGED <<worldVars, up, failures, alerted>>

\* A source that does not answer, or not sensibly, answers with nothing.
FetchFails(c, s) ==
    /\ slot[c].pc = "fetch" /\ s \in slot[c].asked
    /\ IF sourceUp[s] THEN Fault ELSE UNCHANGED faults
    /\ slot' = [slot EXCEPT ![c].asked = @ \ {s}]
    /\ UNCHANGED <<worldVars, up, main, failures, alerted>>

End(c) ==
    /\ slot' = [slot EXCEPT ![c] = Idle]
    /\ main' = IF main = c THEN 0 ELSE main

\* All sources have answered: without a single price the cycle is over.
Collect(c) ==
    /\ slot[c].pc = "fetch" /\ slot[c].asked = {}
    /\ IF Batch(slot[c].quote) = {} THEN End(c)
       ELSE slot' = [slot EXCEPT ![c].pc = "send"] /\ UNCHANGED main
    /\ UNCHANGED <<worldVars, up, failures, alerted, faults>>

\* A call to a source or to the chain's node that never returns.
Hang(c) ==
    /\ slot[c].pc \in {"fetch", "send"} /\ Fault
    /\ slot' = [slot EXCEPT ![c].pc = "hung"]
    /\ UNCHANGED <<worldVars, up, main, failures, alerted>>

\* The loop gives up on its cycle; one that hangs is never heard of again.
CycleTimeout ==
    /\ main # 0 /\ slot[main].pc # "hung" /\ Fault
    /\ slot' = [slot EXCEPT ![main].late = TRUE]
    /\ main' = 0
    /\ UNCHANGED <<worldVars, up, failures, alerted>>

HungTimeout(c) ==
    /\ slot[c].pc = "hung"
    /\ End(c)
    /\ UNCHANGED <<worldVars, up, failures, alerted, faults>>

\* submitPrices: one attempt.
Send(c) ==
    /\ slot[c].pc = "send" /\ Len(queue) < MaxPending
    /\ queue' = Append(queue, [slot |-> c, quote |-> slot[c].quote, late |-> slot[c].late])
    /\ slot' = [slot EXCEPT ![c].pc = "wait"]
    /\ UNCHANGED <<tick, sourceUp, posted, byLate, up, main, failures, alerted, faults>>

AfterAttempt(c) ==
    [slot EXCEPT ![c].tries = @ + 1,
                 ![c].pc = IF slot[c].tries + 1 < MaxRetries THEN "send" ELSE "failed"]

\* The node refuses the transaction, or it was mined and reverted.
AttemptFails(c) ==
    /\ \/ slot[c].pc = "send" /\ Fault
       \/ slot[c].pc = "reverted" /\ UNCHANGED faults
    /\ slot' = AfterAttempt(c)
    /\ UNCHANGED <<worldVars, up, main, failures, alerted>>

\* _waitWithTimeout: the transaction stays pending, and is sent again.
WaitTimeout(c) ==
    /\ slot[c].pc = "wait" /\ Fault
    /\ slot' = AfterAttempt(c)
    /\ queue' = Forget(c)
    /\ UNCHANGED <<tick, sourceUp, posted, byLate, up, main, failures, alerted>>

Confirm(c) ==
    /\ slot[c].pc = "mined"
    /\ failures' = 0
    /\ End(c)
    /\ UNCHANGED <<worldVars, up, alerted, faults>>

\* Mutant: every failed submission counts as the first.
GiveUp_Recounts(c) ==
    /\ slot[c].pc = "failed"
    /\ failures' = 1
    /\ alerted' = (alerted \/ failures' >= AlertAfter)
    /\ End(c)
    /\ UNCHANGED <<worldVars, up, faults>>

\* All attempts failed: counted, and from a threshold on alerted.
GiveUp(c) ==
    /\ slot[c].pc = "failed"
    /\ failures' = IF failures < AlertAfter THEN failures + 1 ELSE failures
    /\ alerted' = (alerted \/ failures' >= AlertAfter)
    /\ End(c)
    /\ UNCHANGED <<worldVars, up, faults>>

CycleStep(c) ==
    \/ \E s \in Sources : Fetch(c, s, {}) \/ FetchFails(c, s)
    \/ Collect(c) \/ HungTimeout(c)
    \/ Send(c) \/ AttemptFails(c) \/ Confirm(c) \/ GiveUp(c)

Next ==
    \/ MarketMoves \/ Mine
    \/ \E s \in Sources : SourceFails(s) \/ SourceReturns(s)
    \/ Boot \/ Crash \/ CycleTimeout
    \/ \E c \in Slots : Begin(c) \/ CycleStep(c) \/ WaitTimeout(c) \/ Hang(c)
    \/ \E c \in Slots, s \in Sources, m \in Markets : Fetch(c, s, {m})

Spec == Init /\ [][Next]_vars

\* The loop and what it calls go on, hung calls are timed out, what was sent
\* is mined.  Nobody restarts the node, mends a source or moves the market.
FairSpec ==
    /\ Spec
    /\ WF_vars(\E c \in Slots : Begin(c))
    /\ \A c \in Slots : WF_vars(CycleStep(c))
    /\ WF_vars(Mine)
-----------------------------------------------------------------------------
(* Properties.                                                             *)

\* index.js:111: the race leaves the loser running.  When a market's price goes
\* back to an older one, the older or the newer was posted by a cycle the loop
\* had given up on: it is not the doing of a retry, of an unconfirmed
\* transaction, or of one a crash left behind.
StaleOnlyFromLate ==
    [][\A m \in Markets : posted'[m] < posted[m] => Head(queue).late \/ byLate[m]]_vars

Wanted(m) == sourceUp[Source[m]] /\ Price18(m, tick) > 0

TooFar(m) ==
    Wanted(m) /\ ~Rules!WithinDeviation(Price18(m, posted[m]), Price18(m, tick), MaxDeviationBps)

\* While the node runs, the price of every market whose source answers
\* reaches the chain, through timeouts, hanging calls and the outage of the
\* other sources (index.js:128-143), unless some market of the batch has moved
\* further than the facet allows.
PricesPosted ==
    \A m \in Markets :
        []<>(~up \/ ~Wanted(m) \/ posted[m] = tick \/ \E n \in Markets : TooFar(n))

\* index.js:25, "Consecutive failure alerting": a batch that the facet refuses
\* again and again does not go unnoticed.
RefusalsAlerted == <>[](up /\ \E m \in Markets : TooFar(m)) => <>alerted

\* One market out of reach does not keep the others' prices off the chain.
\* Refuted: see README.
MarketsIndependent ==
    \A m \in Markets : []<>(~up \/ ~Wanted(m) \/ posted[m] = tick \/ TooFar(m))

\* index.js:25 again: a node that posts nothing any more is noticed.
\* Refuted: see README.
OutageAlerted == <>[](up /\ posted # [m \in Markets |-> tick]) => <>alerted
=============================================================================
