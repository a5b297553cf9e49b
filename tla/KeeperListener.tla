--------------------------- MODULE KeeperListener ---------------------------
(***************************************************************************)
(* When the keeper node (.keeper) runs a cycle.  A listener polls for      *)
(* PricesUpdated events in new blocks; a fallback poll compares the        *)
(* chain's prices with the cached ones.  Their timers wait for nobody:     *)
(* scans overlap each other, the fallback and the cycle a scan has called, *)
(* and a flag keeps cycles apart.                                          *)
(*                                                                         *)
(* The chain is external: a block posts prices of some markets, through    *)
(* the oracle facet, with the event, or by a KeeperMulticall cycle, whose  *)
(* event the listener does not know.  A price is the number of its         *)
(* market's postings.  What a cycle does is KeeperExecutor's.              *)
(***************************************************************************)
EXTENDS Naturals, Sequences, FiniteSets, FiniteSetsExt

CONSTANTS
    Scans,                     \* 1 .. n: scans of the listener that may overlap
    Markets,
    MaxBlock, MaxFaults        \* bounds on blocks, and on failures of any kind

Poll == 0                      \* the fallback poll beside the scans
Timers == Scans \cup {Poll}
Batches == SUBSET Markets \ {{}}

ASSUME ListenerAssumption ==
    /\ Scans \subseteq Nat \ {0} /\ Scans # {}
    /\ IsFiniteSet(Scans) /\ IsFiniteSet(Markets) /\ Markets \subseteq Nat /\ Markets # {}
    /\ MaxBlock \in Nat /\ MaxFaults \in Nat

VARIABLES
    log,                             \* the chain's blocks
    up, proc, cycleBusy, lastBlock,  \* a process is a timer's callback in progress
    cached,                          \* StateCache.prices
    faults

vars == <<log, up, proc, cycleBusy, lastBlock, cached, faults>>

Off == [pc |-> "off", from |-> 0, to |-> 0, seen |-> [m \in Markets |-> 0]]

Init ==
    /\ log = <<>>
    /\ up = FALSE
    /\ proc = [p \in Timers |-> Off]
    /\ cycleBusy = FALSE /\ lastBlock = 0
    /\ cached = [m \in Markets |-> 0]
    /\ faults = 0

Fault == faults < MaxFaults /\ faults' = faults + 1

PriceAfter(b, m) == Cardinality({i \in 1 .. b : m \in log[i].markets})
price == [m \in Markets |-> PriceAfter(Len(log), m)]

Post(ms, loud) ==
    /\ Len(log) < MaxBlock
    /\ log' = Append(log, [markets |-> ms, loud |-> loud])
    /\ UNCHANGED <<up, proc, cycleBusy, lastBlock, cached, faults>>

\* main: the cached prices are the chain's, and the listener begins at its head,
\* a little later.
Boot(b) ==
    /\ ~up
    /\ up' = TRUE
    /\ cached' = [m \in Markets |-> PriceAfter(b, m)]
    /\ lastBlock' = Len(log)
    /\ UNCHANGED <<log, proc, cycleBusy, faults>>

Crash ==
    /\ up /\ Fault
    /\ up' = FALSE
    /\ proc' = [p \in Timers |-> Off] /\ cycleBusy' = FALSE
    /\ lastBlock' = 0 /\ cached' = [m \in Markets |-> 0]
    /\ UNCHANGED log

\* Mutant: a scan that called a cycle returns without moving on.
Return_AfterQuietOnly(p) ==
    /\ proc' = [proc EXCEPT ![p] = Off]
    /\ lastBlock' = IF p = Poll \/ proc[p].pc = "cycle" THEN lastBlock ELSE proc[p].to

\* A callback is over; a scan has then dealt with its blocks.
Return(p) ==
    /\ proc' = [proc EXCEPT ![p] = Off]
    /\ lastBlock' = IF p = Poll THEN lastBlock ELSE proc[p].to

\* Mutant: the flag is set, but nobody looks at it.
EnterCycle_Unguarded(p, ms, seen) ==
    /\ cycleBusy' = TRUE
    /\ cached' = [m \in Markets |-> IF m \in ms THEN seen[m] ELSE cached[m]]
    /\ proc' = [proc EXCEPT ![p].pc = "cycle"]
    /\ UNCHANGED lastBlock

\* executionCycle, up to its first await.
EnterCycle(p, ms, seen) ==
    IF cycleBusy
    THEN /\ Return(p)
         /\ UNCHANGED <<cycleBusy, cached>>
    ELSE /\ cycleBusy' = TRUE
         /\ cached' = [m \in Markets |-> IF m \in ms THEN seen[m] ELSE cached[m]]
         /\ proc' = [proc EXCEPT ![p].pc = "cycle"]
         /\ UNCHANGED lastBlock

\* ... and its end; what goes wrong in between is caught.
EndCycle(p) ==
    /\ proc[p].pc = "cycle"
    /\ cycleBusy' = FALSE
    /\ Return(p)
    /\ UNCHANGED <<log, up, cached, faults>>

FreeScan == {s \in Scans : proc[s].pc = "off" /\ \A t \in Scans : t < s => proc[t].pc # "off"}

\* _scanNewBlocks
ScanBegin(s) ==
    /\ up /\ s \in FreeScan /\ Len(log) > lastBlock
    /\ proc' = [proc EXCEPT ![s] = [Off EXCEPT !.pc = "query", !.from = lastBlock + 1,
                                               !.to = Len(log)]]
    /\ UNCHANGED <<log, up, cycleBusy, lastBlock, cached, faults>>

\* A query that fails is not repeated: its blocks count as seen.
ScanFails(s) ==
    /\ proc[s].pc = "query" /\ Fault
    /\ Return(s)
    /\ UNCHANGED <<log, up, cycleBusy, cached>>

\* Of several events only the latest is handed on.
ScanFinds(s) ==
    LET loud == {b \in proc[s].from .. proc[s].to : log[b].loud}
        b == Max(loud)
    IN  /\ proc[s].pc = "query"
        /\ IF loud = {} THEN Return(s) /\ UNCHANGED <<cycleBusy, cached>>
           ELSE EnterCycle(s, log[b].markets, [m \in Markets |-> PriceAfter(b, m)])
        /\ UNCHANGED <<log, up, faults>>

\* The fallback: the chain's prices are read ...
PollRead ==
    /\ up /\ proc[Poll].pc = "off"
    /\ proc' = [proc EXCEPT ![Poll].pc = "read", ![Poll].seen = price]
    /\ UNCHANGED <<log, up, cycleBusy, lastBlock, cached, faults>>

\* Mutant: only the first market's price is compared.
Changed_FirstOnly(seen) == seen[Min(Markets)] # cached[Min(Markets)]

Changed(seen) == \E m \in Markets : seen[m] # cached[m]

\* ... and, when any differs from the cached one, a cycle runs for all markets.
PollCompare ==
    /\ proc[Poll].pc = "read"
    /\ IF Changed(proc[Poll].seen) THEN EnterCycle(Poll, Markets, proc[Poll].seen)
       ELSE Return(Poll) /\ UNCHANGED <<cycleBusy, cached>>
    /\ UNCHANGED <<log, up, faults>>

Next ==
    \/ \E ms \in Batches, loud \in BOOLEAN : Post(ms, loud)
    \/ \E b \in 0 .. Len(log) : Boot(b)
    \/ Crash
    \/ \E s \in Scans : ScanBegin(s) \/ ScanFails(s) \/ ScanFinds(s)
    \/ PollRead \/ PollCompare
    \/ \E p \in Timers : EndCycle(p)

Spec == Init /\ [][Next]_vars

\* The timers fire and what they call returns: every wait of a cycle has a
\* timeout.  Nobody posts, and nobody restarts the node.
FairSpec ==
    /\ Spec
    /\ WF_vars(PollRead) /\ WF_vars(PollCompare)
    /\ \A s \in Scans : WF_vars(ScanBegin(s)) /\ WF_vars(ScanFinds(s))
    /\ \A p \in Timers : WF_vars(EndCycle(p))
-----------------------------------------------------------------------------
(* Properties.                                                             *)

\* index.js:173, "Guarded by a mutex to prevent overlapping cycles": of the
\* overlapping scans and the fallback at most one is in a cycle, so the cached
\* jobs and the wallet's nonces have one user; the flag is never left behind.
CyclesExclusive ==
    Cardinality({p \in Timers : proc[p].pc = "cycle"}) = IF cycleBusy THEN 1 ELSE 0

\* index.js:24, "Falls back to polling if events are missed": whatever events
\* the listener drops, skips or repeats, whoever posted the prices, while the
\* node is up the prices of its latest cycle become the chain's.
PricesNoticed == []<>(~up \/ cached = price)

\* The listener is not thrown back for ever by scans that end out of order.
HeadReached == []<>(~up \/ lastBlock = Len(log))
=============================================================================
