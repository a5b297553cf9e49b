--------------------------- MODULE PerpsEngineProofs ---------------------------
(***************************************************************************)
(* The prices the perps-engine posts do not go backwards but by a cycle    *)
(* its loop gave up on, for every number of cycles that run at once, jobs, *)
(* retries and transactions in flight, and every price and its source.     *)
(***************************************************************************)
EXTENDS PerpsEngine, SequenceTheorems, WellFoundedInduction, TLAPS

\* Where a cycle has prices to post.
Holding == {"send", "wait", "mined", "reverted", "failed"}

Tx == [slot : Slots \cup {0}, tick : Nat, ids : SUBSET Jobs, late : BOOLEAN]

Cycle ==
    [pc : Holding \cup {"off", "refresh", "read"}, tick : Nat, ids : SUBSET Jobs,
     tries : Nat, late : BOOLEAN, todo : SUBSET Jobs]

TypeOK ==
    /\ tick \in Nat /\ posted \in Nat /\ main \in Slots \cup {0}
    /\ queue \in Seq(Tx)
    /\ slot \in [Slots -> Cycle]

\* No price is newer than the market.
NoneAhead ==
    /\ posted <= tick
    /\ \A i \in 1 .. Len(queue) : queue[i].tick <= tick
    /\ \A c \in Slots : slot[c].tick <= tick

\* A transaction that is awaited is the only one of its cycle.
OneAwaited ==
    /\ \A i \in 1 .. Len(queue) :
          queue[i].slot # 0 => slot[queue[i].slot].pc = "wait"
    /\ \A i, j \in 1 .. Len(queue) :
          queue[i].slot # 0 /\ queue[i].slot = queue[j].slot => i = j

\* A cycle that the loop has not given up on, and that has prices to post.
Live(c) == slot[c].pc \in Holding /\ ~slot[c].late

\* There is at most one such cycle, the one the loop waits for.  It began
\* last: nothing posted, sent or held is newer than its prices, nor than
\* those such a cycle sent after it.
LiveIsNewest ==
    /\ \A c \in Slots : Live(c) => c = main
    /\ \A c, d \in Slots :
          slot[c].pc \in Holding /\ Live(d) => slot[c].tick <= slot[d].tick
    /\ \A c \in Slots : Live(c) =>
          /\ posted <= slot[c].tick
          /\ \A i \in 1 .. Len(queue) : queue[i].tick <= slot[c].tick

InOrder ==
    /\ \A i, j \in 1 .. Len(queue) :
          i < j /\ ~queue[j].late => queue[i].tick <= queue[j].tick
    /\ \A i \in 1 .. Len(queue) : ~queue[i].late => posted <= queue[i].tick

IInv == TypeOK /\ NoneAhead /\ OneAwaited /\ LiveIsNewest /\ InOrder

-----------------------------------------------------------------------------
(* One lemma per kind of step.                                             *)

\* Cycle c goes on with the prices it has, without any, or with new ones.
CycleMoves(c, new) ==
    /\ new \in Cycle
    /\ slot' = [slot EXCEPT ![c] = new]
    /\ main' \in Slots \cup {0}
    /\ new.pc = slot[c].pc \/ slot[c].pc # "wait"
    /\ new.tick <= tick
    /\ new.pc \in Holding =>
          \/ slot[c].pc \in Holding /\ new.tick = slot[c].tick /\ (slot[c].late => new.late)
          \/ new.tick = tick /\ \A d \in Slots : ~Live(d)
    /\ new.pc \in Holding /\ ~new.late => c = main'
    /\ \A d \in Slots \ {c} : Live(d) => d = main'
    /\ UNCHANGED <<tick, posted, queue>>

LEMMA CycleMovesKeeps ==
    ASSUME IInv, NEW c \in Slots, NEW new, CycleMoves(c, new)
    PROVE  IInv'
  <1>1. /\ slot'[c] = new
        /\ \A d \in Slots \ {c} : slot'[d] = slot[d]
    BY DEF CycleMoves, IInv, TypeOK
  <1>2. TypeOK'
    BY DEF CycleMoves, IInv, TypeOK
  <1>3. NoneAhead'
    BY <1>1 DEF CycleMoves, IInv, NoneAhead
  <1>4. OneAwaited'
    <2>1. ASSUME NEW i \in 1 .. Len(queue), queue[i].slot # 0
          PROVE  slot'[queue[i].slot].pc = "wait"
      <3>1. queue[i] \in Tx
        BY ElementOfSeq DEF IInv, TypeOK
      <3>2. queue[i].slot \in Slots /\ slot[queue[i].slot].pc = "wait"
        BY <2>1, <3>1 DEF IInv, Tx, OneAwaited
      <3> QED
        BY <1>1, <3>2 DEF CycleMoves
    <2> QED
      BY <2>1 DEF CycleMoves, IInv, OneAwaited
  <1>5. ASSUME NEW d \in Slots \ {c}
        PROVE  Live(d)' <=> Live(d)
    BY <1>1 DEF Live
  <1>6. Live(c)' <=> new.pc \in Holding /\ ~new.late
    BY <1>1 DEF Live
  <1>7. LiveIsNewest'
    <2>1. \A d \in Slots : Live(d)' => d = main'
      BY <1>5, <1>6 DEF CycleMoves
    <2>2. ASSUME NEW d \in Slots, Live(d)'
          PROVE  \/ Live(d) /\ slot'[d].tick = slot[d].tick
                 \/ d = c /\ slot'[d].tick = tick
      BY <1>1, <1>5, <1>6, <2>2 DEF CycleMoves, Live
    <2>3. ASSUME NEW d \in Slots, Live(d)'
          PROVE  /\ posted <= slot'[d].tick
                 /\ \A i \in 1 .. Len(queue) : queue[i].tick <= slot'[d].tick
      BY <2>2, <2>3 DEF IInv, NoneAhead, LiveIsNewest
    <2>4. ASSUME NEW x \in Slots, NEW d \in Slots, slot'[x].pc \in Holding, Live(d)'
          PROVE  slot'[x].tick <= slot'[d].tick
      <3>1. slot'[x].tick <= tick
        BY <1>3, <1>1 DEF CycleMoves, NoneAhead
      <3>2. CASE Live(d) /\ slot'[d].tick = slot[d].tick
        <4>1. slot[x].pc \in Holding /\ slot'[x].tick = slot[x].tick
          BY <1>1, <2>4, <3>2 DEF CycleMoves
        <4> QED
          BY <3>2, <4>1 DEF IInv, LiveIsNewest
      <3>3. CASE slot'[d].tick = tick
        BY <3>1, <3>3
      <3> QED
        BY <2>2, <2>4, <3>2, <3>3
    <2> QED
      BY <2>1, <2>3, <2>4 DEF LiveIsNewest, CycleMoves
  <1>8. InOrder'
    BY DEF CycleMoves, IInv, InOrder
  <1> QED
    BY <1>2, <1>3, <1>4, <1>7, <1>8 DEF IInv

LEMMA IdleIsCycle ==
    /\ Idle \in Cycle /\ Idle.pc = "off" /\ Idle.tick = 0
    /\ Idle.pc \notin Holding /\ [Idle EXCEPT !.pc = "refresh"] \in Cycle
    /\ [Idle EXCEPT !.pc = "refresh"].pc = "refresh"
    /\ [Idle EXCEPT !.pc = "refresh"].tick = 0
  BY DEF Idle, Cycle, Holding

\* The first free slot is free.
LEMMA FreeSlotIsFree ==
    ASSUME NEW c \in Slots, c = FreeSlot
    PROVE  slot[c].pc = "off"
  <1> DEFINE free == {d \in Slots : slot[d].pc = "off"}
             R == OpToRel(<, Nat)
  <1>0. Slots \subseteq Nat \ {0}
    BY EngineAssumption
  <1>1. free # {} /\ free \subseteq Nat
    BY <1>0 DEF FreeSlot
  <1>2. PICK x \in free : \A y \in free : <<y, x>> \notin R
    <2>1. IsWellFoundedOn(R, Nat)
      BY NatLessThanWellFounded
    <2> HIDE DEF R, free
    <2> QED
      BY <1>1, <2>1, WFMin
  <1>3. \A y \in free : x <= y
    <2>1. \A y \in free : <<y, x>> \in Nat \X Nat
      BY <1>1
    <2>2. \A y \in free : ~(y < x)
      BY <1>2, <2>1 DEF OpToRel
    <2> HIDE DEF free
    <2> QED
      BY <1>1, <2>2
  <1>4. c \in free
    <2>1. FreeSlot = CHOOSE d \in free : \A y \in free : d <= y
      BY <1>1 DEF FreeSlot
    <2> HIDE DEF free
    <2> QED
      BY <1>2, <1>3, <2>1
  <1> QED
    BY <1>4

\* What a cycle picks and what a refresh goes through are jobs.
LEMMA PickedAreJobs ==
    /\ \A price : Scan(price) \in SUBSET Jobs
    /\ \A b \in BOOLEAN : Candidates(b) \in SUBSET Jobs
  BY DEF Scan, TriggeredOrders, LiquidatablePositions, Candidates, ListedOrders,
         ListedPositions, RecentOrders, RecentPositions, Api!Newest, Jobs

\* The loop begins a cycle, or gives up on the one it waits for.
LEMMA LoopKeeps ==
    ASSUME IInv, CycleTimeout \/ \E c \in Slots : Begin(c)
    PROVE  IInv'
  <1>1. CASE CycleTimeout
    <2> DEFINE new == [slot[main] EXCEPT !.late = TRUE]
    <2>1. main \in Slots /\ slot[main] \in Cycle
      BY <1>1 DEF CycleTimeout, IInv, TypeOK
    <2>2. new \in Cycle /\ new.pc = slot[main].pc /\ new.late
          /\ new.tick = slot[main].tick
      BY <2>1 DEF Cycle
    <2>3. slot' = [slot EXCEPT ![main] = new] /\ main' = 0
          /\ UNCHANGED <<tick, posted, queue>>
      BY <1>1, <2>1 DEF CycleTimeout, worldVars, IInv, TypeOK, Cycle
    <2> HIDE DEF new
    <2>4. CycleMoves(main, new)
      BY <2>1, <2>2, <2>3 DEF CycleMoves, IInv, NoneAhead, LiveIsNewest
    <2> QED
      BY <2>1, <2>4, CycleMovesKeeps
  <1>2. ASSUME NEW c \in Slots, Begin(c)
        PROVE  IInv'
    <2> DEFINE new == [Idle EXCEPT !.pc = "send", !.tick = tick, !.ids = Scan(Price(tick))]
    <2>1. new \in Cycle /\ new.tick = tick /\ ~new.late
      <3>1. Scan(Price(tick)) \in SUBSET Jobs /\ tick \in Nat
        BY PickedAreJobs DEF IInv, TypeOK
      <3> QED
        BY <3>1 DEF Idle, Cycle, Holding
    <2>2. /\ slot[c].pc = "off" /\ main = 0 /\ main' = c
          /\ slot' = [slot EXCEPT ![c] = new]
          /\ UNCHANGED <<tick, posted, queue>>
      BY <1>2, FreeSlotIsFree DEF Begin, worldVars
    <2>3. \A d \in Slots : ~Live(d)
      BY <2>2, EngineAssumption DEF IInv, LiveIsNewest
    <2> HIDE DEF new
    <2>4. CycleMoves(c, new)
      BY <2>1, <2>2, <2>3 DEF CycleMoves, IInv, TypeOK
    <2> QED
      BY <2>4, CycleMovesKeeps
  <1> QED
    BY <1>1, <1>2

LEMMA AttemptIsCycle ==
    ASSUME NEW x \in Cycle, NEW next \in {"send", "failed"}
    PROVE  LET new == [x EXCEPT !.tries = @ + 1, !.pc = next]
           IN  /\ new \in Cycle /\ new.pc = next /\ new.late = x.late
               /\ new.tick = x.tick
  <1> DEFINE y == [x EXCEPT !.tries = x.tries + 1]
  <1>1. y \in Cycle /\ y.late = x.late /\ y.tick = x.tick
    BY DEF Cycle
  <1> HIDE DEF y
  <1>2. [y EXCEPT !.pc = next] \in Cycle
        /\ [y EXCEPT !.pc = next].pc = next
        /\ [y EXCEPT !.pc = next].late = y.late
        /\ [y EXCEPT !.pc = next].tick = y.tick
    BY <1>1 DEF Cycle, Holding
  <1> QED
    BY <1>1, <1>2 DEF y

\* A cycle sends what it holds.
LEMMA SendKeeps ==
    ASSUME IInv, NEW c \in Slots, Send(c)
    PROVE  IInv'
  <1> DEFINE n == Len(queue)
             tx == Submission(c)
  <1>0. slot[c] \in Cycle /\ slot[c].tick <= tick
    BY DEF IInv, TypeOK, NoneAhead
  <1>1. /\ slot[c].pc = "send" /\ queue' = Append(queue, tx)
        /\ slot' = [slot EXCEPT ![c].pc = "wait"]
        /\ UNCHANGED <<tick, posted, main>>
    BY DEF Send
  <1>2. tx \in Tx /\ tx.slot = c /\ tx.tick = slot[c].tick /\ tx.late = slot[c].late
    BY <1>0 DEF Submission, Tx, Cycle
  <1>3. /\ queue' \in Seq(Tx) /\ n \in Nat /\ Len(queue') = n + 1
        /\ \A i \in 1 .. n : queue'[i] = queue[i]
        /\ queue'[n + 1] = tx
    BY <1>1, <1>2, AppendProperties DEF IInv, TypeOK
  <1>4. /\ slot'[c].pc = "wait" /\ slot'[c].late = slot[c].late
        /\ slot'[c].tick = slot[c].tick /\ slot'[c] \in Cycle
        /\ \A d \in Slots \ {c} : slot'[d] = slot[d]
    BY <1>0, <1>1 DEF IInv, TypeOK, Cycle, Holding
  <1>5. TypeOK'
    BY <1>1, <1>3, <1>4 DEF IInv, TypeOK
  <1>6. \A i \in 1 .. n : queue[i] \in Tx /\ queue[i].slot # c
    <2>1. \A i \in 1 .. n : queue[i] \in Tx
      BY ElementOfSeq DEF IInv, TypeOK
    <2>2. c # 0
      BY EngineAssumption
    <2> QED
      BY <1>1, <2>1, <2>2 DEF IInv, OneAwaited
  <1>7. \A i \in 1 .. Len(queue') : i \in 1 .. n \/ i = n + 1
    BY <1>3
  <1>8. \A d \in Slots : /\ slot'[d].tick = slot[d].tick /\ (Live(d)' <=> Live(d))
                         /\ slot'[d].pc \in Holding <=> slot[d].pc \in Holding
    BY <1>1, <1>4 DEF Live, Holding
  <1>9. slot[c].pc \in Holding
    BY <1>1 DEF Holding
  <1> HIDE DEF n, tx
  <1>10. NoneAhead'
    BY <1>0, <1>1, <1>2, <1>3, <1>7, <1>8 DEF IInv, NoneAhead, n
  <1>11. OneAwaited'
    <2>1. \A i \in 1 .. n : queue[i].slot # 0 =>
              queue[i].slot \in Slots \ {c} /\ slot'[queue[i].slot].pc = "wait"
      BY <1>4, <1>6 DEF IInv, OneAwaited, n, Tx
    <2>2. \A i \in 1 .. Len(queue') :
              queue'[i].slot # 0 => slot'[queue'[i].slot].pc = "wait"
      BY <1>2, <1>3, <1>4, <1>7, <2>1
    <2>3. \A i, j \in 1 .. Len(queue') :
              queue'[i].slot # 0 /\ queue'[i].slot = queue'[j].slot => i = j
      BY <1>2, <1>3, <1>6, <1>7 DEF IInv, OneAwaited, n
    <2> QED
      BY <2>2, <2>3 DEF OneAwaited
  <1>12. ASSUME NEW d \in Slots, Live(d)
         PROVE  /\ posted <= slot[d].tick
                /\ \A i \in 1 .. Len(queue') : queue'[i].tick <= slot[d].tick
    BY <1>2, <1>3, <1>7, <1>9, <1>12 DEF IInv, LiveIsNewest, n
  <1>13. LiveIsNewest'
    BY <1>1, <1>8, <1>12 DEF IInv, LiveIsNewest
  <1>14. InOrder'
    <2>1. ASSUME NEW i \in 1 .. Len(queue'), NEW j \in 1 .. Len(queue'),
                 i < j, ~queue'[j].late
          PROVE  queue'[i].tick <= queue'[j].tick
      <3>1. i \in 1 .. n
        BY <1>3, <2>1
      <3>2. CASE j \in 1 .. n
        BY <1>3, <2>1, <3>1, <3>2 DEF IInv, InOrder, n
      <3>3. CASE j = n + 1
        <4>1. Live(c)
          BY <1>2, <1>3, <1>9, <2>1, <3>3 DEF Live
        <4> QED
          BY <1>2, <1>3, <1>12, <3>3, <4>1
      <3> QED
        BY <1>7, <3>2, <3>3
    <2>2. ASSUME NEW i \in 1 .. Len(queue'), ~queue'[i].late
          PROVE  posted <= queue'[i].tick
      <3>1. CASE i \in 1 .. n
        BY <1>3, <2>2, <3>1 DEF IInv, InOrder, n
      <3>2. CASE i = n + 1
        <4>1. Live(c)
          BY <1>2, <1>3, <1>9, <2>2, <3>2 DEF Live
        <4> QED
          BY <1>2, <1>3, <1>12, <3>2, <4>1
      <3> QED
        BY <1>7, <3>1, <3>2
    <2> QED
      BY <1>1, <2>1, <2>2 DEF InOrder
  <1> QED
    BY <1>5, <1>10, <1>11, <1>13, <1>14 DEF IInv

\* A cycle takes note that an attempt failed, or is through with its prices,
\* posted or given up; it refreshes the cache, and ends.
LEMMA CycleKeeps ==
    ASSUME IInv, NEW c \in Slots,
           \/ AttemptFails(c) \/ Confirm(c) \/ GiveUp(c) \/ Finish(c)
           \/ FetchList(c) \/ FetchListFails(c) \/ ReadJob(c) \/ ReadFails(c)
    PROVE  IInv'
  <1>0. slot[c] \in Cycle /\ slot[c].tick <= tick /\ 0 <= tick
    BY DEF IInv, TypeOK, NoneAhead
  <1>1. CASE AttemptFails(c)
    <2> DEFINE next == IF slot[c].tries + 1 < MaxRetries THEN "send" ELSE "failed"
               new == [slot[c] EXCEPT !.tries = @ + 1, !.pc = next]
    <2>1. slot[c].pc \in {"send", "reverted"} /\ main' = main
          /\ slot' = [slot EXCEPT ![c] = new]
          /\ UNCHANGED <<tick, posted, queue>>
      BY <1>1 DEF AttemptFails, AfterAttempt, worldVars
    <2>2. next \in {"send", "failed"}
      OBVIOUS
    <2> HIDE DEF next
    <2>3. new \in Cycle /\ new.pc = next /\ new.late = slot[c].late
          /\ new.tick = slot[c].tick
      BY <1>0, <2>2, AttemptIsCycle
    <2> HIDE DEF new
    <2>4. slot[c].pc \in Holding
      BY <2>1 DEF Holding
    <2>5. CycleMoves(c, new)
      BY <1>0, <2>1, <2>3, <2>4 DEF CycleMoves, IInv, TypeOK, LiveIsNewest, Live
    <2> QED
      BY <2>5, CycleMovesKeeps
  <1>2. CASE Confirm(c) \/ GiveUp(c) \/ Finish(c)
    <2>1. \E new \in {Idle, [Idle EXCEPT !.pc = "refresh"]} :
             slot' = [slot EXCEPT ![c] = new]
      BY <1>2 DEF Confirm, GiveUp, Finish
    <2>2. slot[c].pc \in {"mined", "failed", "refresh", "read"} /\ main' \in {main, IF main = c THEN 0 ELSE main}
          /\ UNCHANGED <<tick, posted, queue>>
      BY <1>2 DEF Confirm, GiveUp, Finish, worldVars
    <2>3. PICK new \in {Idle, [Idle EXCEPT !.pc = "refresh"]} :
             slot' = [slot EXCEPT ![c] = new]
      BY <2>1
    <2>4. new \in Cycle /\ new.tick = 0 /\ new.pc \notin Holding
      BY <2>3, IdleIsCycle DEF Holding
    <2>5. CycleMoves(c, new)
      BY <1>0, <2>2, <2>3, <2>4 DEF CycleMoves, IInv, TypeOK, LiveIsNewest
    <2> QED
      BY <2>5, CycleMovesKeeps
  <1>3. ASSUME NEW new \in Cycle, slot' = [slot EXCEPT ![c] = new],
               new.pc = "read", new.tick = slot[c].tick, slot[c].pc # "wait",
               UNCHANGED <<tick, posted, queue, main>>
        PROVE  IInv'
    <2>1. new.pc \notin Holding
      BY <1>3 DEF Holding
    <2>2. CycleMoves(c, new)
      BY <1>0, <1>3, <2>1 DEF CycleMoves, IInv, TypeOK, LiveIsNewest
    <2> QED
      BY <2>2, CycleMovesKeeps
  <1>4. CASE FetchList(c)
    <2> DEFINE todo == Candidates(available /\ indexerUp)
               new == [slot[c] EXCEPT !.pc = "read", !.todo = todo]
    <2>1. slot' = [slot EXCEPT ![c] = new] /\ slot[c].pc = "refresh"
          /\ UNCHANGED <<tick, posted, queue, main>>
      BY <1>4 DEF FetchList, worldVars
    <2>2. todo \in SUBSET Jobs
      BY PickedAreJobs
    <2> HIDE DEF todo
    <2>3. new \in Cycle /\ new.pc = "read" /\ new.tick = slot[c].tick
      BY <1>0, <2>2 DEF Cycle
    <2> HIDE DEF new
    <2> QED
      BY <1>3, <2>1, <2>3
  <1>5. CASE FetchListFails(c)
    <2> DEFINE new == [slot[c] EXCEPT !.pc = "read"]
    <2>1. slot' = [slot EXCEPT ![c] = new] /\ slot[c].pc = "refresh"
          /\ UNCHANGED <<tick, posted, queue, main>>
      BY <1>5 DEF FetchListFails, worldVars
    <2>2. new \in Cycle /\ new.pc = "read" /\ new.tick = slot[c].tick
      BY <1>0 DEF Cycle
    <2> HIDE DEF new
    <2> QED
      BY <1>3, <2>1, <2>2
  <1>6. CASE ReadJob(c) \/ ReadFails(c)
    <2> DEFINE j == Next1(slot[c].todo)
               new == [slot[c] EXCEPT !.todo = @ \ {j}]
    <2>1. slot' = [slot EXCEPT ![c] = new] /\ slot[c].pc = "read"
          /\ UNCHANGED <<tick, posted, queue, main>>
      BY <1>6 DEF ReadJob, ReadFails, worldVars
    <2> HIDE DEF j
    <2>2. new \in Cycle /\ new.pc = "read" /\ new.tick = slot[c].tick
      BY <1>0, <2>1 DEF Cycle
    <2> HIDE DEF new
    <2> QED
      BY <1>3, <2>1, <2>2
  <1> QED
    BY <1>1, <1>2, <1>4, <1>5, <1>6

\* What is in flight stays as it is, but that some of it is no longer awaited.
Unawaited(c) ==
    /\ queue' \in Seq(Tx) /\ Len(queue') = Len(queue)
    /\ \A i \in 1 .. Len(queue) :
          /\ queue'[i].tick = queue[i].tick /\ queue'[i].late = queue[i].late
          /\ queue'[i].slot \in {0, queue[i].slot} /\ queue'[i].slot # c
    /\ \A d \in Slots \ {c} : slot'[d] = slot[d]

\* The cycle no longer awaits what it sent.
LEMMA WaitTimeoutKeeps ==
    ASSUME IInv, NEW c \in Slots, WaitTimeout(c)
    PROVE  IInv'
  <1> DEFINE next == IF slot[c].tries + 1 < MaxRetries THEN "send" ELSE "failed"
             new == [slot[c] EXCEPT !.tries = @ + 1, !.pc = next]
             n == Len(queue)
             forgotten(i) == IF queue[i].slot = c THEN [queue[i] EXCEPT !.slot = 0] ELSE queue[i]
  <1>1. /\ slot[c].pc = "wait" /\ slot' = [slot EXCEPT ![c] = new]
        /\ queue' = [i \in DOMAIN queue |-> forgotten(i)]
        /\ UNCHANGED <<tick, posted, main>>
    BY DEF WaitTimeout, AfterAttempt
  <1>2. next \in {"send", "failed"} /\ slot[c] \in Cycle
    BY DEF IInv, TypeOK
  <1> HIDE DEF next
  <1>3. new \in Cycle /\ new.pc = next /\ new.late = slot[c].late /\ new.tick = slot[c].tick
    BY <1>2, AttemptIsCycle
  <1>4. n \in Nat /\ DOMAIN queue = 1 .. n /\ \A i \in 1 .. n : queue[i] \in Tx
    BY ElementOfSeq DEF IInv, TypeOK
  <1>5. ASSUME NEW i \in 1 .. n
        PROVE  /\ forgotten(i) \in Tx /\ forgotten(i).slot # c
               /\ forgotten(i).tick = queue[i].tick /\ forgotten(i).late = queue[i].late
               /\ forgotten(i).slot \in {0, queue[i].slot}
    BY <1>4, EngineAssumption DEF Tx
  <1> HIDE DEF n, forgotten, new
  <1>6. queue' \in [1 .. n -> Tx] /\ \A i \in 1 .. n : queue'[i] = forgotten(i)
    BY <1>1, <1>4, <1>5
  <1>7. queue' \in Seq(Tx) /\ Len(queue') = n
    BY <1>4, <1>6, IsASeq, LenProperties
  <1>8. /\ slot' \in [Slots -> Cycle] /\ slot'[c] = new
        /\ \A d \in Slots \ {c} : slot'[d] = slot[d]
    BY <1>1, <1>3 DEF IInv, TypeOK
  <1>9. Unawaited(c)
    BY <1>5, <1>6, <1>7, <1>8 DEF Unawaited, n
  <1>10. TypeOK'
    BY <1>1, <1>7, <1>8 DEF IInv, TypeOK
  <1>11. \A d \in Slots : /\ slot'[d].tick = slot[d].tick /\ (Live(d)' <=> Live(d))
                          /\ slot'[d].pc \in Holding <=> slot[d].pc \in Holding
    BY <1>1, <1>2, <1>3, <1>8 DEF Live, Holding
  <1>12. NoneAhead' /\ LiveIsNewest' /\ InOrder'
    <2>1. NoneAhead'
      BY <1>1, <1>9, <1>11 DEF Unawaited, IInv, NoneAhead
    <2>2. LiveIsNewest'
      BY <1>1, <1>9, <1>11 DEF Unawaited, IInv, LiveIsNewest
    <2>3. /\ \A i, j \in 1 .. Len(queue') :
                i < j /\ ~queue'[j].late => queue'[i].tick <= queue'[j].tick
          /\ \A i \in 1 .. Len(queue') : ~queue'[i].late => posted <= queue'[i].tick
      BY <1>9 DEF Unawaited, IInv, InOrder
    <2>4. InOrder'
      BY <1>1, <2>3 DEF InOrder
    <2> QED
      BY <2>1, <2>2, <2>4
  <1>13. OneAwaited'
    <2>1. ASSUME NEW i \in 1 .. Len(queue'), queue'[i].slot # 0
          PROVE  slot'[queue'[i].slot].pc = "wait"
      <3>1. queue'[i] \in Tx
        BY <1>9, ElementOfSeq DEF Unawaited
      <3>2. queue'[i].slot \in Slots \ {c} /\ queue'[i].slot = queue[i].slot
        BY <1>9, <2>1, <3>1 DEF Unawaited, Tx
      <3> QED
        BY <1>9, <2>1, <3>2 DEF Unawaited, IInv, OneAwaited
    <2>2. \A i, j \in 1 .. Len(queue') :
              queue'[i].slot # 0 /\ queue'[i].slot = queue'[j].slot => i = j
      BY <1>9 DEF Unawaited, IInv, OneAwaited
    <2> QED
      BY <2>1, <2>2 DEF OneAwaited
  <1> QED
    BY <1>10, <1>12, <1>13 DEF IInv

\* A crash leaves only what is in flight.
LEMMA CrashKeeps ==
    ASSUME IInv, Crash
    PROVE  IInv'
  <1> DEFINE n == Len(queue)
  <1>1. /\ slot' = [c \in Slots |-> Idle] /\ main' = 0
        /\ queue' = [i \in DOMAIN queue |-> [queue[i] EXCEPT !.slot = 0]]
        /\ UNCHANGED <<tick, posted>>
    BY DEF Crash
  <1>2. n \in Nat /\ DOMAIN queue = 1 .. n /\ \A i \in 1 .. n : queue[i] \in Tx
    BY ElementOfSeq DEF IInv, TypeOK
  <1>3. /\ queue' \in [1 .. n -> Tx]
        /\ \A i \in 1 .. n : /\ queue'[i].slot = 0 /\ queue'[i].late = queue[i].late
                             /\ queue'[i].tick = queue[i].tick
    BY <1>1, <1>2 DEF Tx
  <1>4. queue' \in Seq(Tx) /\ Len(queue') = n
    BY <1>2, <1>3, IsASeq, LenProperties
  <1>5. \A c \in Slots : slot'[c] = Idle /\ ~Live(c)'
    BY <1>1, IdleIsCycle DEF Live
  <1>6. TypeOK'
    BY <1>1, <1>4, IdleIsCycle DEF IInv, TypeOK
  <1> HIDE DEF n
  <1>7. NoneAhead'
    <2>1. 0 <= tick
      BY DEF IInv, TypeOK
    <2> QED
      BY <1>1, <1>3, <1>4, <1>5, <2>1, IdleIsCycle DEF IInv, NoneAhead, n
  <1>8. OneAwaited'
    BY <1>3, <1>4 DEF OneAwaited
  <1>9. LiveIsNewest'
    BY <1>5 DEF LiveIsNewest
  <1>10. InOrder'
    BY <1>1, <1>3, <1>4 DEF IInv, InOrder, n
  <1> QED
    BY <1>6, <1>7, <1>8, <1>9, <1>10 DEF IInv

\* The oldest transaction is mined: its prices are posted, or are not.
LEMMA MinePosts ==
    ASSUME IInv, NEW soft, Mine(soft)
    PROVE  /\ queue # <<>> /\ queue[1] \in Tx /\ Head(queue) = queue[1] /\ 1 \in 1 .. Len(queue)
           /\ posted' \in {posted, queue[1].tick}
  <1>1. queue # <<>> /\ Head(queue) = queue[1] /\ queue[1] \in Tx /\ 1 \in 1 .. Len(queue)
    BY HeadTailProperties, ElementOfSeq, EmptySeq, LenProperties DEF Mine, IInv, TypeOK
  <1> QED
    BY <1>1 DEF Mine

LEMMA MineKeeps ==
    ASSUME IInv, NEW soft, Mine(soft)
    PROVE  IInv'
  <1> DEFINE tx == queue[1]
             n == Len(queue)
             outcome == IF Blocked(tx) THEN "reverted" ELSE "mined"
  <1>1. tx \in Tx /\ queue # <<>> /\ Head(queue) = tx /\ posted' \in {posted, tx.tick}
    BY MinePosts
  <1>2. /\ queue' = Tail(queue) /\ UNCHANGED <<tick, main>>
        /\ slot' = IF tx.slot # 0 THEN [slot EXCEPT ![tx.slot].pc = outcome] ELSE slot
    BY <1>1 DEF Mine
  <1>3. outcome \in {"mined", "reverted"}
    OBVIOUS
  <1>4. /\ n \in Nat /\ n >= 1 /\ queue' \in Seq(Tx) /\ Len(queue') = n - 1
        /\ \A i \in 1 .. n - 1 : queue'[i] = queue[i + 1] /\ i + 1 \in 1 .. n /\ 1 < i + 1
    BY <1>1, <1>2, HeadTailProperties, EmptySeq, LenProperties DEF IInv, TypeOK
  <1> HIDE DEF outcome, n
  <1>5. ASSUME tx.slot # 0
        PROVE  /\ tx.slot \in Slots
               /\ slot' = [slot EXCEPT ![tx.slot].pc = outcome]
               /\ slot[tx.slot].pc = "wait"
    BY <1>1, <1>2, <1>4, <1>5 DEF IInv, OneAwaited, Tx, n
  <1>6. /\ slot' \in [Slots -> Cycle]
        /\ \A c \in Slots : /\ slot'[c].late = slot[c].late
                            /\ slot'[c].tick = slot[c].tick
                            /\ slot'[c].pc \in Holding <=> slot[c].pc \in Holding
                            /\ c # tx.slot => slot'[c] = slot[c]
    <2>1. CASE tx.slot = 0
      BY <1>2, <2>1 DEF IInv, TypeOK
    <2>2. CASE tx.slot # 0
      <3> DEFINE was == slot[tx.slot]
      <3>0. was \in Cycle
        BY <1>5, <2>2 DEF IInv, TypeOK
      <3> HIDE DEF was
      <3>1. [was EXCEPT !.pc = outcome] \in Cycle
        BY <1>3, <3>0 DEF Cycle, Holding
      <3>2. /\ [slot[tx.slot] EXCEPT !.pc = outcome].late = slot[tx.slot].late
            /\ [slot[tx.slot] EXCEPT !.pc = outcome].tick = slot[tx.slot].tick
            /\ [slot[tx.slot] EXCEPT !.pc = outcome].pc = outcome
        BY <1>5, <2>2 DEF IInv, TypeOK, Cycle
      <3> QED
        BY <1>3, <1>5, <2>2, <3>1, <3>2 DEF was, IInv, TypeOK, Holding
    <2> QED
      BY <2>1, <2>2
  <1>7. \A c \in Slots : Live(c)' <=> Live(c)
    BY <1>6 DEF Live
  <1>8. tx.tick <= tick /\ tx.tick \in Nat
    BY <1>1, <1>4 DEF IInv, NoneAhead, n, Tx
  <1>9. TypeOK'
    BY <1>1, <1>2, <1>4, <1>6, <1>8 DEF IInv, TypeOK
  <1>10. NoneAhead'
    <2> HIDE DEF tx
    <2> QED
      BY <1>1, <1>2, <1>4, <1>6, <1>8 DEF IInv, NoneAhead, n
  <1>11. OneAwaited'
    <2>1. ASSUME NEW i \in 1 .. Len(queue'), queue'[i].slot # 0
          PROVE  slot'[queue'[i].slot].pc = "wait"
      <3>1. queue'[i] \in Tx /\ queue'[i] = queue[i + 1] /\ i + 1 \in 1 .. n /\ 1 \in 1 .. n
        BY <1>4, ElementOfSeq
      <3>2. queue'[i].slot \in Slots /\ queue'[i].slot # tx.slot
        BY <1>4, <2>1, <3>1 DEF Tx, IInv, OneAwaited, n
      <3> QED
        BY <1>6, <2>1, <3>1, <3>2 DEF IInv, OneAwaited, n
    <2>2. ASSUME NEW i \in 1 .. Len(queue'), NEW j \in 1 .. Len(queue'),
                 queue'[i].slot # 0, queue'[i].slot = queue'[j].slot
          PROVE  i = j
      <3>1. i + 1 = j + 1
        BY <1>4, <2>2 DEF IInv, OneAwaited, n
      <3> QED
        BY <1>4, <3>1
    <2> QED
      BY <2>1, <2>2 DEF OneAwaited
  <1>12. LiveIsNewest'
    <2>1. ASSUME NEW c \in Slots, Live(c)
          PROVE  /\ posted' <= slot[c].tick
                 /\ \A i \in 1 .. Len(queue') : queue'[i].tick <= slot[c].tick
      <3>1. tx.tick <= slot[c].tick
        BY <1>4, <2>1 DEF IInv, LiveIsNewest, n
      <3> QED
        BY <1>1, <1>4, <2>1, <3>1 DEF IInv, LiveIsNewest, n
    <2> QED
      BY <1>2, <1>6, <1>7, <2>1 DEF IInv, LiveIsNewest
  <1>13. InOrder'
    <2>1. ASSUME NEW i \in 1 .. Len(queue'), NEW j \in 1 .. Len(queue'),
                 i < j, ~queue'[j].late
          PROVE  queue'[i].tick <= queue'[j].tick
      <3>1. /\ i + 1 \in 1 .. n /\ j + 1 \in 1 .. n /\ i + 1 < j + 1
            /\ queue'[i] = queue[i + 1] /\ queue'[j] = queue[j + 1]
        BY <1>4, <2>1
      <3> QED
        BY <2>1, <3>1 DEF IInv, InOrder, n
    <2>2. ASSUME NEW i \in 1 .. Len(queue'), ~queue'[i].late
          PROVE  posted' <= queue'[i].tick
      <3>1. queue'[i] = queue[i + 1] /\ i + 1 \in 1 .. n /\ 1 \in 1 .. n /\ 1 < i + 1
        BY <1>4
      <3> QED
        BY <1>1, <2>2, <3>1 DEF IInv, InOrder, n
    <2> QED
      BY <2>1, <2>2 DEF InOrder
  <1> QED
    BY <1>9, <1>10, <1>11, <1>12, <1>13 DEF IInv

-----------------------------------------------------------------------------

LEMMA InitInv == Init => IInv
  <1> SUFFICES ASSUME Init PROVE IInv
    OBVIOUS
  <1>1. queue = <<>> /\ <<>> \in Seq(Tx) /\ Len(queue) = 0 /\ 1 .. Len(queue) = {}
    BY EmptySeq DEF Init
  <1>2. posted = 0 /\ tick = 0 /\ main = 0
    BY DEF Init
  <1>3. slot \in [Slots -> Cycle] /\ \A c \in Slots : slot[c] = Idle
    BY IdleIsCycle DEF Init
  <1> QED
    BY <1>1, <1>2, <1>3, IdleIsCycle
       DEF IInv, TypeOK, NoneAhead, OneAwaited, LiveIsNewest, InOrder, Live

LEMMA NextInv == IInv /\ [Next]_vars => IInv'
  <1> SUFFICES ASSUME IInv, [Next]_vars PROVE IInv'
    OBVIOUS
  <1>1. CASE MarketMoves
    <2>1. /\ tick' = tick + 1 /\ tick \in Nat
          /\ UNCHANGED <<main, posted, queue, slot>>
      BY <1>1 DEF MarketMoves, engineVars, IInv, TypeOK
    <2>2. TypeOK' /\ OneAwaited' /\ InOrder' /\ LiveIsNewest'
      BY <2>1 DEF IInv, TypeOK, OneAwaited, InOrder, LiveIsNewest, Live
    <2>3. /\ posted \in Nat
          /\ \A i \in 1 .. Len(queue) : queue[i].tick \in Nat
          /\ \A c \in Slots : slot[c].tick \in Nat
      <3>1. \A i \in 1 .. Len(queue) : queue[i] \in Tx
        BY ElementOfSeq DEF IInv, TypeOK
      <3> QED
        BY <3>1 DEF IInv, TypeOK, Tx, Cycle
    <2>4. NoneAhead'
      BY <2>1, <2>3 DEF IInv, NoneAhead
    <2> QED
      BY <2>2, <2>4 DEF IInv
  <1>2. ASSUME NEW soft, Mine(soft)
        PROVE  IInv'
    BY <1>2, MineKeeps
  <1>3. ASSUME UNCHANGED <<tick, posted, queue, slot, main>>
        PROVE  IInv'
    BY <1>3 DEF IInv, TypeOK, NoneAhead, OneAwaited, LiveIsNewest, Live, InOrder
  <1>4. CASE \/ IndexerCatchesUp \/ IndexerFails \/ IndexerReturns \/ Boot
             \/ \E j \in Jobs : Place(j) \/ Withdraw(j)
             \/ UNCHANGED vars
    BY <1>3, <1>4 DEF IndexerCatchesUp, IndexerFails, IndexerReturns, Boot, Place,
                      Withdraw, vars, worldVars, engineVars
  <1>5. CASE Crash
    BY <1>5, CrashKeeps
  <1>6. CASE CycleTimeout \/ \E c \in Slots : Begin(c)
    BY <1>6, LoopKeeps
  <1>7. ASSUME NEW c \in Slots, CycleStep(c) \/ FetchListFails(c) \/ ReadFails(c)
        PROVE  IInv'
    BY <1>7, SendKeeps, CycleKeeps DEF CycleStep
  <1>8. ASSUME NEW c \in Slots, WaitTimeout(c)
        PROVE  IInv'
    BY <1>8, WaitTimeoutKeeps
  <1> QED
    BY <1>1, <1>2, <1>4, <1>5, <1>6, <1>7, <1>8 DEF Next

LEMMA EngineInvariant == Spec => []IInv
  BY InitInv, NextInv, PTL DEF Spec

\* A step that takes the price back to an older one is the mining of a
\* transaction that a cycle sent after the loop had given up on it: retries,
\* unconfirmed transactions and crashes alone never do that
\* (.perps-engine/index.js, Promise.race).
THEOREM EngineStaleNeedsLate == Spec => StaleOnlyFromLate
  <1>1. IInv /\ [Next]_vars => [posted' < posted => Head(queue).late]_vars
    <2> SUFFICES ASSUME IInv, Next, posted' < posted, ~Head(queue).late
                 PROVE  FALSE
      OBVIOUS
    <2>1. posted \in Nat
      BY DEF IInv, TypeOK
    <2>2. PICK soft : Mine(soft)
      <3>1. posted' # posted
        BY <2>1
      <3> QED
        BY <3>1 DEF Next, MarketMoves, IndexerCatchesUp, IndexerFails, IndexerReturns,
                    Place, Withdraw, Boot, Crash, CycleTimeout, Begin, CycleStep, Send,
                    AttemptFails, Confirm, GiveUp, FetchList, ReadJob, Finish, WaitTimeout,
                    FetchListFails, ReadFails, worldVars
    <2>3. /\ queue[1] \in Tx /\ Head(queue) = queue[1] /\ 1 \in 1 .. Len(queue)
          /\ posted' \in {posted, queue[1].tick}
      BY <2>2, MinePosts
    <2>4. posted <= queue[1].tick /\ queue[1].tick \in Nat
      BY <2>3 DEF IInv, InOrder, Tx
    <2> QED
      BY <2>1, <2>3, <2>4
  <1> QED
    BY <1>1, EngineInvariant, PTL DEF Spec, StaleOnlyFromLate
=============================================================================
