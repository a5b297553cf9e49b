--------------------------- MODULE OracleNodeProofs ---------------------------
(***************************************************************************)
(* The prices the oracle node posts do not go backwards but by a cycle its *)
(* loop gave up on, for every number of markets, sources, cycles that run  *)
(* at once and transactions in flight.                                     *)
(***************************************************************************)
EXTENDS OracleNode, SequenceTheorems, WellFoundedInduction, TLAPS

Tx == [slot : Slots \cup {0}, quote : [Markets -> Nat], late : BOOLEAN]

Cycle ==
    [pc : {"off", "fetch", "send", "hung", "wait", "mined", "reverted", "failed"},
     asked : SUBSET Sources, quote : [Markets -> Nat], tries : Nat, late : BOOLEAN]

TypeOK ==
    /\ tick \in Nat /\ main \in Slots \cup {0}
    /\ posted \in [Markets -> Nat] /\ byLate \in [Markets -> BOOLEAN]
    /\ queue \in Seq(Tx)
    /\ slot \in [Slots -> Cycle]

\* No price is newer than the market.
NoneAhead ==
    /\ \A m \in Markets : posted[m] <= tick
    /\ \A i \in 1 .. Len(queue), m \in Markets : queue[i].quote[m] <= tick
    /\ \A c \in Slots, m \in Markets : slot[c].quote[m] <= tick

\* A transaction that is awaited is the only one of its cycle, and the loop
\* has given up on every cycle but the one it waits for.
OneAwaited ==
    /\ \A i \in 1 .. Len(queue) :
          queue[i].slot # 0 => slot[queue[i].slot].pc = "wait"
    /\ \A i, j \in 1 .. Len(queue) :
          queue[i].slot # 0 /\ queue[i].slot = queue[j].slot => i = j
    /\ \A c \in Slots : slot[c].pc # "off" /\ ~slot[c].late => c = main

\* Cycles the loop has not given up on ask one after the other: what they
\* posted, what they sent and what the running one holds is in order.
InOrder ==
    /\ \A i, j \in 1 .. Len(queue), m \in Markets :
          i < j /\ ~queue[i].late /\ ~queue[j].late /\ queue[j].quote[m] # 0 =>
             queue[i].quote[m] <= queue[j].quote[m]
    /\ \A i \in 1 .. Len(queue), m \in Markets :
          ~queue[i].late /\ queue[i].quote[m] # 0 /\ ~byLate[m] =>
             posted[m] <= queue[i].quote[m]
    /\ \A c \in Slots, m \in Markets :
          slot[c].pc # "off" /\ ~slot[c].late /\ slot[c].quote[m] # 0 =>
             /\ ~byLate[m] => posted[m] <= slot[c].quote[m]
             /\ \A i \in 1 .. Len(queue) :
                   ~queue[i].late => queue[i].quote[m] <= slot[c].quote[m]

IInv == TypeOK /\ NoneAhead /\ OneAwaited /\ InOrder

-----------------------------------------------------------------------------
(* One lemma per kind of step.                                             *)

\* Cycle c goes on, ends or begins: what it holds, while the loop waits for
\* it, is as old as before or new.
CycleMoves(c, new) ==
    /\ new \in Cycle
    /\ slot' = [slot EXCEPT ![c] = new]
    /\ main' \in Slots \cup {0}
    /\ new.pc = slot[c].pc \/ slot[c].pc # "wait"
    /\ \A m \in Markets : new.quote[m] <= tick
    /\ new.pc # "off" /\ ~new.late =>
          /\ c = main'
          /\ \A m \in Markets :
                \/ new.quote[m] \in {0, tick}
                \/ /\ slot[c].pc # "off" /\ ~slot[c].late
                   /\ new.quote[m] = slot[c].quote[m]
    /\ \A d \in Slots \ {c} : slot[d].pc # "off" /\ ~slot[d].late => d = main'
    /\ UNCHANGED <<tick, posted, byLate, queue>>

LEMMA CycleMovesKeeps ==
    ASSUME IInv, NEW c \in Slots, NEW new, CycleMoves(c, new)
    PROVE  IInv'
  <1>1. /\ slot'[c] = new
        /\ \A d \in Slots \ {c} : slot'[d] = slot[d]
    BY DEF CycleMoves, IInv, TypeOK
  <1>2. TypeOK'
    BY DEF CycleMoves, IInv, TypeOK
  <1>3. NoneAhead'
    BY <1>1 DEF CycleMoves, IInv, NoneAhead
  <1>4. OneAwaited'
    <2>1. ASSUME NEW i \in 1 .. Len(queue), queue[i].slot # 0
          PROVE  slot'[queue[i].slot].pc = "wait"
      <3>1. queue[i] \in Tx
        BY ElementOfSeq DEF IInv, TypeOK
      <3>2. queue[i].slot \in Slots /\ slot[queue[i].slot].pc = "wait"
        BY <2>1, <3>1 DEF IInv, Tx, OneAwaited
      <3> QED
        BY <1>1, <3>2 DEF CycleMoves
    <2>2. \A d \in Slots : slot'[d].pc # "off" /\ ~slot'[d].late => d = main'
      BY <1>1 DEF CycleMoves
    <2> QED
      BY <2>1, <2>2 DEF CycleMoves, IInv, OneAwaited
  <1>5. InOrder'
    <2>1. ASSUME NEW d \in Slots, NEW m \in Markets,
                 slot'[d].pc # "off", ~slot'[d].late, slot'[d].quote[m] # 0
          PROVE  /\ ~byLate[m] => posted[m] <= slot'[d].quote[m]
                 /\ \A i \in 1 .. Len(queue) :
                       ~queue[i].late => queue[i].quote[m] <= slot'[d].quote[m]
      <3>1. CASE slot'[d].quote[m] = tick
        BY <3>1 DEF IInv, NoneAhead
      <3>2. CASE /\ slot[d].pc # "off" /\ ~slot[d].late
                 /\ slot'[d].quote[m] = slot[d].quote[m]
        BY <2>1, <3>2 DEF IInv, InOrder
      <3> QED
        BY <1>1, <2>1, <3>1, <3>2 DEF CycleMoves
    <2> QED
      BY <2>1 DEF CycleMoves, IInv, InOrder
  <1> QED
    BY <1>2, <1>3, <1>4, <1>5 DEF IInv

LEMMA IdleIsCycle == Idle \in Cycle /\ Idle.pc = "off"
  BY DEF Idle, None, Cycle

\* A cycle that is over makes room for the next.
LEMMA EndKeeps ==
    ASSUME IInv, NEW c \in Slots, End(c), slot[c].pc # "wait",
           UNCHANGED <<tick, posted, byLate, queue>>
    PROVE  IInv'
  <1>1. slot' = [slot EXCEPT ![c] = Idle] /\ main' \in {0, main}
    BY DEF End
  <1>2. \A m \in Markets : Idle.quote[m] <= tick
    BY DEF Idle, None, IInv, TypeOK
  <1>3. \A d \in Slots \ {c} : slot[d].pc # "off" /\ ~slot[d].late => d = main'
    BY DEF IInv, OneAwaited, End
  <1>4. CycleMoves(c, Idle)
    BY <1>1, <1>2, <1>3, IdleIsCycle DEF CycleMoves, IInv, TypeOK
  <1> QED
    BY <1>4, CycleMovesKeeps

\* The first free slot is free.
LEMMA FreeSlotIsFree ==
    ASSUME OracleAssumption, NEW c \in Slots, c = FreeSlot
    PROVE  slot[c].pc = "off"
  <1> DEFINE free == {d \in Slots : slot[d].pc = "off"}
             R == OpToRel(<, Nat)
  <1>1. free # {} /\ free \subseteq Nat
    BY DEF FreeSlot, OracleAssumption
  <1>2. PICK x \in free : \A y \in free : <<y, x>> \notin R
    <2>1. IsWellFoundedOn(R, Nat)
      BY NatLessThanWellFounded
    <2> HIDE DEF R, free
    <2> QED
      BY <1>1, <2>1, WFMin
  <1>3. \A y \in free : x <= y
    <2>1. \A y \in free : <<y, x>> \in Nat \X Nat
      BY <1>1
    <2>2. \A y \in free : ~(y < x)
      BY <1>2, <2>1 DEF OpToRel
    <2> HIDE DEF free
    <2> QED
      BY <1>1, <2>2
  <1>4. c \in free
    <2>1. FreeSlot = CHOOSE d \in free : \A y \in free : d <= y
      BY <1>1 DEF FreeSlot
    <2> HIDE DEF free
    <2> QED
      BY <1>2, <1>3, <2>1
  <1> QED
    BY <1>4

\* The loop begins a cycle, or gives up on the one it waits for.
LEMMA LoopKeeps ==
    ASSUME IInv, CycleTimeout \/ \E c \in Slots : Begin(c)
    PROVE  IInv'
  <1>1. CASE CycleTimeout
    <2> DEFINE new == [slot[main] EXCEPT !.late = TRUE]
    <2>1. main \in Slots /\ slot[main] \in Cycle
      BY <1>1 DEF CycleTimeout, IInv, TypeOK
    <2>2. new \in Cycle /\ new.pc = slot[main].pc /\ new.late
          /\ new.quote = slot[main].quote
      BY <2>1 DEF Cycle
    <2>3. slot' = [slot EXCEPT ![main] = new] /\ main' = 0
          /\ UNCHANGED <<tick, posted, byLate, queue>>
      BY <1>1, <2>1 DEF CycleTimeout, worldVars, IInv, TypeOK, Cycle
    <2> HIDE DEF new
    <2>4. CycleMoves(main, new)
      BY <2>1, <2>2, <2>3 DEF CycleMoves, IInv, NoneAhead, OneAwaited
    <2> QED
      BY <2>1, <2>4, CycleMovesKeeps
  <1>2. ASSUME NEW c \in Slots, Begin(c)
        PROVE  IInv'
    <2> DEFINE new == [Idle EXCEPT !.pc = "fetch", !.asked = Sources]
    <2>1. new \in Cycle /\ new.quote = None
      BY DEF Idle, None, Cycle
    <2>2. /\ slot[c].pc = "off" /\ main = 0 /\ main' = c
          /\ slot' = [slot EXCEPT ![c] = new]
          /\ UNCHANGED <<tick, posted, byLate, queue>>
      BY <1>2, FreeSlotIsFree, OracleAssumption DEF Begin, worldVars
    <2>3. \A d \in Slots : slot[d].pc # "off" => slot[d].late
      BY <2>2, OracleAssumption DEF IInv, OneAwaited
    <2>4. \A m \in Markets : new.quote[m] = 0 /\ 0 <= tick
      BY <2>1 DEF None, IInv, TypeOK
    <2> HIDE DEF new
    <2>5. CycleMoves(c, new)
      BY <2>1, <2>2, <2>3, <2>4 DEF CycleMoves
    <2> QED
      BY <2>5, CycleMovesKeeps
  <1> QED
    BY <1>1, <1>2

\* A cycle that asks goes on asking, or stops: the sources answer with the
\* market's price, or with none.
LEMMA FetchKeeps ==
    ASSUME IInv, NEW c \in Slots,
           \/ \E s \in Sources : \E gap \in SUBSET Markets : Fetch(c, s, gap)
           \/ \E s \in Sources : FetchFails(c, s)
           \/ Collect(c) \/ Hang(c)
    PROVE  IInv'
  <1> slot[c] \in Cycle
    BY DEF IInv, TypeOK
  <1>0. \A m \in Markets : slot[c].quote[m] <= tick
    BY DEF IInv, NoneAhead
  <1>1. ASSUME NEW s \in Sources, NEW gap \in SUBSET Markets, Fetch(c, s, gap)
        PROVE  IInv'
    <2> DEFINE new == [slot[c] EXCEPT
                  !.asked = @ \ {s},
                  !.quote = [m \in Markets |->
                      IF Source[m] = s /\ m \notin gap /\ Price18(m, tick) > 0
                      THEN tick ELSE @[m]]]
    <2>1. slot[c].pc = "fetch" /\ main' = main
          /\ slot' = [slot EXCEPT ![c] = new]
          /\ UNCHANGED <<tick, posted, byLate, queue>>
      BY <1>1 DEF Fetch, worldVars
    <2>2. new \in Cycle /\ new.pc = slot[c].pc /\ new.late = slot[c].late
          /\ \A m \in Markets : new.quote[m] \in {tick, slot[c].quote[m]}
      BY DEF Cycle, IInv, TypeOK
    <2>3. \A m \in Markets : new.quote[m] <= tick
      BY <1>0, <2>2 DEF IInv, TypeOK
    <2> HIDE DEF new
    <2>4. CycleMoves(c, new)
      BY <2>1, <2>2, <2>3 DEF CycleMoves, IInv, TypeOK, OneAwaited
    <2> QED
      BY <2>4, CycleMovesKeeps
  <1>2. ASSUME NEW s \in Sources, FetchFails(c, s)
        PROVE  IInv'
    <2> DEFINE new == [slot[c] EXCEPT !.asked = @ \ {s}]
    <2>1. slot[c].pc = "fetch" /\ main' = main
          /\ slot' = [slot EXCEPT ![c] = new]
          /\ UNCHANGED <<tick, posted, byLate, queue>>
      BY <1>2 DEF FetchFails, worldVars
    <2>2. new \in Cycle /\ new.pc = slot[c].pc /\ new.late = slot[c].late
          /\ new.quote = slot[c].quote
      BY DEF Cycle
    <2> HIDE DEF new
    <2>4. CycleMoves(c, new)
      BY <1>0, <2>1, <2>2 DEF CycleMoves, IInv, TypeOK, OneAwaited
    <2> QED
      BY <2>4, CycleMovesKeeps
  <1>3. CASE Collect(c)
    <2>1. CASE End(c)
      BY <1>3, <2>1, EndKeeps DEF Collect, worldVars
    <2>2. CASE slot' = [slot EXCEPT ![c].pc = "send"] /\ UNCHANGED main
      <3> DEFINE new == [slot[c] EXCEPT !.pc = "send"]
      <3>1. slot[c].pc = "fetch" /\ main' = main
            /\ slot' = [slot EXCEPT ![c] = new]
            /\ UNCHANGED <<tick, posted, byLate, queue>>
        BY <1>3, <2>2 DEF Collect, worldVars
      <3>2. new \in Cycle /\ new.late = slot[c].late /\ new.quote = slot[c].quote
        BY DEF Cycle
      <3> HIDE DEF new
      <3>4. CycleMoves(c, new)
        BY <1>0, <3>1, <3>2 DEF CycleMoves, IInv, TypeOK, OneAwaited
      <3> QED
        BY <3>4, CycleMovesKeeps
    <2> QED
      BY <1>3, <2>1, <2>2 DEF Collect
  <1>4. CASE Hang(c)
    <2> DEFINE new == [slot[c] EXCEPT !.pc = "hung"]
    <2>1. slot[c].pc \in {"fetch", "send"} /\ main' = main
          /\ slot' = [slot EXCEPT ![c] = new]
          /\ UNCHANGED <<tick, posted, byLate, queue>>
      BY <1>4 DEF Hang, worldVars
    <2>2. new \in Cycle /\ new.late = slot[c].late /\ new.quote = slot[c].quote
      BY DEF Cycle
    <2> HIDE DEF new
    <2>4. CycleMoves(c, new)
      BY <1>0, <2>1, <2>2 DEF CycleMoves, IInv, TypeOK, OneAwaited
    <2> QED
      BY <2>4, CycleMovesKeeps
  <1> QED
    BY <1>1, <1>2, <1>3, <1>4

LEMMA AttemptIsCycle ==
    ASSUME NEW x \in Cycle, NEW next \in {"send", "failed"}
    PROVE  LET new == [x EXCEPT !.tries = @ + 1, !.pc = next]
           IN  new \in Cycle /\ new.late = x.late /\ new.quote = x.quote
  <1> DEFINE y == [x EXCEPT !.tries = x.tries + 1]
  <1>1. y \in Cycle /\ y.late = x.late /\ y.quote = x.quote
    BY DEF Cycle
  <1> HIDE DEF y
  <1>2. [y EXCEPT !.pc = next] \in Cycle
        /\ [y EXCEPT !.pc = next].late = y.late
        /\ [y EXCEPT !.pc = next].quote = y.quote
    BY <1>1 DEF Cycle
  <1> QED
    BY <1>1, <1>2 DEF y

\* A cycle submits what it holds, takes note that an attempt failed, or ends.
LEMMA SubmitKeeps ==
    ASSUME IInv, NEW c \in Slots,
           Send(c) \/ AttemptFails(c) \/ HungTimeout(c) \/ Confirm(c) \/ GiveUp(c)
    PROVE  IInv'
  <1> slot[c] \in Cycle
    BY DEF IInv, TypeOK
  <1>0. \A m \in Markets : slot[c].quote[m] <= tick
    BY DEF IInv, NoneAhead
  <1>1. CASE Send(c)
    <2> DEFINE n == Len(queue)
               tx == [slot |-> c, quote |-> slot[c].quote, late |-> slot[c].late]
    <2>1. /\ slot[c].pc = "send" /\ queue' = Append(queue, tx)
          /\ slot' = [slot EXCEPT ![c].pc = "wait"]
          /\ UNCHANGED <<tick, posted, byLate, main>>
      BY <1>1 DEF Send
    <2>2. tx \in Tx
      BY DEF Tx, Cycle
    <2>3. /\ queue' \in Seq(Tx) /\ n \in Nat /\ Len(queue') = n + 1
          /\ \A i \in 1 .. n : queue'[i] = queue[i]
          /\ queue'[n + 1] = tx
      BY <2>1, <2>2, AppendProperties DEF IInv, TypeOK
    <2>4. /\ slot'[c].pc = "wait" /\ slot'[c].late = slot[c].late
          /\ slot'[c].quote = slot[c].quote /\ slot'[c] \in Cycle
          /\ \A d \in Slots \ {c} : slot'[d] = slot[d]
      BY <2>1 DEF IInv, TypeOK, Cycle
    <2>5. TypeOK'
      BY <2>1, <2>3, <2>4 DEF IInv, TypeOK
    <2>6. /\ tx.slot = c /\ tx.quote = slot[c].quote /\ tx.late = slot[c].late
          /\ \A i \in 1 .. n : queue[i] \in Tx /\ queue[i].slot # c
      <3>1. \A i \in 1 .. n : queue[i] \in Tx
        BY ElementOfSeq DEF IInv, TypeOK
      <3>2. \A i \in 1 .. n : queue[i].slot = c => slot[c].pc = "wait" \/ c = 0
        BY DEF IInv, OneAwaited
      <3> QED
        BY <2>1, <3>1, <3>2, OracleAssumption
    <2>7. \A i \in 1 .. Len(queue') : i \in 1 .. n \/ i = n + 1
      BY <2>3
    <2> HIDE DEF n, tx
    <2>8. NoneAhead'
      BY <1>0, <2>1, <2>3, <2>4, <2>6, <2>7 DEF IInv, NoneAhead, n
    <2>9. OneAwaited'
      <3>1. \A i \in 1 .. n : queue[i].slot # 0 =>
                queue[i].slot \in Slots \ {c} /\ slot'[queue[i].slot].pc = "wait"
        BY <2>4, <2>6 DEF IInv, OneAwaited, n, Tx
      <3>2. \A i \in 1 .. Len(queue') :
                queue'[i].slot # 0 => slot'[queue'[i].slot].pc = "wait"
        BY <2>3, <2>4, <2>6, <2>7, <3>1
      <3>3. \A i, j \in 1 .. Len(queue') :
                queue'[i].slot # 0 /\ queue'[i].slot = queue'[j].slot => i = j
        BY <2>3, <2>6, <2>7 DEF IInv, OneAwaited, n
      <3>4. \A d \in Slots : slot'[d].pc # "off" /\ ~slot'[d].late => d = main'
        BY <2>1, <2>4 DEF IInv, OneAwaited
      <3> QED
        BY <3>2, <3>3, <3>4 DEF OneAwaited
    <2>10. InOrder'
      <3>1. \A i, j \in 1 .. Len(queue'), m \in Markets :
               i < j /\ ~queue'[i].late /\ ~queue'[j].late /\ queue'[j].quote[m] # 0 =>
                  queue'[i].quote[m] <= queue'[j].quote[m]
        <4> SUFFICES ASSUME NEW i \in 1 .. Len(queue'), NEW j \in 1 .. Len(queue'),
                            NEW m \in Markets, i < j, ~queue'[i].late,
                            ~queue'[j].late, queue'[j].quote[m] # 0
                     PROVE  queue'[i].quote[m] <= queue'[j].quote[m]
          OBVIOUS
        <4>1. i \in 1 .. n
          BY <2>3
        <4>2. CASE j \in 1 .. n
          BY <2>3, <4>1, <4>2 DEF IInv, InOrder, n
        <4>3. CASE j = n + 1
          BY <2>1, <2>3, <2>6, <4>1, <4>3 DEF IInv, InOrder, n
        <4> QED
          BY <2>7, <4>2, <4>3
      <3>2. \A i \in 1 .. Len(queue'), m \in Markets :
               ~queue'[i].late /\ queue'[i].quote[m] # 0 /\ ~byLate[m] =>
                  posted[m] <= queue'[i].quote[m]
        BY <2>1, <2>3, <2>6, <2>7 DEF IInv, InOrder, n
      <3>3. ASSUME NEW d \in Slots, NEW m \in Markets,
                   slot'[d].pc # "off", ~slot'[d].late, slot'[d].quote[m] # 0
            PROVE  /\ ~byLate[m] => posted[m] <= slot'[d].quote[m]
                   /\ \A i \in 1 .. Len(queue') :
                         ~queue'[i].late => queue'[i].quote[m] <= slot'[d].quote[m]
        <4>1. /\ slot[d].pc # "off" /\ ~slot[d].late /\ slot[d].quote = slot'[d].quote
          BY <2>1, <2>4, <3>3
        <4>2. tx.late \/ d = c
          BY <2>1, <2>6, <4>1 DEF IInv, OneAwaited
        <4>3. slot[c].quote[m] \in Nat
          BY DEF Cycle
        <4> QED
          BY <2>3, <2>6, <2>7, <3>3, <4>1, <4>2, <4>3 DEF IInv, InOrder, n
      <3> QED
        BY <2>1, <3>1, <3>2, <3>3 DEF InOrder
    <2> QED
      BY <2>5, <2>8, <2>9, <2>10 DEF IInv
  <1>2. CASE AttemptFails(c)
    <2> DEFINE next == IF slot[c].tries + 1 < MaxRetries THEN "send" ELSE "failed"
               new == [slot[c] EXCEPT !.tries = @ + 1, !.pc = next]
    <2>1. slot[c].pc \in {"send", "reverted"} /\ main' = main
          /\ slot' = [slot EXCEPT ![c] = new]
          /\ UNCHANGED <<tick, posted, byLate, queue>>
      BY <1>2 DEF AttemptFails, AfterAttempt, worldVars
    <2>2. next \in {"send", "failed"}
      OBVIOUS
    <2> HIDE DEF next
    <2>3. new \in Cycle /\ new.late = slot[c].late /\ new.quote = slot[c].quote
      BY <2>2, AttemptIsCycle
    <2> HIDE DEF new
    <2>4. CycleMoves(c, new)
      BY <1>0, <2>1, <2>3 DEF CycleMoves, IInv, TypeOK, OneAwaited
    <2> QED
      BY <2>4, CycleMovesKeeps
  <1>3. CASE HungTimeout(c) \/ Confirm(c) \/ GiveUp(c)
    BY <1>3, EndKeeps DEF HungTimeout, Confirm, GiveUp, worldVars
  <1> QED
    BY <1>1, <1>2, <1>3

\* What is in flight stays as it is, but that some of it is no longer awaited.
Unawaited(c) ==
    /\ queue' \in Seq(Tx) /\ Len(queue') = Len(queue)
    /\ \A i \in 1 .. Len(queue) :
          /\ queue'[i].quote = queue[i].quote /\ queue'[i].late = queue[i].late
          /\ queue'[i].slot = queue[i].slot \/ queue'[i].slot = 0
          /\ queue'[i].slot # c
    /\ \A d \in Slots \ {c} : slot'[d] = slot[d]

LEMMA UnawaitedKeeps ==
    ASSUME IInv, NEW c \in Slots, Unawaited(c), TypeOK',
           UNCHANGED <<tick, posted, byLate, main>>,
           /\ slot'[c].quote = slot[c].quote /\ slot'[c].late = slot[c].late
           /\ slot[c].pc # "off"
    PROVE  IInv'
  <1>1. NoneAhead'
    BY DEF Unawaited, IInv, NoneAhead
  <1>2. OneAwaited'
    <2>1. ASSUME NEW i \in 1 .. Len(queue'), queue'[i].slot # 0
          PROVE  slot'[queue'[i].slot].pc = "wait"
      <3>1. queue'[i] \in Tx
        BY ElementOfSeq DEF Unawaited
      <3>2. queue'[i].slot \in Slots \ {c} /\ queue'[i].slot = queue[i].slot
        BY <2>1, <3>1 DEF Unawaited, Tx
      <3> QED
        BY <2>1, <3>2 DEF Unawaited, IInv, OneAwaited
    <2>2. \A d \in Slots : slot'[d].pc # "off" /\ ~slot'[d].late => d = main'
      BY DEF Unawaited, IInv, OneAwaited
    <2>3. \A i, j \in 1 .. Len(queue') :
              queue'[i].slot # 0 /\ queue'[i].slot = queue'[j].slot => i = j
      BY DEF Unawaited, IInv, OneAwaited
    <2> QED
      BY <2>1, <2>2, <2>3 DEF OneAwaited
  <1>3. InOrder'
    BY DEF Unawaited, IInv, InOrder
  <1> QED
    BY <1>1, <1>2, <1>3 DEF IInv

\* The cycle no longer awaits what it sent.
LEMMA WaitTimeoutKeeps ==
    ASSUME IInv, NEW c \in Slots, WaitTimeout(c)
    PROVE  IInv'
  <1> DEFINE next == IF slot[c].tries + 1 < MaxRetries THEN "send" ELSE "failed"
             new == [slot[c] EXCEPT !.tries = @ + 1, !.pc = next]
             n == Len(queue)
             forgotten(i) == IF queue[i].slot = c THEN [queue[i] EXCEPT !.slot = 0] ELSE queue[i]
  <1>1. /\ slot[c].pc = "wait" /\ slot' = [slot EXCEPT ![c] = new]
        /\ queue' = [i \in DOMAIN queue |-> forgotten(i)]
        /\ UNCHANGED <<tick, posted, byLate, main>>
    BY DEF WaitTimeout, AfterAttempt, Forget
  <1>2. next \in {"send", "failed"}
    OBVIOUS
  <1> HIDE DEF next
  <1>3. new \in Cycle /\ new.late = slot[c].late /\ new.quote = slot[c].quote
    BY <1>2, AttemptIsCycle DEF IInv, TypeOK
  <1>4. n \in Nat /\ DOMAIN queue = 1 .. n /\ \A i \in 1 .. n : queue[i] \in Tx
    BY ElementOfSeq DEF IInv, TypeOK
  <1>5. ASSUME NEW i \in 1 .. n
        PROVE  /\ forgotten(i) \in Tx /\ forgotten(i).slot # c
               /\ forgotten(i).quote = queue[i].quote /\ forgotten(i).late = queue[i].late
               /\ forgotten(i).slot \in {0, queue[i].slot}
    BY <1>4, OracleAssumption DEF Tx
  <1> HIDE DEF n, forgotten, new
  <1>6. queue' \in [1 .. n -> Tx] /\ \A i \in 1 .. n : queue'[i] = forgotten(i)
    BY <1>1, <1>4, <1>5
  <1>7. queue' \in Seq(Tx) /\ Len(queue') = n
    BY <1>4, <1>6, IsASeq, LenProperties
  <1>8. /\ slot' \in [Slots -> Cycle] /\ slot'[c] = new
        /\ \A d \in Slots \ {c} : slot'[d] = slot[d]
    BY <1>1, <1>3 DEF IInv, TypeOK
  <1>9. Unawaited(c)
    BY <1>5, <1>6, <1>7, <1>8 DEF Unawaited, n
  <1>10. TypeOK'
    BY <1>1, <1>7, <1>8 DEF IInv, TypeOK
  <1> QED
    BY <1>1, <1>3, <1>8, <1>9, <1>10, UnawaitedKeeps

\* A crash leaves only what is in flight.
LEMMA CrashKeeps ==
    ASSUME IInv, Crash
    PROVE  IInv'
  <1> DEFINE n == Len(queue)
  <1>1. /\ slot' = [c \in Slots |-> Idle] /\ main' = 0
        /\ queue' = [i \in DOMAIN queue |-> [queue[i] EXCEPT !.slot = 0]]
        /\ UNCHANGED <<tick, posted, byLate>>
    BY DEF Crash
  <1>2. n \in Nat /\ DOMAIN queue = 1 .. n /\ \A i \in 1 .. n : queue[i] \in Tx
    BY ElementOfSeq DEF IInv, TypeOK
  <1>3. /\ queue' \in [1 .. n -> Tx]
        /\ \A i \in 1 .. n : /\ queue'[i].slot = 0 /\ queue'[i].late = queue[i].late
                             /\ queue'[i].quote = queue[i].quote
    BY <1>1, <1>2 DEF Tx
  <1>4. queue' \in Seq(Tx) /\ Len(queue') = n
    BY <1>2, <1>3, IsASeq, LenProperties
  <1>5. \A c \in Slots : slot'[c] = Idle
    BY <1>1
  <1>6. TypeOK'
    BY <1>1, <1>4, IdleIsCycle DEF IInv, TypeOK
  <1>7. \A m \in Markets : Idle.quote[m] = 0 /\ 0 <= tick
    BY DEF Idle, None, IInv, TypeOK
  <1> HIDE DEF n
  <1>8. NoneAhead'
    BY <1>1, <1>3, <1>4, <1>5, <1>7 DEF IInv, NoneAhead, n
  <1>9. OneAwaited'
    BY <1>3, <1>4, <1>5, IdleIsCycle DEF OneAwaited
  <1>10. InOrder'
    BY <1>1, <1>3, <1>4, <1>5, IdleIsCycle DEF IInv, InOrder, n
  <1> QED
    BY <1>6, <1>8, <1>9, <1>10 DEF IInv

\* The oldest transaction is mined: its prices are posted, or are not.
Posts(tx) ==
    /\ posted' \in [Markets -> Nat] /\ byLate' \in [Markets -> BOOLEAN]
    /\ \A m \in Markets :
          \/ posted'[m] = posted[m] /\ byLate'[m] = byLate[m]
          \/ tx.quote[m] # 0 /\ posted'[m] = tx.quote[m] /\ byLate'[m] = tx.late

LEMMA MinePosts ==
    ASSUME IInv, Mine
    PROVE  queue # <<>> /\ queue[1] \in Tx /\ Posts(queue[1])
  <1>1. queue # <<>> /\ Head(queue) = queue[1] /\ queue[1] \in Tx
    BY HeadTailProperties, ElementOfSeq, EmptySeq DEF Mine, IInv, TypeOK
  <1>2. CASE Accepted(queue[1].quote)
    <2>1. /\ posted' = [m \in Markets |-> IF m \in Batch(queue[1].quote)
                                         THEN queue[1].quote[m] ELSE posted[m]]
          /\ byLate' = [m \in Markets |-> IF m \in Batch(queue[1].quote)
                                         THEN queue[1].late ELSE byLate[m]]
      BY <1>1, <1>2 DEF Mine
    <2> QED
      BY <1>1, <2>1 DEF Posts, Batch, IInv, TypeOK, Tx
  <1>3. CASE ~Accepted(queue[1].quote)
    BY <1>1, <1>3 DEF Mine, Posts, IInv, TypeOK
  <1> QED
    BY <1>1, <1>2, <1>3

LEMMA MineKeeps ==
    ASSUME IInv, Mine
    PROVE  IInv'
  <1> DEFINE tx == queue[1]
             n == Len(queue)
             outcome == IF Accepted(tx.quote) THEN "mined" ELSE "reverted"
  <1>1. tx \in Tx /\ Posts(tx) /\ queue # <<>> /\ Head(queue) = tx
    BY MinePosts, HeadTailProperties DEF IInv, TypeOK
  <1>2. /\ queue' = Tail(queue) /\ UNCHANGED <<tick, main>>
        /\ slot' = IF tx.slot # 0 THEN [slot EXCEPT ![tx.slot].pc = outcome] ELSE slot
    BY <1>1 DEF Mine
  <1>3. outcome \in {"mined", "reverted"}
    OBVIOUS
  <1>4. /\ n \in Nat /\ n >= 1 /\ queue' \in Seq(Tx) /\ Len(queue') = n - 1
        /\ \A i \in 1 .. n - 1 : queue'[i] = queue[i + 1] /\ i + 1 \in 1 .. n /\ 1 < i + 1
    BY <1>1, <1>2, HeadTailProperties, EmptySeq, LenProperties DEF IInv, TypeOK
  <1> HIDE DEF outcome, n
  <1>5. ASSUME tx.slot # 0
        PROVE  /\ tx.slot \in Slots
               /\ slot' = [slot EXCEPT ![tx.slot].pc = outcome]
               /\ slot[tx.slot].pc = "wait"
    BY <1>1, <1>2, <1>4, <1>5 DEF IInv, OneAwaited, Tx, n
  <1>6. /\ slot' \in [Slots -> Cycle]
        /\ \A c \in Slots : /\ slot'[c].late = slot[c].late
                            /\ slot'[c].quote = slot[c].quote
                            /\ slot'[c].pc # "off" => slot[c].pc # "off"
                            /\ c # tx.slot => slot'[c] = slot[c]
    <2>1. CASE tx.slot = 0
      BY <1>2, <2>1 DEF IInv, TypeOK
    <2>2. CASE tx.slot # 0
      <3>1. [slot[tx.slot] EXCEPT !.pc = outcome] \in Cycle
        BY <1>3, <1>5, <2>2 DEF IInv, TypeOK, Cycle
      <3>2. /\ [slot[tx.slot] EXCEPT !.pc = outcome].late = slot[tx.slot].late
            /\ [slot[tx.slot] EXCEPT !.pc = outcome].quote = slot[tx.slot].quote
        BY <1>5, <2>2 DEF IInv, TypeOK, Cycle
      <3> QED
        BY <1>5, <2>2, <3>1, <3>2 DEF IInv, TypeOK
    <2> QED
      BY <2>1, <2>2
  <1>7. TypeOK'
    BY <1>1, <1>2, <1>4, <1>6 DEF IInv, TypeOK, Posts
  <1>8. NoneAhead'
    <2>1. \A m \in Markets : tx.quote[m] <= tick /\ posted[m] <= tick
      BY <1>4 DEF IInv, NoneAhead, n
    <2>2. \A m \in Markets : posted'[m] <= tick'
      BY <1>1, <1>2, <2>1 DEF Posts
    <2> HIDE DEF tx
    <2>3. \A i \in 1 .. Len(queue'), m \in Markets : queue'[i].quote[m] <= tick'
      BY <1>2, <1>4 DEF IInv, NoneAhead, n
    <2>4. \A c \in Slots, m \in Markets : slot'[c].quote[m] <= tick'
      BY <1>2, <1>6 DEF IInv, NoneAhead
    <2> QED
      BY <2>2, <2>3, <2>4 DEF NoneAhead
  <1>9. OneAwaited'
    <2>1. ASSUME NEW i \in 1 .. Len(queue'), queue'[i].slot # 0
          PROVE  slot'[queue'[i].slot].pc = "wait"
      <3>1. queue'[i] \in Tx /\ queue'[i] = queue[i + 1] /\ i + 1 \in 1 .. n /\ 1 \in 1 .. n
        BY <1>4, ElementOfSeq
      <3>2. queue'[i].slot \in Slots /\ queue'[i].slot # tx.slot
        BY <1>4, <2>1, <3>1 DEF Tx, IInv, OneAwaited, n
      <3> QED
        BY <1>6, <2>1, <3>1, <3>2 DEF IInv, OneAwaited, n
    <2>2. \A c \in Slots : slot'[c].pc # "off" /\ ~slot'[c].late => c = main'
      BY <1>2, <1>6 DEF IInv, OneAwaited
    <2>3. \A i, j \in 1 .. Len(queue') :
              queue'[i].slot # 0 /\ queue'[i].slot = queue'[j].slot => i = j
      <3> SUFFICES ASSUME NEW i \in 1 .. Len(queue'), NEW j \in 1 .. Len(queue'),
                          queue'[i].slot # 0, queue'[i].slot = queue'[j].slot
                   PROVE  i = j
        OBVIOUS
      <3>1. i + 1 = j + 1
        BY <1>4 DEF IInv, OneAwaited, n
      <3> QED
        BY <1>4, <3>1
    <2> QED
      BY <2>1, <2>2, <2>3 DEF OneAwaited
  <1>10. InOrder'
    <2>1. \A i, j \in 1 .. Len(queue'), m \in Markets :
             i < j /\ ~queue'[i].late /\ ~queue'[j].late /\ queue'[j].quote[m] # 0 =>
                queue'[i].quote[m] <= queue'[j].quote[m]
      <3> SUFFICES ASSUME NEW i \in 1 .. Len(queue'), NEW j \in 1 .. Len(queue'),
                          NEW m \in Markets, i < j, ~queue'[i].late,
                          ~queue'[j].late, queue'[j].quote[m] # 0
                   PROVE  queue'[i].quote[m] <= queue'[j].quote[m]
        OBVIOUS
      <3>1. /\ i + 1 \in 1 .. n /\ j + 1 \in 1 .. n /\ i + 1 < j + 1
            /\ queue'[i] = queue[i + 1] /\ queue'[j] = queue[j + 1]
        BY <1>4
      <3> QED
        BY <3>1 DEF IInv, InOrder, n
    <2>2. ASSUME NEW i \in 1 .. Len(queue'), NEW m \in Markets,
                 ~queue'[i].late, queue'[i].quote[m] # 0, ~byLate'[m]
          PROVE  posted'[m] <= queue'[i].quote[m]
      <3>1. queue'[i] = queue[i + 1] /\ i + 1 \in 1 .. n /\ 1 \in 1 .. n /\ 1 < i + 1
        BY <1>4
      <3>2. CASE posted'[m] = posted[m] /\ byLate'[m] = byLate[m]
        BY <2>2, <3>1, <3>2 DEF IInv, InOrder, n
      <3>3. CASE posted'[m] = tx.quote[m] /\ byLate'[m] = tx.late
        BY <2>2, <3>1, <3>3 DEF IInv, InOrder, n
      <3> QED
        BY <1>1, <3>2, <3>3 DEF Posts
    <2>3. ASSUME NEW c \in Slots, NEW m \in Markets,
                 slot'[c].pc # "off", ~slot'[c].late, slot'[c].quote[m] # 0
          PROVE  /\ ~byLate'[m] => posted'[m] <= slot'[c].quote[m]
                 /\ \A i \in 1 .. Len(queue') :
                       ~queue'[i].late => queue'[i].quote[m] <= slot'[c].quote[m]
      <3>1. slot[c].pc # "off" /\ ~slot[c].late /\ slot[c].quote = slot'[c].quote
        BY <1>6, <2>3
      <3>2. \A i \in 1 .. n : ~queue[i].late => queue[i].quote[m] <= slot[c].quote[m]
        BY <2>3, <3>1 DEF IInv, InOrder, n
      <3>3. CASE posted'[m] = posted[m] /\ byLate'[m] = byLate[m]
        BY <1>4, <2>3, <3>1, <3>2, <3>3 DEF IInv, InOrder, n
      <3>4. CASE posted'[m] = tx.quote[m] /\ byLate'[m] = tx.late
        BY <1>4, <3>1, <3>2, <3>4
      <3> QED
        BY <1>1, <3>3, <3>4 DEF Posts
    <2> QED
      BY <2>1, <2>2, <2>3 DEF InOrder
  <1> QED
    BY <1>7, <1>8, <1>9, <1>10 DEF IInv

-----------------------------------------------------------------------------

LEMMA InitInv == Init => IInv
  <1> SUFFICES ASSUME Init PROVE IInv
    OBVIOUS
  <1>1. queue = <<>> /\ <<>> \in Seq(Tx) /\ Len(queue) = 0 /\ 1 .. Len(queue) = {}
    BY EmptySeq DEF Init
  <1>2. /\ posted \in [Markets -> Nat] /\ byLate \in [Markets -> BOOLEAN]
        /\ \A m \in Markets : posted[m] = 0
        /\ tick = 1 /\ main = 0
    BY DEF Init, None
  <1>3. slot \in [Slots -> Cycle] /\ \A c \in Slots : slot[c] = Idle
    BY IdleIsCycle DEF Init
  <1>4. \A m \in Markets : Idle.quote[m] = 0
    BY DEF Idle, None
  <1> QED
    BY <1>1, <1>2, <1>3, <1>4, IdleIsCycle DEF IInv, TypeOK, NoneAhead, OneAwaited, InOrder

LEMMA NextInv == IInv /\ [Next]_vars => IInv'
  <1> SUFFICES ASSUME IInv, [Next]_vars PROVE IInv'
    OBVIOUS
  <1>1. CASE MarketMoves
    <2>1. /\ tick' = tick + 1 /\ tick \in Nat
          /\ UNCHANGED <<main, posted, byLate, queue, slot>>
      BY <1>1 DEF MarketMoves, nodeVars, IInv, TypeOK
    <2>2. TypeOK' /\ OneAwaited' /\ InOrder'
      BY <2>1 DEF IInv, TypeOK, OneAwaited, InOrder
    <2>3. /\ \A m \in Markets : posted[m] \in Nat
          /\ \A i \in 1 .. Len(queue), m \in Markets : queue[i].quote[m] \in Nat
          /\ \A c \in Slots, m \in Markets : slot[c].quote[m] \in Nat
      <3>1. \A i \in 1 .. Len(queue) : queue[i] \in Tx
        BY ElementOfSeq DEF IInv, TypeOK
      <3> QED
        BY <3>1 DEF IInv, TypeOK, Tx, Cycle
    <2>4. NoneAhead'
      BY <2>1, <2>3 DEF IInv, NoneAhead
    <2> QED
      BY <2>2, <2>4 DEF IInv
  <1>2. CASE Mine
    BY <1>2, MineKeeps
  <1>3. ASSUME NEW s \in Sources, SourceFails(s) \/ SourceReturns(s)
        PROVE  IInv'
    <2>1. UNCHANGED <<tick, posted, byLate, queue, nodeVars>>
      BY <1>3 DEF SourceFails, SourceReturns
    <2>2. UNCHANGED <<tick, posted, byLate, queue, slot, main>>
      BY <2>1 DEF nodeVars
    <2> QED
      BY <2>2 DEF IInv, TypeOK, NoneAhead, OneAwaited, InOrder
  <1>4. CASE Boot \/ UNCHANGED vars
    BY <1>4 DEF Boot, vars, nodeVars, worldVars, IInv, TypeOK, NoneAhead, OneAwaited, InOrder
  <1>5. CASE Crash
    BY <1>5, CrashKeeps
  <1>6. CASE CycleTimeout \/ \E c \in Slots : Begin(c)
    BY <1>6, LoopKeeps
  <1>7. ASSUME NEW c \in Slots, CycleStep(c) \/ Hang(c)
        PROVE  IInv'
    BY <1>7, FetchKeeps, SubmitKeeps DEF CycleStep
  <1>8. ASSUME NEW c \in Slots, WaitTimeout(c)
        PROVE  IInv'
    BY <1>8, WaitTimeoutKeeps
  <1>9. ASSUME NEW c \in Slots, NEW s \in Sources, NEW m \in Markets, Fetch(c, s, {m})
        PROVE  IInv'
    <2>1. {m} \in SUBSET Markets
      OBVIOUS
    <2> QED
      BY <1>9, <2>1, FetchKeeps
  <1> QED
    BY <1>1, <1>2, <1>3, <1>4, <1>5, <1>6, <1>7, <1>8, <1>9 DEF Next

LEMMA OracleInvariant == Spec => []IInv
  BY InitInv, NextInv, PTL DEF Spec

\* A step that takes a market's price back to an older one posts the batch of
\* a cycle the loop had given up on, or replaces one such a cycle posted:
\* retries, unconfirmed transactions and crashes alone never do
\* (.oracle/index.js:111).
THEOREM StaleNeedsLate == Spec => StaleOnlyFromLate
  <1> DEFINE P == \A m \in Markets : posted'[m] < posted[m] => Head(queue).late \/ byLate[m]
  <1>1. IInv /\ [Next]_vars => [P]_vars
    <2> SUFFICES ASSUME IInv, Next, NEW m \in Markets, posted'[m] < posted[m],
                        ~Head(queue).late, ~byLate[m]
                 PROVE  FALSE
      OBVIOUS
    <2>1. posted[m] \in Nat /\ posted' # posted
      BY DEF IInv, TypeOK
    <2>2. Mine
      BY <2>1 DEF Next, MarketMoves, SourceFails, SourceReturns, Boot, Crash, CycleTimeout,
                  Begin, CycleStep, Fetch, FetchFails, Collect, HungTimeout, Send,
                  AttemptFails, Confirm, GiveUp, WaitTimeout, Hang, worldVars
    <2>3. queue # <<>> /\ queue[1] \in Tx /\ Posts(queue[1]) /\ Head(queue) = queue[1]
          /\ 1 \in 1 .. Len(queue)
      BY <2>2, MinePosts, HeadTailProperties, EmptySeq, LenProperties DEF IInv, TypeOK
    <2>4. /\ queue[1].quote[m] # 0 /\ posted'[m] = queue[1].quote[m]
      BY <2>1, <2>3 DEF Posts
    <2>5. queue[1].quote[m] \in Nat
      BY <2>3 DEF Tx
    <2>6. posted[m] <= queue[1].quote[m]
      BY <2>3, <2>4 DEF IInv, InOrder
    <2> QED
      BY <2>1, <2>4, <2>5, <2>6
  <1> QED
    BY <1>1, OracleInvariant, PTL DEF Spec, StaleOnlyFromLate
=============================================================================
