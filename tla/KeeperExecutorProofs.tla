------------------------- MODULE KeeperExecutorProofs -------------------------
(***************************************************************************)
(* The nonces of the keeper's wallet: whatever transactions it has lost    *)
(* track of, a job of its cycle fails by a failure of its own, for every   *)
(* number of jobs and failures, if an attempt is repeated at all.          *)
(***************************************************************************)
EXTENDS KeeperExecutor, FiniteSetTheorems, WellFoundedInduction, TLAPS

Tx == [nonce : Nat, job : Jobs, awaited : BOOLEAN]

\* Where a cycle is busy with a job.
Submitting == {"send", "wait", "mined", "reverted", "failed"}

Cycle ==
    [pc : Submitting \cup {"off", "phase", "next"},
     phase : {"sync", "orders", "liquidations"}, todo : SUBSET Jobs,
     tries : Nat, hit : BOOLEAN]

TypeOK ==
    /\ mempool \in SUBSET Tx /\ IsFiniteSet(mempool)
    /\ pendingNonce = {} \/ \E n \in Nat \cup {-1} : pendingNonce = {n}
    /\ cycle \in Cycle
    /\ cycle.pc \in Submitting => cycle.todo # {}

\* The wallet has one transaction of a nonce, and the cycle awaits one at most.
OneOfEach ==
    /\ \A tx, ty \in mempool : tx.nonce = ty.nonce => tx = ty
    /\ \A tx \in mempool : tx.awaited => cycle.pc = "wait"
    /\ \A tx, ty \in mempool : tx.awaited /\ ty.awaited => tx = ty

\* A job that is attended to anew owes nothing to the last one; an attempt
\* that repeats another asks the node for its nonce, and so sends the first
\* transaction that is missing.
RetriesFillHoles ==
    /\ cycle.pc \notin Submitting => cycle.tries = 0 /\ ~cycle.hit
    /\ cycle.pc = "send" /\ cycle.tries > 0 => pendingNonce = {}
    /\ cycle.pc = "wait" /\ cycle.tries > 0 =>
          \A tx \in mempool : tx.awaited => 0 .. tx.nonce \subseteq Nonces

IInv == TypeOK /\ OneOfEach /\ RetriesFillHoles /\ NonceTroubleHeals

-----------------------------------------------------------------------------
(* The nonce to use.                                                       *)

LEMMA LeastIn ==
    ASSUME NEW S, S \subseteq Nat, S # {}
    PROVE  Min(S) \in S /\ \A y \in S : Min(S) <= y
  <1> DEFINE R == OpToRel(<, Nat)
  <1>1. PICK x \in S : \A y \in S : <<y, x>> \notin R
    <2>1. IsWellFoundedOn(R, Nat)
      BY NatLessThanWellFounded
    <2> HIDE DEF R
    <2> QED
      BY <2>1, WFMin
  <1>2. \A y \in S : <<y, x>> \in Nat \X Nat
    OBVIOUS
  <1>3. \A y \in S : ~(y < x)
    BY <1>1, <1>2 DEF OpToRel
  <1>4. \A y \in S : x <= y
    BY <1>3
  <1> QED
    BY <1>4 DEF Min

\* What the node answers is free, and nothing below it is.
LEMMA NextFreeFits ==
    ASSUME IInv
    PROVE  /\ NextFree \in Nat /\ NextFree \notin Nonces
           /\ \A k \in Nat : k < NextFree => k \in Nonces
  <1> DEFINE n == Cardinality(mempool)
             S == (0 .. n) \ Nonces
             f == [tx \in mempool |-> tx.nonce]
  <1>1. IsFiniteSet(mempool) /\ n \in Nat
    BY FS_CardinalityType DEF IInv, TypeOK
  <1>2. IsFiniteSet(Nonces) /\ Cardinality(Nonces) <= n
    <2>1. f \in Surjection(mempool, Nonces)
      BY DEF Surjection, Nonces
    <2> HIDE DEF f
    <2> QED
      BY <1>1, <2>1, FS_Surjection
  <1>3. S # {}
    <2> SUFFICES ASSUME 0 .. n \in SUBSET Nonces PROVE FALSE
      OBVIOUS
    <2>1. Cardinality(0 .. n) <= Cardinality(Nonces)
      BY <1>2, FS_Subset
    <2>2. Cardinality(0 .. n) = n + 1
      BY <1>1, FS_Interval
    <2>3. Cardinality(Nonces) \in Nat
      BY <1>2, FS_CardinalityType
    <2> HIDE DEF n
    <2> QED
      BY <1>1, <1>2, <2>1, <2>2, <2>3
  <1>4. NextFree = Min(S)
    BY DEF NextFree
  <1> HIDE DEF n
  <1>5. S \subseteq Nat
    BY <1>1
  <1>6. Min(S) \in S /\ \A y \in S : Min(S) <= y
    <2> HIDE DEF S
    <2> QED
      BY <1>3, <1>5, LeastIn
  <1>7. Min(S) \in Nat /\ Min(S) \in 0 .. n /\ Min(S) \notin Nonces
    BY <1>6
  <1>8. ASSUME NEW k \in Nat, k < Min(S)
        PROVE  k \in Nonces
    <2>1. k \in 0 .. n
      <3> HIDE DEF S
      <3> QED
        BY <1>1, <1>7, <1>8
    <2>2. k \notin S
      <3> HIDE DEF S
      <3> QED
        BY <1>5, <1>6, <1>7, <1>8
    <2> QED
      BY <2>1, <2>2
  <1> HIDE DEF S
  <1> QED
    BY <1>4, <1>7, <1>8

LEMMA NonceToUseIs ==
    ASSUME IInv
    PROVE  /\ NonceToUse \in Nat \cup {-1}
           /\ pendingNonce = {} => NonceToUse = NextFree
  <1>1. CASE pendingNonce = {}
    BY <1>1, NextFreeFits DEF NonceToUse
  <1>2. ASSUME NEW n \in Nat \cup {-1}, pendingNonce = {n}
        PROVE  NonceToUse = n
    <2>1. Max({n}) = n
      BY DEF Max
    <2> QED
      BY <1>2, <2>1 DEF NonceToUse
  <1> QED
    BY <1>1, <1>2 DEF IInv, TypeOK

\* The job attended to is one of the cycle's.
LEMMA JobIsOne ==
    ASSUME IInv, cycle.todo # {}
    PROVE  Job \in cycle.todo /\ Job \in Jobs
  <1>1. cycle.todo \in SUBSET Jobs
    BY DEF IInv, TypeOK, Cycle
  <1>2. cycle.todo \subseteq Nat
    BY <1>1, KeeperAssumption
  <1> QED
    BY <1>1, <1>2, LeastIn DEF Job

-----------------------------------------------------------------------------
(* One lemma per kind of step.                                             *)

\* The cycle goes on to another job, or to a new one's first attempt.
LEMMA MovesOnKeeps ==
    ASSUME IInv, NEW new \in Cycle, cycle' = new, cycle.pc # "wait",
           new.pc \in {"off", "phase", "next", "send"}, new.tries = 0, ~new.hit,
           new.pc = "send" => new.todo # {},
           UNCHANGED <<mempool, pendingNonce>>
    PROVE  IInv'
  <1>1. TypeOK'
    BY DEF IInv, TypeOK, Submitting
  <1>2. OneOfEach'
    BY DEF IInv, OneOfEach
  <1>3. RetriesFillHoles' /\ NonceTroubleHeals'
    BY DEF RetriesFillHoles, NonceTroubleHeals, Cycle
  <1> QED
    BY <1>1, <1>2, <1>3 DEF IInv

\* A cycle begins, begins a phase or ends one.
LEMMA PhasesKeep ==
    ASSUME IInv, BeginPhase \/ EndPhase \/ \E t \in 0 .. tick : BeginCycle(t)
    PROVE  IInv'
  <1>0. /\ cycle \in Cycle /\ UNCHANGED <<mempool, pendingNonce>>
        /\ NoCycle \in Cycle /\ NoCycle.pc = "off" /\ NoCycle.tries = 0 /\ ~NoCycle.hit
    BY DEF IInv, TypeOK, BeginPhase, EndPhase, BeginCycle, worldVars, NoCycle, Cycle
  <1>1. CASE \E t \in 0 .. tick : BeginCycle(t)
    <2> DEFINE new == [NoCycle EXCEPT !.pc = "phase"]
    <2>1. new \in Cycle /\ new.pc = "phase" /\ new.tries = 0 /\ ~new.hit
      BY DEF NoCycle, Cycle
    <2>2. cycle' = new /\ cycle.pc = "off"
      BY <1>1 DEF BeginCycle
    <2> HIDE DEF new
    <2> QED
      BY <1>0, <2>1, <2>2, MovesOnKeeps
  <1>2. CASE BeginPhase
    <2> DEFINE todo == Picked(cycle.phase)
               new == [cycle EXCEPT !.pc = "next", !.todo = todo]
    <2>1. cycle.pc = "phase" /\ cycle' = new
      BY <1>2 DEF BeginPhase
    <2>2. todo \in SUBSET Jobs
      <3>1. cycle.phase \in {"sync", "orders", "liquidations"}
        BY <1>0 DEF Cycle
      <3> QED
        BY <3>1 DEF Picked, Jobs
    <2>3. cycle.tries = 0 /\ ~cycle.hit
      BY <2>1 DEF IInv, RetriesFillHoles, Submitting
    <2> HIDE DEF todo
    <2>4. new \in Cycle /\ new.pc = "next" /\ new.tries = 0 /\ ~new.hit
      BY <1>0, <2>2, <2>3 DEF Cycle
    <2> HIDE DEF new
    <2> QED
      BY <1>0, <2>1, <2>4, MovesOnKeeps
  <1>3. CASE EndPhase
    <2> DEFINE next == Following[cycle.phase]
               new == [cycle EXCEPT !.pc = "phase", !.phase = next]
    <2>1. cycle.pc = "next" /\ cycle.tries = 0 /\ ~cycle.hit
      BY <1>3 DEF EndPhase, IInv, RetriesFillHoles, Submitting
    <2>2. CASE cycle.phase = "liquidations"
      <3>1. cycle' = NoCycle
        BY <1>3, <2>2 DEF EndPhase
      <3> QED
        BY <1>0, <2>1, <3>1, MovesOnKeeps
    <2>3. CASE cycle.phase # "liquidations"
      <3>1. cycle' = new
        BY <1>3, <2>3 DEF EndPhase
      <3>2. next \in {"orders", "liquidations"}
        BY <1>0, <2>3 DEF Following, Cycle
      <3> HIDE DEF next
      <3>3. new \in Cycle /\ new.pc = "phase" /\ new.tries = 0 /\ ~new.hit
        BY <1>0, <2>1, <3>2 DEF Cycle
      <3> HIDE DEF new
      <3> QED
        BY <1>0, <2>1, <3>1, <3>3, MovesOnKeeps
    <2> QED
      BY <2>2, <2>3
  <1> QED
    BY <1>1, <1>2, <1>3

\* A job is attended to, or done with.
LEMMA JobsKeep ==
    ASSUME IInv, AttendPool \/ Proceed \/ Skip \/ Drop \/ Confirm \/ GiveUp
    PROVE  IInv'
  <1>0. /\ cycle \in Cycle /\ UNCHANGED <<mempool, pendingNonce>>
    BY DEF IInv, TypeOK, AttendPool, Proceed, Skip, Drop, Confirm, GiveUp, worldVars
  <1>1. CASE cycle' = Done /\ cycle.pc # "wait"
    <2> DEFINE rest == cycle.todo \ {Job}
               new == [cycle EXCEPT !.pc = "next", !.todo = rest, !.tries = 0, !.hit = FALSE]
    <2>1. Done = new
      BY DEF Done
    <2>2. rest \in SUBSET Jobs
      BY <1>0 DEF Cycle
    <2> HIDE DEF rest
    <2>3. new \in Cycle /\ new.pc = "next" /\ new.tries = 0 /\ ~new.hit
      BY <1>0, <2>2 DEF Cycle
    <2> HIDE DEF new
    <2> QED
      BY <1>0, <1>1, <2>1, <2>3, MovesOnKeeps
  <1>2. CASE cycle' = Submit /\ Attending
    <2> DEFINE new == [cycle EXCEPT !.pc = "send"]
    <2>1. Submit = new /\ cycle.pc = "next" /\ cycle.todo # {}
      BY <1>2 DEF Submit, Attending
    <2>2. cycle.tries = 0 /\ ~cycle.hit
      BY <2>1 DEF IInv, RetriesFillHoles, Submitting
    <2>3. new \in Cycle /\ new.pc = "send" /\ new.tries = 0 /\ ~new.hit /\ new.todo # {}
      BY <1>0, <2>1, <2>2 DEF Cycle, Submitting
    <2> HIDE DEF new
    <2> QED
      BY <1>0, <1>2, <2>1, <2>3, MovesOnKeeps
  <1> QED
    BY <1>1, <1>2 DEF AttendPool, Proceed, Skip, Drop, Confirm, GiveUp, Attending

\* The cycle sends the job's transaction and awaits it.
LEMMA SendKeeps ==
    ASSUME IInv, Send
    PROVE  IInv'
  <1> DEFINE nonce == NonceToUse
             tx == [nonce |-> nonce, job |-> Job, awaited |-> TRUE]
             new == [cycle EXCEPT !.pc = "wait"]
  <1>1. /\ cycle.pc = "send" /\ nonce \notin Nonces \cup {-1}
        /\ mempool' = mempool \cup {tx} /\ pendingNonce' = {nonce + 1} /\ cycle' = new
    BY DEF Send
  <1>2. nonce \in Nat /\ (pendingNonce = {} => nonce = NextFree)
    BY <1>1, NonceToUseIs
  <1>3. cycle \in Cycle /\ cycle.todo # {} /\ Job \in Jobs
    <2>1. cycle \in Cycle /\ cycle.todo # {}
      BY <1>1 DEF IInv, TypeOK, Submitting
    <2> QED
      BY <2>1, JobIsOne
  <1>4. /\ new \in Cycle /\ new.pc = "wait" /\ new.tries = cycle.tries
        /\ new.todo = cycle.todo
    BY <1>3 DEF Cycle, Submitting
  <1> HIDE DEF nonce, new
  <1>5. tx \in Tx /\ tx.nonce = nonce /\ tx.awaited
    BY <1>2, <1>3 DEF Tx
  <1> HIDE DEF tx
  <1>6. TypeOK'
    <2>1. IsFiniteSet(mempool')
      BY <1>1, FS_AddElement DEF IInv, TypeOK
    <2>2. nonce + 1 \in Nat
      BY <1>2
    <2>3. mempool' \in SUBSET Tx
      BY <1>1, <1>5 DEF IInv, TypeOK
    <2> QED
      BY <1>1, <1>3, <1>4, <2>1, <2>2, <2>3 DEF TypeOK
  <1>7. \A ty \in mempool : ty.nonce # nonce /\ ~ty.awaited
    BY <1>1 DEF Nonces, IInv, OneOfEach
  <1>8. OneOfEach'
    BY <1>1, <1>4, <1>5, <1>7 DEF IInv, OneOfEach
  <1>9. ASSUME cycle.tries > 0
        PROVE  \A ty \in mempool' : ty.awaited => 0 .. ty.nonce \subseteq Nonces'
    <2>1. nonce = NextFree
      BY <1>1, <1>2, <1>9 DEF IInv, RetriesFillHoles
    <2>2. \A k \in Nat : k < nonce => k \in Nonces
      BY <2>1, NextFreeFits
    <2>3. Nonces' = Nonces \cup {nonce}
      BY <1>1, <1>5 DEF Nonces
    <2>4. \A k \in 0 .. nonce : k \in Nat /\ (k < nonce \/ k = nonce)
      BY <1>2
    <2>5. 0 .. nonce \subseteq Nonces'
      BY <2>2, <2>3, <2>4
    <2> QED
      BY <1>1, <1>5, <1>7, <2>5
  <1>10. RetriesFillHoles' /\ NonceTroubleHeals'
    BY <1>1, <1>4, <1>9 DEF RetriesFillHoles, NonceTroubleHeals, Submitting
  <1> QED
    BY <1>6, <1>8, <1>10 DEF IInv

\* An attempt fails.  When it is the last one, it repeated another, and what
\* it met is the job's own failure.
LEMMA AttemptFailsKeeps ==
    ASSUME IInv, MaxRetries > 1, NEW kept, NEW h \in BOOLEAN, AttemptFails(kept, h),
           cycle.pc \in {"send", "wait", "reverted"}, cycle.tries > 0 => h,
           kept = {} \/ \E n \in Nat \cup {-1} : kept = {n},
           mempool' \in SUBSET Tx, IsFiniteSet(mempool'),
           \A tx, ty \in mempool' : tx.nonce = ty.nonce => tx = ty,
           \A tx \in mempool' : ~tx.awaited
    PROVE  IInv'
  <1>1. cycle \in Cycle /\ cycle.todo # {} /\ cycle.tries \in Nat /\ MaxRetries \in Nat
    BY KeeperAssumption DEF IInv, TypeOK, Submitting, Cycle
  <1>2. OneOfEach'
    BY DEF OneOfEach
  <1>3. CASE cycle.tries + 1 < MaxRetries
    <2> DEFINE sent == [cycle EXCEPT !.pc = "send"]
               more == cycle.tries + 1
               counted == [sent EXCEPT !.tries = more]
               new == [counted EXCEPT !.hit = h]
    <2>1. pendingNonce' = {} /\ cycle' = new
      BY <1>3 DEF AttemptFails
    <2>2. sent \in Cycle /\ sent.pc = "send" /\ sent.todo # {}
      BY <1>1 DEF Cycle, Submitting
    <2>3. more \in Nat
      BY <1>1
    <2> HIDE DEF sent, more
    <2>4. counted \in Cycle /\ counted.pc = "send" /\ counted.todo # {}
      BY <2>2, <2>3 DEF Cycle
    <2> HIDE DEF counted
    <2>5. new \in Cycle /\ new.pc = "send" /\ new.todo # {}
      BY <2>4 DEF Cycle
    <2> HIDE DEF new
    <2>6. TypeOK'
      BY <2>1, <2>5 DEF TypeOK
    <2>7. RetriesFillHoles' /\ NonceTroubleHeals'
      BY <2>1, <2>5 DEF RetriesFillHoles, NonceTroubleHeals, Submitting
    <2> QED
      BY <1>2, <2>6, <2>7 DEF IInv
  <1>4. CASE ~(cycle.tries + 1 < MaxRetries)
    <2> DEFINE new == [cycle EXCEPT !.pc = "failed", !.hit = h]
    <2>1. pendingNonce' = kept /\ cycle' = new
      BY <1>4 DEF AttemptFails
    <2>2. new \in Cycle /\ new.pc = "failed" /\ new.todo # {} /\ new.hit = h
      BY <1>1 DEF Cycle, Submitting
    <2> HIDE DEF new
    <2>3. TypeOK'
      BY <2>1, <2>2 DEF TypeOK
    <2>4. h
      BY <1>1, <1>4
    <2>5. RetriesFillHoles' /\ NonceTroubleHeals'
      BY <2>1, <2>2, <2>4 DEF RetriesFillHoles, NonceTroubleHeals, Submitting
    <2> QED
      BY <1>2, <2>3, <2>5 DEF IInv
  <1> QED
    BY <1>3, <1>4

LEMMA FailuresKeep ==
    ASSUME IInv, MaxRetries > 1, SendRefused \/ WaitTimeout \/ TxReverted
    PROVE  IInv'
  <1>0. /\ cycle \in Cycle /\ cycle.hit \in BOOLEAN /\ mempool \in SUBSET Tx /\ IsFiniteSet(mempool)
        /\ \A tx, ty \in mempool : tx.nonce = ty.nonce => tx = ty
        /\ pendingNonce = {} \/ \E n \in Nat \cup {-1} : pendingNonce = {n}
    BY DEF IInv, TypeOK, Cycle, OneOfEach
  <1>1. CASE SendRefused
    <2> DEFINE kept == {NonceToUse + 1}
    <2>1. cycle.pc = "send" /\ mempool' = mempool /\ \A tx \in mempool : ~tx.awaited
      BY <1>1 DEF SendRefused, worldVars, IInv, OneOfEach
    <2>2. \E n \in Nat \cup {-1} : kept = {n}
      BY NonceToUseIs
    <2>3. cycle.tries > 0 => NonceToUse \notin Nonces \cup {-1}
      BY <2>1, NextFreeFits, NonceToUseIs DEF IInv, RetriesFillHoles
    <2>4. \E h \in BOOLEAN : AttemptFails(kept, h) /\ (cycle.tries > 0 => h)
      BY <1>0, <1>1, <2>3 DEF SendRefused
    <2>5. PICK h \in BOOLEAN : AttemptFails(kept, h) /\ (cycle.tries > 0 => h)
      BY <2>4
    <2> HIDE DEF kept
    <2> QED
      BY <1>0, <2>1, <2>2, <2>5, AttemptFailsKeeps
  <1>2. CASE TxReverted
    <2>1. /\ cycle.pc = "reverted" /\ mempool' = mempool /\ AttemptFails(pendingNonce, TRUE)
          /\ \A tx \in mempool : ~tx.awaited
      BY <1>2 DEF TxReverted, worldVars, IInv, OneOfEach
    <2> QED
      BY <1>0, <2>1, AttemptFailsKeeps
  <1>3. CASE WaitTimeout
    <2>1. PICK tx \in mempool :
             /\ tx.awaited
             /\ IF 0 .. tx.nonce \subseteq Nonces
                THEN AttemptFails(pendingNonce, TRUE)
                ELSE AttemptFails(pendingNonce, cycle.hit)
             /\ mempool' = (mempool \ {tx}) \cup {[tx EXCEPT !.awaited = FALSE]}
      BY <1>3 DEF WaitTimeout
    <2>2. cycle.pc = "wait"
      BY <1>3 DEF WaitTimeout
    <2> DEFINE left == [tx EXCEPT !.awaited = FALSE]
    <2>3. left \in Tx /\ left.nonce = tx.nonce /\ ~left.awaited
      BY <1>0 DEF Tx
    <2>4. \A ty \in mempool \ {tx} : ~ty.awaited /\ ty.nonce # tx.nonce
      BY <1>0, <2>1 DEF IInv, OneOfEach
    <2>5. mempool' = (mempool \ {tx}) \cup {left}
      BY <2>1
    <2> HIDE DEF left
    <2>6. mempool' \in SUBSET Tx /\ IsFiniteSet(mempool')
      BY <1>0, <2>3, <2>5, FS_RemoveElement, FS_AddElement
    <2>7. /\ \A ty, tz \in mempool' : ty.nonce = tz.nonce => ty = tz
          /\ \A ty \in mempool' : ~ty.awaited
      BY <1>0, <2>3, <2>4, <2>5
    <2>8. cycle.tries > 0 => 0 .. tx.nonce \subseteq Nonces
      BY <2>1, <2>2 DEF IInv, RetriesFillHoles
    <2>9. \E h \in BOOLEAN : AttemptFails(pendingNonce, h) /\ (cycle.tries > 0 => h)
      BY <1>0, <2>1, <2>8
    <2> QED
      BY <1>0, <2>2, <2>6, <2>7, <2>9, AttemptFailsKeeps
  <1> QED
    BY <1>1, <1>2, <1>3

\* The first transaction is mined and the nonces of the others count from it.
LEMMA MineKeeps ==
    ASSUME IInv, Mine
    PROVE  IInv'
  <1>0. /\ cycle \in Cycle /\ mempool \in SUBSET Tx /\ IsFiniteSet(mempool)
        /\ \A tx, ty \in mempool : tx.nonce = ty.nonce => tx = ty
        /\ pendingNonce = {} \/ \E n \in Nat \cup {-1} : pendingNonce = {n}
    BY DEF IInv, TypeOK, OneOfEach
  <1>1. PICK tx \in mempool :
          /\ tx.nonce = 0
          /\ mempool' = {[t EXCEPT !.nonce = @ - 1] : t \in mempool \ {tx}}
          /\ pendingNonce' = Shift(pendingNonce)
          /\ cycle' = IF tx.awaited
                      THEN [cycle EXCEPT !.pc = IF Accepts(tx.job) THEN "mined" ELSE "reverted"]
                      ELSE cycle
    BY DEF Mine
  <1> DEFINE rest == mempool \ {tx}
             shifted(t) == [t EXCEPT !.nonce = t.nonce - 1]
             f == [t \in rest |-> shifted(t)]
  <1>2. mempool' = {shifted(t) : t \in rest}
    BY <1>1
  <1>3. ASSUME NEW t \in rest
        PROVE  /\ t \in Tx /\ t.nonce \in Nat \ {0} /\ shifted(t) \in Tx
               /\ shifted(t).nonce = t.nonce - 1 /\ shifted(t).awaited = t.awaited
               /\ shifted(t).job = t.job
    <2>1. t \in Tx /\ t.nonce \in Nat /\ t.nonce # 0
      BY <1>0, <1>1 DEF Tx
    <2> QED
      BY <2>1 DEF Tx
  <1>4. IsFiniteSet(mempool')
    <2>1. IsFiniteSet(rest)
      BY <1>0, FS_RemoveElement
    <2>2. f \in Surjection(rest, mempool')
      BY <1>2 DEF Surjection
    <2> HIDE DEF f, rest
    <2> QED
      BY <2>1, <2>2, FS_Surjection
  <1> HIDE DEF shifted
  <1>5. mempool' \in SUBSET Tx
    BY <1>2, <1>3
  <1>6. \A ty, tz \in mempool' : ty.nonce = tz.nonce => ty = tz
    <2> SUFFICES ASSUME NEW t \in rest, NEW u \in rest, shifted(t).nonce = shifted(u).nonce
                 PROVE  shifted(t) = shifted(u)
      BY <1>2
    <2>1. t.nonce = u.nonce
      BY <1>3
    <2> QED
      BY <1>0, <2>1
  <1>7. pendingNonce' = {} \/ \E n \in Nat \cup {-1} : pendingNonce' = {n}
    <2>1. CASE pendingNonce = {}
      BY <1>1, <2>1 DEF Shift
    <2>2. ASSUME NEW n \in Nat \cup {-1}, pendingNonce = {n}
          PROVE  \E m \in Nat \cup {-1} : pendingNonce' = {m}
      <3> DEFINE m == IF n = -1 THEN -1 ELSE n - 1
      <3>1. m \in Nat \cup {-1}
        BY <2>2
      <3>2. pendingNonce' = {m}
        BY <1>1, <2>2 DEF Shift
      <3> QED
        BY <3>1, <3>2
    <2> QED
      BY <1>0, <2>1, <2>2
  <1>8. pendingNonce = {} => pendingNonce' = {}
    BY <1>1 DEF Shift
  <1>9. CASE ~tx.awaited
    <2>1. cycle' = cycle
      BY <1>1, <1>9
    <2>2. TypeOK'
      BY <1>0, <1>4, <1>5, <1>7, <2>1 DEF IInv, TypeOK
    <2>3. OneOfEach'
      <3>1. \A ty \in mempool' : ty.awaited => cycle.pc = "wait"
        BY <1>2, <1>3 DEF IInv, OneOfEach
      <3>2. ASSUME NEW t \in rest, NEW u \in rest, shifted(t).awaited, shifted(u).awaited
            PROVE  shifted(t) = shifted(u)
        <4>1. t = u
          BY <1>3, <3>2 DEF IInv, OneOfEach
        <4> QED
          BY <4>1
      <3> QED
        BY <1>2, <1>6, <2>1, <3>1, <3>2 DEF OneOfEach
    <2>4. ASSUME cycle.pc = "wait", cycle.tries > 0, NEW t \in rest, shifted(t).awaited,
                 NEW k \in 0 .. shifted(t).nonce
          PROVE  k \in Nonces'
      <3>1. 0 .. t.nonce \subseteq Nonces
        BY <1>3, <2>4 DEF IInv, RetriesFillHoles
      <3>2. k + 1 \in 0 .. t.nonce /\ k \in Nat
        BY <1>3, <2>4
      <3>3. PICK u \in mempool : u.nonce = k + 1
        BY <3>1, <3>2 DEF Nonces
      <3>4. u \in rest
        BY <1>1, <3>2, <3>3
      <3>5. shifted(u) \in mempool' /\ shifted(u).nonce = k
        BY <1>2, <1>3, <3>2, <3>3, <3>4
      <3> QED
        BY <3>5 DEF Nonces
    <2>5. RetriesFillHoles' /\ NonceTroubleHeals'
      <3>1. cycle.pc = "wait" /\ cycle.tries > 0 =>
               \A ty \in mempool' : ty.awaited => 0 .. ty.nonce \subseteq Nonces'
        BY <1>2, <2>4
      <3> HIDE DEF rest
      <3> QED
        BY <1>8, <2>1, <3>1 DEF IInv, RetriesFillHoles, NonceTroubleHeals
    <2> QED
      BY <2>2, <2>3, <2>5 DEF IInv
  <1>10. CASE tx.awaited
    <2> DEFINE pc == IF Accepts(tx.job) THEN "mined" ELSE "reverted"
               new == [cycle EXCEPT !.pc = pc]
    <2>1. cycle' = new /\ cycle.pc = "wait" /\ cycle.todo # {}
      BY <1>1, <1>10 DEF IInv, TypeOK, OneOfEach, Submitting
    <2>2. pc \in {"mined", "reverted"}
      OBVIOUS
    <2> HIDE DEF pc
    <2>3. new \in Cycle /\ new.pc \in {"mined", "reverted"} /\ new.todo # {}
      BY <1>0, <2>1, <2>2 DEF Cycle, Submitting
    <2> HIDE DEF new
    <2>4. TypeOK'
      BY <1>4, <1>5, <1>7, <2>1, <2>3 DEF TypeOK
    <2>5. \A t \in rest : ~t.awaited
      BY <1>10 DEF IInv, OneOfEach
    <2>6. \A ty \in mempool' : ~ty.awaited
      BY <1>2, <1>3, <2>5
    <2>7. OneOfEach'
      BY <1>6, <2>6 DEF OneOfEach
    <2>8. RetriesFillHoles' /\ NonceTroubleHeals'
      BY <2>1, <2>3 DEF RetriesFillHoles, NonceTroubleHeals, Submitting
    <2> QED
      BY <2>4, <2>7, <2>8 DEF IInv
  <1> QED
    BY <1>9, <1>10

\* The keeper stops: nobody awaits what it has sent.
LEMMA CrashKeeps ==
    ASSUME IInv, Crash
    PROVE  IInv'
  <1> DEFINE left(t) == [t EXCEPT !.awaited = FALSE]
             f == [t \in mempool |-> left(t)]
  <1>1. /\ mempool' = {left(t) : t \in mempool} /\ pendingNonce' = {} /\ cycle' = NoCycle
    BY DEF Crash
  <1>2. mempool \in SUBSET Tx /\ IsFiniteSet(mempool)
    BY DEF IInv, TypeOK
  <1>3. \A t \in mempool : left(t) \in Tx /\ left(t).nonce = t.nonce /\ ~left(t).awaited
    BY <1>2 DEF Tx
  <1>4. IsFiniteSet(mempool')
    <2>1. f \in Surjection(mempool, mempool')
      BY <1>1 DEF Surjection
    <2> HIDE DEF f
    <2> QED
      BY <1>2, <2>1, FS_Surjection
  <1> HIDE DEF left
  <1>5. /\ NoCycle \in Cycle /\ NoCycle.pc = "off" /\ NoCycle.tries = 0 /\ ~NoCycle.hit
    BY DEF NoCycle, Cycle
  <1>6. TypeOK'
    <2>1. mempool' \in SUBSET Tx
      BY <1>1, <1>3
    <2> QED
      BY <1>1, <1>4, <1>5, <2>1 DEF TypeOK, Submitting
  <1>7. OneOfEach'
    <2>1. \A ty \in mempool' : ~ty.awaited
      BY <1>1, <1>3
    <2>2. ASSUME NEW t \in mempool, NEW u \in mempool, left(t).nonce = left(u).nonce
          PROVE  left(t) = left(u)
      <3>1. t = u
        BY <1>3, <2>2 DEF IInv, OneOfEach
      <3> QED
        BY <3>1
    <2>3. \A ty, tz \in mempool' : ty.nonce = tz.nonce => ty = tz
      BY <1>1, <2>2
    <2> QED
      BY <2>1, <2>3 DEF OneOfEach
  <1>8. RetriesFillHoles' /\ NonceTroubleHeals'
    BY <1>1, <1>5 DEF RetriesFillHoles, NonceTroubleHeals, Submitting
  <1> QED
    BY <1>6, <1>7, <1>8 DEF IInv

-----------------------------------------------------------------------------
(* The specification.                                                      *)

LEMMA InitInv == Init => IInv
  <1> SUFFICES ASSUME Init PROVE IInv
    OBVIOUS
  <1>1. mempool = {} /\ cycle = NoCycle /\ pendingNonce = {}
    BY DEF Init
  <1>2. NoCycle \in Cycle /\ NoCycle.pc = "off" /\ NoCycle.tries = 0 /\ ~NoCycle.hit
    BY DEF NoCycle, Cycle
  <1>3. IsFiniteSet({})
    BY FS_EmptySet
  <1> QED
    BY <1>1, <1>2, <1>3
    DEF IInv, TypeOK, OneOfEach, RetriesFillHoles, NonceTroubleHeals, Submitting

LEMMA NextInv == MaxRetries > 1 /\ IInv /\ [Next]_vars => IInv'
  <1> SUFFICES ASSUME MaxRetries > 1, IInv, [Next]_vars PROVE IInv'
    OBVIOUS
  <1>1. CASE UNCHANGED <<mempool, pendingNonce, cycle>>
    BY <1>1 DEF IInv, TypeOK, OneOfEach, RetriesFillHoles, NonceTroubleHeals, Nonces
  <1>2. CASE Step
    <2>1. CASE BeginPhase \/ EndPhase
      BY <2>1, PhasesKeep
    <2>2. CASE AttendPool \/ Proceed \/ Skip \/ Drop \/ Confirm \/ GiveUp
      BY <2>2, JobsKeep
    <2>3. CASE Send
      BY <2>3, SendKeeps
    <2>4. CASE SendRefused \/ WaitTimeout \/ TxReverted
      BY <2>4, FailuresKeep
    <2> QED
      BY <1>2, <2>1, <2>2, <2>3, <2>4 DEF Step
  <1>3. CASE Mine
    BY <1>3, MineKeeps
  <1>4. CASE Crash
    BY <1>4, CrashKeeps
  <1>5. CASE \E t \in 0 .. tick : BeginCycle(t)
    BY <1>5, PhasesKeep
  <1>6. CASE PriceMoves \/ \E j \in Jobs : Place(j) \/ Withdraw(j)
    BY <1>1, <1>6 DEF PriceMoves, Place, Withdraw
  <1>7. CASE IndexerCatchesUp \/ IndexerSwitches
    BY <1>1, <1>7 DEF IndexerCatchesUp, IndexerSwitches
  <1>8. CASE Boot \/ Refresh \/ RefreshRead \/ RefreshReadFails
    BY <1>1, <1>8 DEF Boot, Refresh, RefreshRead, RefreshReadFails, worldVars
  <1>9. CASE UNCHANGED vars
    BY <1>1, <1>9 DEF vars, worldVars
  <1> QED
    BY <1>2, <1>3, <1>4, <1>5, <1>6, <1>7, <1>8, <1>9 DEF Next

\* Whatever holes refused and unmined transactions have left in the wallet's
\* nonces, a job that is given up met a failure of its own: the attempt that
\* repeats another asks the node and fills the first hole (executor.js,
\* _getNextNonce; the retries of _submitTx).  With a single attempt it is not
\* so; the configuration has three (.keeper/config.js).
THEOREM NonceTroubleAlwaysHeals == MaxRetries > 1 => (Spec => []NonceTroubleHeals)
  <1> SUFFICES ASSUME MaxRetries > 1 PROVE Spec => []NonceTroubleHeals
    OBVIOUS
  <1>1. IInv /\ [Next]_vars => IInv'
    BY NextInv
  <1>2. IInv => NonceTroubleHeals
    BY DEF IInv
  <1> QED
    BY InitInv, <1>1, <1>2, PTL DEF Spec
=============================================================================
