------------------------ MODULE KeeperListenerProofs ------------------------
(***************************************************************************)
(* The keeper's cycles exclude each other, for every number of overlapping *)
(* scans, every set of markets and every bound.                            *)
(***************************************************************************)
EXTENDS KeeperListener, FiniteSetTheorems, TLAPS

Callback == [pc : {"off", "query", "read", "cycle"}, from : Nat, to : Nat,
             seen : [Markets -> Nat]]

\* A callback in a cycle holds the flag, a set flag is held, and by one.
InCycle(p) == proc[p].pc = "cycle"
FlagHeld == cycleBusy <=> \E p \in Timers : InCycle(p)
OneHolder == \A p, q \in Timers : InCycle(p) /\ InCycle(q) => p = q

TypeOK ==
    /\ log \in Seq([markets : SUBSET Markets, loud : BOOLEAN])
    /\ cycleBusy \in BOOLEAN
    /\ lastBlock \in Nat
    /\ proc \in [Timers -> Callback]

IInv == TypeOK /\ FlagHeld /\ OneHolder

-----------------------------------------------------------------------------
(* A price, the number of a market's postings, is a number.                *)
LEMMA PriceIsNat ==
    ASSUME NEW b \in Nat, NEW m \in Markets
    PROVE  PriceAfter(b, m) \in Nat
  <1> DEFINE posted == {i \in 1 .. b : m \in log[i].markets}
  <1>1. IsFiniteSet(1 .. b)
    BY FS_Interval
  <1>2. IsFiniteSet(posted)
    BY <1>1, FS_Subset
  <1> QED
    BY <1>2, FS_CardinalityType DEF PriceAfter

LEMMA OffIsCallback == Off \in Callback
  BY DEF Off, Callback

\* A callback that returns and is in no cycle leaves the flag to its holder.
LEMMA ReturnKeeps ==
    ASSUME IInv, NEW p \in Timers, ~InCycle(p), Return(p),
           UNCHANGED <<log, cycleBusy>>
    PROVE  IInv'
  <1>1. /\ proc' = [proc EXCEPT ![p] = Off]
        /\ lastBlock' \in Nat
    BY DEF Return, IInv, TypeOK, Callback
  <1>2. TypeOK'
    BY <1>1, OffIsCallback DEF IInv, TypeOK
  <1>3. \A q \in Timers : InCycle(q)' <=> InCycle(q)
    BY <1>1 DEF IInv, TypeOK, InCycle, Off
  <1>4. FlagHeld' /\ OneHolder'
    BY <1>3 DEF IInv, FlagHeld, OneHolder
  <1> QED
    BY <1>2, <1>4 DEF IInv

\* The flag is taken by one callback, and only when it is free.
LEMMA EnterKeeps ==
    ASSUME IInv, NEW p \in Timers, ~InCycle(p), NEW ms, NEW seen,
           EnterCycle(p, ms, seen), UNCHANGED log
    PROVE  IInv'
  <1>1. CASE cycleBusy
    BY <1>1, ReturnKeeps DEF EnterCycle
  <1>2. CASE ~cycleBusy
    <2>1. /\ cycleBusy' = TRUE
          /\ proc' = [proc EXCEPT ![p].pc = "cycle"]
          /\ lastBlock' = lastBlock
      BY <1>2 DEF EnterCycle
    <2>2. TypeOK'
      BY <2>1 DEF IInv, TypeOK, Callback
    <2>3. \A q \in Timers : InCycle(q)' <=> q = p
      BY <1>2, <2>1 DEF IInv, TypeOK, FlagHeld, InCycle, Callback
    <2>4. FlagHeld' /\ OneHolder'
      BY <2>1, <2>3 DEF FlagHeld, OneHolder
    <2> QED
      BY <2>2, <2>4 DEF IInv
  <1> QED
    BY <1>1, <1>2

\* A callback that starts or reads is in no cycle before and after.
LEMMA OutsideKeeps ==
    ASSUME IInv, NEW p \in Timers, ~InCycle(p), NEW c \in Callback,
           c.pc # "cycle", proc' = [proc EXCEPT ![p] = c],
           UNCHANGED <<log, cycleBusy, lastBlock>>
    PROVE  IInv'
  <1>1. TypeOK'
    BY DEF IInv, TypeOK
  <1>2. \A q \in Timers : InCycle(q)' <=> InCycle(q)
    BY DEF IInv, TypeOK, InCycle
  <1>3. FlagHeld' /\ OneHolder'
    BY <1>2 DEF IInv, FlagHeld, OneHolder
  <1> QED
    BY <1>1, <1>3 DEF IInv

-----------------------------------------------------------------------------
LEMMA InitIInv == Init => IInv
  <1> SUFFICES ASSUME Init PROVE IInv
    OBVIOUS
  <1>1. TypeOK
    <2>1. <<>> \in Seq([markets : SUBSET Markets, loud : BOOLEAN])
      OBVIOUS
    <2>2. proc \in [Timers -> Callback]
      BY OffIsCallback DEF Init
    <2> QED
      BY <2>1, <2>2 DEF Init, TypeOK
  <1>2. \A p \in Timers : ~InCycle(p)
    BY DEF Init, InCycle, Off
  <1> QED
    BY <1>1, <1>2 DEF Init, IInv, FlagHeld, OneHolder

LEMMA CrashKeeps ==
    ASSUME IInv, Crash
    PROVE  IInv'
  <1>1. TypeOK'
    BY OffIsCallback DEF Crash, IInv, TypeOK
  <1>2. \A p \in Timers : ~InCycle(p)'
    BY DEF Crash, InCycle, Off
  <1> QED
    BY <1>1, <1>2 DEF Crash, IInv, FlagHeld, OneHolder

LEMMA EndCycleKeeps ==
    ASSUME IInv, NEW p \in Timers, EndCycle(p)
    PROVE  IInv'
  <1>1. /\ InCycle(p)
        /\ cycleBusy' = FALSE
        /\ log' = log
        /\ proc' = [proc EXCEPT ![p] = Off]
        /\ lastBlock' \in Nat
    BY DEF EndCycle, Return, IInv, TypeOK, Callback, InCycle
  <1>2. TypeOK'
    BY <1>1, OffIsCallback DEF IInv, TypeOK
  <1>3. \A q \in Timers : ~InCycle(q)'
    BY <1>1 DEF IInv, TypeOK, OneHolder, InCycle, Off
  <1> QED
    BY <1>1, <1>2, <1>3 DEF IInv, FlagHeld, OneHolder

LEMMA ScanBeginKeeps ==
    ASSUME IInv, NEW s \in Scans, ScanBegin(s)
    PROVE  IInv'
  <1> DEFINE c == [Off EXCEPT !.pc = "query", !.from = lastBlock + 1, !.to = Len(log)]
  <1>1. c \in Callback /\ c.pc # "cycle"
    <2>1. lastBlock + 1 \in Nat /\ Len(log) \in Nat
      BY DEF IInv, TypeOK
    <2> QED
      BY <2>1, OffIsCallback DEF Callback
  <1>2. s \in Timers /\ ~InCycle(s)
    BY DEF ScanBegin, FreeScan, InCycle, Timers
  <1> QED
    BY <1>1, <1>2, OutsideKeeps DEF ScanBegin

LEMMA PollReadKeeps ==
    ASSUME IInv, PollRead
    PROVE  IInv'
  <1> DEFINE c == [proc[Poll] EXCEPT !.pc = "read", !.seen = price]
  <1>1. Poll \in Timers /\ ~InCycle(Poll)
    BY DEF PollRead, InCycle, Timers
  <1>2. price \in [Markets -> Nat]
    BY PriceIsNat DEF price, IInv, TypeOK
  <1>3. c \in Callback /\ c.pc # "cycle"
    BY <1>1, <1>2 DEF Callback, IInv, TypeOK
  <1>4. proc' = [proc EXCEPT ![Poll] = c]
    BY <1>1 DEF PollRead, IInv, TypeOK, Callback
  <1> QED
    BY <1>1, <1>3, <1>4, OutsideKeeps DEF PollRead

LEMMA NextKeeps == IInv /\ [Next]_vars => IInv'
  <1> SUFFICES ASSUME IInv, [Next]_vars PROVE IInv'
    OBVIOUS
  <1>1. ASSUME NEW ms \in Batches, NEW loud \in BOOLEAN, Post(ms, loud) PROVE IInv'
    <2>1. [markets |-> ms, loud |-> loud] \in [markets : SUBSET Markets, loud : BOOLEAN]
      BY DEF Batches
    <2>2. TypeOK'
      BY <1>1, <2>1 DEF Post, IInv, TypeOK
    <2> QED
      BY <1>1, <2>2 DEF Post, IInv, FlagHeld, OneHolder, InCycle
  <1>2. ASSUME NEW b \in 0 .. Len(log), Boot(b) PROVE IInv'
    BY <1>2 DEF Boot, IInv, TypeOK, FlagHeld, OneHolder, InCycle
  <1>3. CASE Crash
    BY <1>3, CrashKeeps
  <1>4. ASSUME NEW s \in Scans, ScanBegin(s) PROVE IInv'
    BY <1>4, ScanBeginKeeps
  <1>5. ASSUME NEW s \in Scans, ScanFails(s) PROVE IInv'
    BY <1>5, ReturnKeeps DEF ScanFails, InCycle, Timers
  <1>6. ASSUME NEW s \in Scans, ScanFinds(s) PROVE IInv'
    <2>1. s \in Timers /\ ~InCycle(s) /\ log' = log
      BY <1>6 DEF ScanFinds, InCycle, Timers
    <2>2. \/ Return(s) /\ UNCHANGED cycleBusy
          \/ \E ms, seen : EnterCycle(s, ms, seen)
      BY <1>6 DEF ScanFinds
    <2> QED
      BY <2>1, <2>2, ReturnKeeps, EnterKeeps
  <1>7. CASE PollRead
    BY <1>7, PollReadKeeps
  <1>8. CASE PollCompare
    <2>1. Poll \in Timers /\ ~InCycle(Poll) /\ log' = log
      BY <1>8 DEF PollCompare, InCycle, Timers
    <2>2. \/ Return(Poll) /\ UNCHANGED cycleBusy
          \/ \E ms, seen : EnterCycle(Poll, ms, seen)
      BY <1>8 DEF PollCompare
    <2> QED
      BY <2>1, <2>2, ReturnKeeps, EnterKeeps
  <1>9. ASSUME NEW p \in Timers, EndCycle(p) PROVE IInv'
    BY <1>9, EndCycleKeeps
  <1>10. CASE UNCHANGED vars
    BY <1>10 DEF vars, IInv, TypeOK, FlagHeld, OneHolder, InCycle
  <1> QED
    BY <1>1, <1>2, <1>3, <1>4, <1>5, <1>6, <1>7, <1>8, <1>9, <1>10 DEF Next

\* The count of callbacks in a cycle follows the flag.
LEMMA IInvCounts == IInv => CyclesExclusive
  <1> SUFFICES ASSUME IInv PROVE CyclesExclusive
    OBVIOUS
  <1> DEFINE running == {p \in Timers : proc[p].pc = "cycle"}
  <1>1. CASE cycleBusy
    <2>1. PICK p \in Timers : InCycle(p)
      BY <1>1 DEF IInv, FlagHeld
    <2>2. running = {p}
      BY <2>1 DEF IInv, OneHolder, InCycle
    <2> QED
      BY <1>1, <2>2, FS_Singleton DEF CyclesExclusive
  <1>2. CASE ~cycleBusy
    <2>1. running = {}
      BY <1>2 DEF IInv, FlagHeld, InCycle
    <2> QED
      BY <1>2, <2>1, FS_EmptySet DEF CyclesExclusive
  <1> QED
    BY <1>1, <1>2

-----------------------------------------------------------------------------
(* However the listener's scans, the fallback and crashes interleave, at   *)
(* most one of them is in executionCycle, and exactly when the flag is set. *)
THEOREM KeeperCyclesExclusive == Spec => []CyclesExclusive
  <1>1. IInv /\ [Next]_vars => IInv'
    BY NextKeeps
  <1> QED
    BY InitIInv, <1>1, IInvCounts, PTL DEF Spec
=============================================================================
