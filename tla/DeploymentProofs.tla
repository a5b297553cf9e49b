--------------------------- MODULE DeploymentProofs ---------------------------
(***************************************************************************)
(* The deployment scripts, for every set of facets, every code of theirs,  *)
(* every sequence of runs, and a script that dies wherever it may: the     *)
(* routing table stays consistent through every transaction of cuts; only  *)
(* priced markets get a pool or into the manifest; the manifest records    *)
(* what the diamond serves; and what is in service stays in service.       *)
(*                                                                         *)
(* First what a loop keeps if each of its rounds does; then the lists that *)
(* the removals swap and pop; the cuts; what a script has left to do; and  *)
(* a step lemma for each effect (DeploymentInv).  Then where a transaction *)
(* of cuts moves each function; the order of a script's effects; the       *)
(* records and the routes its cuts will make (RecordInv); and the          *)
(* contracts that have the functions routed to them (ServiceInv).          *)
(***************************************************************************)
EXTENDS Deployment, SequenceTheorems, FiniteSetTheorems, WellFoundedInduction, TLAPS

-----------------------------------------------------------------------------
(* Folding over a sequence: the value after each of its elements.          *)

LEMMA NatLeastOf ==
    ASSUME NEW T, T \subseteq Nat, T # {}
    PROVE  \E x \in T : \A y \in T : x <= y
  <1> DEFINE R == OpToRel(<, Nat)
  <1>1. PICK x \in T : \A y \in T : <<y, x>> \notin R
    <2>1. IsWellFoundedOn(R, Nat)
      BY NatLessThanWellFounded
    <2> HIDE DEF R
    <2> QED
      BY <2>1, WFMin
  <1>2. \A y \in T : <<y, x>> \in Nat \X Nat
    OBVIOUS
  <1>3. \A y \in T : ~(y < x)
    BY <1>1, <1>2 DEF OpToRel
  <1> QED
    BY <1>3

\* Induction, for a property given as the set of numbers that have it.
LEMMA NatSetInd ==
    ASSUME NEW S, 0 \in S, \A n \in Nat : n \in S => n + 1 \in S
    PROVE  \A n \in Nat : n \in S
  <1> SUFFICES ASSUME ~(Nat \subseteq S) PROVE FALSE
    OBVIOUS
  <1> DEFINE T == {n \in Nat : n \notin S}
  <1>1. PICK x \in T : \A y \in T : x <= y
    BY NatLeastOf
  <1>2. x # 0 /\ x - 1 \in Nat /\ x - 1 \notin T
    BY <1>1
  <1> QED
    BY <1>2

\* The greatest of a set of numbers up to n.
LEMMA MaxIn ==
    ASSUME NEW n \in Nat, NEW s \in SUBSET (1..n), s # {}
    PROVE  Max(s) \in s /\ \A y \in s : Max(s) >= y
  <1> DEFINE T == {n - y : y \in s}
  <1>1. PICK x \in T : \A y \in T : x <= y
    <2>1. \A y \in s : y \in Nat /\ y <= n
      OBVIOUS
    <2>2. \A y \in s : n - y \in Nat
      BY <2>1
    <2>3. T \subseteq Nat /\ T # {}
      BY <2>2
    <2> HIDE DEF T
    <2> QED
      BY <2>3, NatLeastOf
  <1>2. PICK z \in s : x = n - z
    OBVIOUS
  <1>3. \A y \in s : z >= y
    <2> TAKE y \in s
    <2>1. n - y \in T /\ y \in Nat /\ z \in Nat
      OBVIOUS
    <2> QED
      BY <1>1, <1>2, <2>1
  <1> QED
    BY <1>3 DEF Max

\* The rounds of a fold: g over sets of places, each from the one without its
\* last place.
Rounds(g, step, base, seq, D) ==
    g = [s \in D |-> IF s = {} THEN base ELSE step[<<g[s \ {Max(s)}], seq[Max(s)]>>]]

\* There are rounds up to place k.
Folds(k, step, base, seq, D) ==
    \E g \in [SUBSET (1..k) -> D] : Rounds(g, step, base, seq, SUBSET (1..k))

LEMMA FoldsOfNone ==
    ASSUME NEW D, NEW step, NEW base \in D, NEW seq
    PROVE  Folds(0, step, base, seq, D)
  <1> DEFINE g == [s \in {{}} |-> base]
  <1>1. SUBSET (1..0) = {{}}
    OBVIOUS
  <1>2. g \in [{{}} -> D]
    OBVIOUS
  <1>3. g = [s \in {{}} |-> IF s = {} THEN base ELSE step[<<g[s \ {Max(s)}], seq[Max(s)]>>]]
    OBVIOUS
  <1> HIDE DEF g
  <1> QED
    BY <1>1, <1>2, <1>3 DEF Folds, Rounds

LEMMA FoldsOneMore ==
    ASSUME NEW D, NEW E, NEW step, \A d \in D, e \in E : step[<<d, e>>] \in D,
           NEW base \in D, NEW seq, NEW k \in Nat, \A i \in 1..(k + 1) : seq[i] \in E,
           Folds(k, step, base, seq, D)
    PROVE  Folds(k + 1, step, base, seq, D)
  <1> DEFINE Old == SUBSET (1..k)
             New == SUBSET (1..(k + 1))
  <1>1. PICK g \in [Old -> D] : Rounds(g, step, base, seq, Old)
    BY DEF Folds
  <1> DEFINE h == [s \in New |->
                     IF s = {} THEN base ELSE step[<<g[s \ {Max(s)}], seq[Max(s)]>>]]
  <1>2. ASSUME NEW s \in New, s # {}
        PROVE  s \ {Max(s)} \in Old /\ Max(s) \in 1..(k + 1)
    <2>1. k + 1 \in Nat /\ s \in SUBSET (1..(k + 1))
      OBVIOUS
    <2>2. Max(s) \in s /\ \A y \in s : Max(s) >= y
      BY <1>2, <2>1, MaxIn
    <2>3. Max(s) \in 1..(k + 1) /\ \A y \in s : y \in 1..(k + 1)
      BY <2>1, <2>2
    <2>4. \A y \in s \ {Max(s)} : y \in 1..k
      BY <2>2, <2>3
    <2> QED
      BY <2>3, <2>4
  <1>3. ASSUME NEW s \in Old
        PROVE  s \in New /\ h[s] = g[s]
    <2>1. s \in New
      OBVIOUS
    <2> HIDE DEF Old, New
    <2>2. g[s] = IF s = {} THEN base ELSE step[<<g[s \ {Max(s)}], seq[Max(s)]>>]
      BY <1>1 DEF Rounds
    <2> QED
      BY <2>1, <2>2
  <1>4. ASSUME NEW s \in New PROVE h[s] \in D
    <2>1. s # {} => g[s \ {Max(s)}] \in D /\ seq[Max(s)] \in E
      <3> HIDE DEF Old, New, h
      <3> QED
        BY <1>1, <1>2
    <2> HIDE DEF Old, New
    <2> QED
      BY <2>1
  <1>5. h \in [New -> D]
    BY <1>4
  <1>6. \A s \in New : s # {} => h[s \ {Max(s)}] = g[s \ {Max(s)}]
    <2> HIDE DEF Old, New, h
    <2> QED
      BY <1>2, <1>3
  <1>7. h = [s \in New |->
                     IF s = {} THEN base ELSE step[<<h[s \ {Max(s)}], seq[Max(s)]>>]]
    <2> HIDE DEF Old, New
    <2> QED
      BY <1>6
  <1> HIDE DEF h
  <1> QED
    BY <1>5, <1>7 DEF Folds, Rounds

LEMMA RoundsExist ==
    ASSUME NEW D, NEW E, NEW step, \A d \in D, e \in E : step[<<d, e>>] \in D,
           NEW base \in D, NEW seq \in Seq(E)
    PROVE  Folds(Len(seq), step, base, seq, D)
  <1>1. PICK n \in Nat : n = Len(seq)
    BY LenProperties
  <1>2. \A i \in 1..n : seq[i] \in E
    BY <1>1, ElementOfSeq
  <1> DEFINE N == {k \in Nat : k <= n => Folds(k, step, base, seq, D)}
  <1>3. 0 \in N
    BY FoldsOfNone
  <1>4. ASSUME NEW k \in Nat, k \in N
        PROVE  k + 1 \in N
    <2>1. ASSUME k + 1 <= n PROVE Folds(k + 1, step, base, seq, D)
      <3>1. Folds(k, step, base, seq, D)
        BY <1>4, <2>1
      <3>2. \A i \in 1..(k + 1) : seq[i] \in E
        BY <1>2, <2>1
      <3> QED
        BY <3>1, <3>2, FoldsOneMore
    <2> QED
      BY <2>1
  <1>5. n \in N
    <2> HIDE DEF N
    <2> QED
      BY <1>3, <1>4, NatSetInd
  <1> QED
    BY <1>1, <1>5

\* The last place of a prefix.
LEMMA LastPlace ==
    ASSUME NEW i \in Nat \ {0}
    PROVE  1..i # {} /\ Max(1..i) = i /\ (1..i) \ {i} = 1..(i - 1)
  <1>1. i \in 1..i /\ 1..i \in SUBSET (1..i)
    OBVIOUS
  <1>2. Max(1..i) \in 1..i /\ \A y \in 1..i : Max(1..i) >= y
    BY <1>1, MaxIn
  <1> QED
    BY <1>1, <1>2

\* What holds of the base, and of each round if of the one before, holds of the
\* last one.
LEMMA LastRound ==
    ASSUME NEW n \in Nat, NEW f, NEW D, f[{}] \in D,
           \A s \in SUBSET (1..n) : s # {} /\ f[s \ {Max(s)}] \in D => f[s] \in D
    PROVE  f[1..n] \in D
  <1> DEFINE N == {i \in Nat : i <= n => f[1..i] \in D}
  <1>1. 0 \in N
    <2>1. 1..0 = {}
      OBVIOUS
    <2> QED
      BY <2>1
  <1>2. ASSUME NEW i \in Nat, i \in N
        PROVE  i + 1 \in N
    <2> SUFFICES ASSUME i + 1 <= n PROVE f[1..(i + 1)] \in D
      OBVIOUS
    <2>1. PICK k \in Nat \ {0} : k = i + 1 /\ k - 1 = i /\ k <= n
      OBVIOUS
    <2>2. 1..k # {} /\ (1..k) \ {Max(1..k)} = 1..i /\ 1..k \in SUBSET (1..n)
      BY <2>1, LastPlace
    <2>3. f[1..i] \in D
      BY <1>2, <2>1
    <2> QED
      BY <2>1, <2>2, <2>3
  <1>3. n \in N
    <2> HIDE DEF N
    <2> QED
      BY <1>1, <1>2, NatSetInd
  <1> QED
    BY <1>3

\* The place a round takes off.
LEMMA TopPlace ==
    ASSUME NEW n \in Nat, NEW s \in SUBSET (1..n), s # {}
    PROVE  Max(s) \in 1..n /\ s \ {Max(s)} \in SUBSET (1..n)
  <1>1. Max(s) \in s
    BY MaxIn
  <1> QED
    BY <1>1

\* A loop seen from its start: what it has made after each of its rounds.
HasStages(f, n, D) ==
    \E h : /\ h[0] = f[{}] /\ h[n] = f[1..n]
           /\ \A i \in 0..n : h[i] \in D
           /\ \A i \in 1..n : /\ 1..i \in SUBSET (1..n) /\ 1..i # {} /\ Max(1..i) = i
                             /\ h[i] = f[1..i] /\ h[i - 1] = f[(1..i) \ {i}]

LEMMA StagesOf ==
    ASSUME NEW n \in Nat, NEW f, NEW D, f[{}] \in D,
           \A s \in SUBSET (1..n) : s # {} /\ f[s \ {Max(s)}] \in D => f[s] \in D
    PROVE  HasStages(f, n, D)
  <1>0. PICK h : h = [i \in 0..n |-> f[1..i]]
    OBVIOUS
  <1>1. h[0] = f[{}] /\ h[n] = f[1..n]
    <2>1. 1..0 = {} /\ 0 \in 0..n /\ n \in 0..n
      OBVIOUS
    <2> QED
      BY <1>0, <2>1
  <1>2. ASSUME NEW i \in 0..n PROVE h[i] \in D
    <2>1. i \in Nat /\ \A s \in SUBSET (1..i) : s \in SUBSET (1..n)
      OBVIOUS
    <2>2. f[1..i] \in D
      BY <2>1, LastRound
    <2> QED
      BY <1>0, <2>2
  <1>3. ASSUME NEW i \in 1..n
        PROVE  /\ 1..i \in SUBSET (1..n) /\ 1..i # {} /\ Max(1..i) = i
               /\ h[i] = f[1..i] /\ h[i - 1] = f[(1..i) \ {i}]
    <2>1. i \in Nat \ {0} /\ i \in 0..n /\ i - 1 \in 0..n /\ 1..i \in SUBSET (1..n)
      OBVIOUS
    <2>2. 1..i # {} /\ Max(1..i) = i /\ (1..i) \ {i} = 1..(i - 1)
      BY <2>1, LastPlace
    <2> QED
      BY <1>0, <2>1, <2>2
  <1> QED
    BY <1>1, <1>2, <1>3 DEF HasStages

-----------------------------------------------------------------------------
(* Each loop of the code, folded over the list it runs over.  An operator  *)
(* cannot be a parameter of a lemma the provers instantiate, so there is   *)
(* one for each.                                                           *)


AllAdded(a, base, seq) == FoldLeft(LAMBDA d, s : AddOne(d, a, s), base, seq)
\* Of a list of one selector there is one round.
OneAdded(a, base, seq) == Len(seq) = 1 => AllAdded(a, base, seq) = AddOne(base, a, seq[1])

\* A loop ends with a round.
AddLast(a, base, seq, D, E) ==
    seq # <<>> => \E d \in D, e \in E : AllAdded(a, base, seq) = AddOne(d, a, e)

\* The tables of the loop, from its start.
AddStages(a, base, seq, D) ==
    \E h : /\ h[0] = base /\ h[Len(seq)] = AllAdded(a, base, seq)
           /\ \A i \in 0..Len(seq) : h[i] \in D
           /\ \A i \in 1..Len(seq) : h[i] = AddOne(h[i - 1], a, seq[i])

\* What every round of adding a selector keeps, adding a list of them keeps.
LEMMA AddFold ==
    ASSUME NEW D, NEW E, NEW a, \A d \in D, e \in E : AddOne(d, a, e) \in D,
           NEW base \in D, NEW seq \in Seq(E)
    PROVE  /\ AllAdded(a, base, seq) \in D
           /\ AddLast(a, base, seq, D, E)
           /\ OneAdded(a, base, seq)
           /\ AddStages(a, base, seq, D)
  <1>1. PICK n \in Nat : n = Len(seq)
    BY LenProperties
  <1>2. DOMAIN seq = 1..n /\ \A i \in 1..n : seq[i] \in E
    BY <1>1, LenProperties, ElementOfSeq
  <1> DEFINE step == [p \in D \X E |-> AddOne(p[1], a, p[2])]
             Round(f) == f = [s \in SUBSET (1..n) |->
                 IF s = {} THEN base ELSE AddOne(f[s \ {Max(s)}], a, seq[Max(s)])]
             fold == CHOOSE f : Round(f)
  <1>3. \E g : Round(g)
    <2>1. \A d \in D, e \in E : step[<<d, e>>] = AddOne(d, a, e)
      OBVIOUS
    <2>2. Folds(n, step, base, seq, D)
      <3> HIDE DEF step
      <3> QED
        BY <1>1, <2>1, RoundsExist
    <2> HIDE DEF step
    <2>3. PICK g \in [SUBSET (1..n) -> D] : Rounds(g, step, base, seq, SUBSET (1..n))
      BY <2>2 DEF Folds
    <2>4. \A s \in SUBSET (1..n) : s # {} =>
             step[<<g[s \ {Max(s)}], seq[Max(s)]>>] = AddOne(g[s \ {Max(s)}], a, seq[Max(s)])
      BY <1>2, <2>1, <2>3, TopPlace
    <2>5. Round(g)
      BY <2>3, <2>4 DEF Rounds
    <2> HIDE DEF Round
    <2> QED
      BY <2>5
  <1>4. Round(fold)
    <2> HIDE DEF Round
    <2> QED
      BY <1>3
  <1>5. AllAdded(a, base, seq) = fold[1..n]
    BY <1>2 DEF AllAdded, FoldLeft, MapThenFoldSet
  <1> HIDE DEF fold
  <1>6. fold[{}] \in D
    BY <1>4
  <1>7. \A s \in SUBSET (1..n) :
           s # {} /\ fold[s \ {Max(s)}] \in D => fold[s] \in D
    BY <1>2, <1>4, TopPlace
  <1>8. ASSUME seq # <<>>
        PROVE  \E d \in D, e \in E : fold[1..n] = AddOne(d, a, e)
    <2>1. n \in Nat \ {0} /\ n \in 1..n
      BY <1>1, <1>8, EmptySeq
    <2>2. 1..n # {} /\ (1..n) \ {Max(1..n)} = 1..(n - 1) /\ Max(1..n) = n
      BY <2>1, LastPlace
    <2>3. fold[1..n] = AddOne(fold[1..(n - 1)], a, seq[n])
      BY <1>4, <2>2
    <2>4. fold[1..(n - 1)] \in D
      <3>1. n - 1 \in Nat
        BY <2>1
      <3>2. \A s \in SUBSET (1..(n - 1)) : s \in SUBSET (1..n)
        OBVIOUS
      <3> QED
        BY <1>6, <1>7, <3>1, <3>2, LastRound
    <2> QED
      BY <1>2, <2>1, <2>3, <2>4
  <1>9. fold[1..n] \in D
    BY <1>6, <1>7, LastRound
  <1>10. ASSUME n = 1 PROVE fold[1..n] = AddOne(base, a, seq[1])
    <2>1. 1..n = {1} /\ Max(1..n) = 1
      <3>1. 1..1 = {1}
        OBVIOUS
      <3>2. 1 \in Nat \ {0}
        OBVIOUS
      <3>3. Max(1..1) = 1
        BY <3>2, LastPlace
      <3> QED
        BY <1>10, <3>1, <3>3
    <2>2. fold[{}] = base /\ fold[{1}] = AddOne(fold[{1} \ {1}], a, seq[1])
      BY <1>4, <1>10, <2>1
    <2>3. {1} \ {1} = {}
      OBVIOUS
    <2> QED
      BY <2>1, <2>2, <2>3
  <1>11. AddStages(a, base, seq, D)
    <2>1. PICK h : /\ h[0] = base /\ h[n] = fold[1..n]
                   /\ \A i \in 0..n : h[i] \in D
                   /\ \A i \in 1..n :
                         /\ 1..i \in SUBSET (1..n) /\ 1..i # {} /\ Max(1..i) = i
                         /\ h[i] = fold[1..i] /\ h[i - 1] = fold[(1..i) \ {i}]
      <3>1. fold[{}] = base
        BY <1>4
      <3>2. HasStages(fold, n, D)
        BY <1>6, <1>7, StagesOf
      <3> QED
        BY <3>1, <3>2 DEF HasStages
    <2>2. ASSUME NEW i \in 1..n PROVE h[i] = AddOne(h[i - 1], a, seq[i])
      <3>1. \A s \in SUBSET (1..n) : s # {} => fold[s] = AddOne(fold[s \ {Max(s)}], a, seq[Max(s)])
        BY <1>4
      <3>2. 1..i \in SUBSET (1..n) /\ 1..i # {} /\ Max(1..i) = i
        BY <2>1
      <3>3. h[i] = fold[1..i] /\ h[i - 1] = fold[(1..i) \ {i}]
        BY <2>1
      <3> QED
        BY <3>1, <3>2, <3>3
    <2> QED
      BY <1>1, <1>5, <2>1, <2>2 DEF AddStages
  <1> QED
    BY <1>1, <1>5, <1>8, <1>9, <1>10, <1>11 DEF OneAdded, AddLast

AllReplaced(a, base, seq) == FoldLeft(LAMBDA d, s : ReplaceOne(d, a, s), base, seq)

ReplaceLast(a, base, seq, D, E) ==
    seq # <<>> => \E d \in D, e \in E : AllReplaced(a, base, seq) = ReplaceOne(d, a, e)

ReplaceStages(a, base, seq, D) ==
    \E h : /\ h[0] = base /\ h[Len(seq)] = AllReplaced(a, base, seq)
           /\ \A i \in 0..Len(seq) : h[i] \in D
           /\ \A i \in 1..Len(seq) : h[i] = ReplaceOne(h[i - 1], a, seq[i])

\* The same of replacing.
LEMMA ReplaceFold ==
    ASSUME NEW D, NEW E, NEW a, \A d \in D, e \in E : ReplaceOne(d, a, e) \in D,
           NEW base \in D, NEW seq \in Seq(E)
    PROVE  /\ AllReplaced(a, base, seq) \in D
           /\ ReplaceLast(a, base, seq, D, E)
           /\ ReplaceStages(a, base, seq, D)
  <1>1. PICK n \in Nat : n = Len(seq)
    BY LenProperties
  <1>2. DOMAIN seq = 1..n /\ \A i \in 1..n : seq[i] \in E
    BY <1>1, LenProperties, ElementOfSeq
  <1> DEFINE step == [p \in D \X E |-> ReplaceOne(p[1], a, p[2])]
             Round(f) == f = [s \in SUBSET (1..n) |->
                 IF s = {} THEN base ELSE ReplaceOne(f[s \ {Max(s)}], a, seq[Max(s)])]
             fold == CHOOSE f : Round(f)
  <1>3. \E g : Round(g)
    <2>1. \A d \in D, e \in E : step[<<d, e>>] = ReplaceOne(d, a, e)
      OBVIOUS
    <2>2. Folds(n, step, base, seq, D)
      <3> HIDE DEF step
      <3> QED
        BY <1>1, <2>1, RoundsExist
    <2> HIDE DEF step
    <2>3. PICK g \in [SUBSET (1..n) -> D] : Rounds(g, step, base, seq, SUBSET (1..n))
      BY <2>2 DEF Folds
    <2>4. \A s \in SUBSET (1..n) : s # {} =>
             step[<<g[s \ {Max(s)}], seq[Max(s)]>>] = ReplaceOne(g[s \ {Max(s)}], a, seq[Max(s)])
      BY <1>2, <2>1, <2>3, TopPlace
    <2>5. Round(g)
      BY <2>3, <2>4 DEF Rounds
    <2> HIDE DEF Round
    <2> QED
      BY <2>5
  <1>4. Round(fold)
    <2> HIDE DEF Round
    <2> QED
      BY <1>3
  <1>5. AllReplaced(a, base, seq) = fold[1..n]
    BY <1>2 DEF AllReplaced, FoldLeft, MapThenFoldSet
  <1> HIDE DEF fold
  <1>6. fold[{}] \in D
    BY <1>4
  <1>7. \A s \in SUBSET (1..n) :
           s # {} /\ fold[s \ {Max(s)}] \in D => fold[s] \in D
    BY <1>2, <1>4, TopPlace
  <1>8. ASSUME seq # <<>>
        PROVE  \E d \in D, e \in E : fold[1..n] = ReplaceOne(d, a, e)
    <2>1. n \in Nat \ {0} /\ n \in 1..n
      BY <1>1, <1>8, EmptySeq
    <2>2. 1..n # {} /\ (1..n) \ {Max(1..n)} = 1..(n - 1) /\ Max(1..n) = n
      BY <2>1, LastPlace
    <2>3. fold[1..n] = ReplaceOne(fold[1..(n - 1)], a, seq[n])
      BY <1>4, <2>2
    <2>4. fold[1..(n - 1)] \in D
      <3>1. n - 1 \in Nat
        BY <2>1
      <3>2. \A s \in SUBSET (1..(n - 1)) : s \in SUBSET (1..n)
        OBVIOUS
      <3> QED
        BY <1>6, <1>7, <3>1, <3>2, LastRound
    <2> QED
      BY <1>2, <2>1, <2>3, <2>4
  <1>9. fold[1..n] \in D
    BY <1>6, <1>7, LastRound
  <1>10. ReplaceStages(a, base, seq, D)
    <2>1. PICK h : /\ h[0] = base /\ h[n] = fold[1..n]
                   /\ \A i \in 0..n : h[i] \in D
                   /\ \A i \in 1..n :
                         /\ 1..i \in SUBSET (1..n) /\ 1..i # {} /\ Max(1..i) = i
                         /\ h[i] = fold[1..i] /\ h[i - 1] = fold[(1..i) \ {i}]
      <3>1. fold[{}] = base
        BY <1>4
      <3>2. HasStages(fold, n, D)
        BY <1>6, <1>7, StagesOf
      <3> QED
        BY <3>1, <3>2 DEF HasStages
    <2>2. ASSUME NEW i \in 1..n PROVE h[i] = ReplaceOne(h[i - 1], a, seq[i])
      <3>1. \A s \in SUBSET (1..n) : s # {} => fold[s] = ReplaceOne(fold[s \ {Max(s)}], a, seq[Max(s)])
        BY <1>4
      <3>2. 1..i \in SUBSET (1..n) /\ 1..i # {} /\ Max(1..i) = i
        BY <2>1
      <3>3. h[i] = fold[1..i] /\ h[i - 1] = fold[(1..i) \ {i}]
        BY <2>1
      <3> QED
        BY <3>1, <3>2, <3>3
    <2> QED
      BY <1>1, <1>5, <2>1, <2>2 DEF ReplaceStages
  <1> QED
    BY <1>5, <1>8, <1>9, <1>10 DEF ReplaceLast

RemoveStages(base, seq, D) ==
    \E h : /\ h[0] = base /\ h[Len(seq)] = FoldLeft(RemoveOne, base, seq)
           /\ \A i \in 0..Len(seq) : h[i] \in D
           /\ \A i \in 1..Len(seq) : h[i] = RemoveOne(h[i - 1], seq[i])

\* The same of removing.
LEMMA RemoveFold ==
    ASSUME NEW D, NEW E, \A d \in D, e \in E : RemoveOne(d, e) \in D,
           NEW base \in D, NEW seq \in Seq(E)
    PROVE  FoldLeft(RemoveOne, base, seq) \in D /\ RemoveStages(base, seq, D)
  <1>1. PICK n \in Nat : n = Len(seq)
    BY LenProperties
  <1>2. DOMAIN seq = 1..n /\ \A i \in 1..n : seq[i] \in E
    BY <1>1, LenProperties, ElementOfSeq
  <1> DEFINE step == [p \in D \X E |-> RemoveOne(p[1], p[2])]
             Round(f) == f = [s \in SUBSET (1..n) |->
                 IF s = {} THEN base ELSE RemoveOne(f[s \ {Max(s)}], seq[Max(s)])]
             fold == CHOOSE f : Round(f)
  <1>3. \E g : Round(g)
    <2>1. \A d \in D, e \in E : step[<<d, e>>] = RemoveOne(d, e)
      OBVIOUS
    <2>2. Folds(n, step, base, seq, D)
      <3> HIDE DEF step
      <3> QED
        BY <1>1, <2>1, RoundsExist
    <2> HIDE DEF step
    <2>3. PICK g \in [SUBSET (1..n) -> D] : Rounds(g, step, base, seq, SUBSET (1..n))
      BY <2>2 DEF Folds
    <2>4. \A s \in SUBSET (1..n) : s # {} =>
             step[<<g[s \ {Max(s)}], seq[Max(s)]>>] = RemoveOne(g[s \ {Max(s)}], seq[Max(s)])
      BY <1>2, <2>1, <2>3, TopPlace
    <2>5. Round(g)
      BY <2>3, <2>4 DEF Rounds
    <2> HIDE DEF Round
    <2> QED
      BY <2>5
  <1>4. Round(fold)
    <2> HIDE DEF Round
    <2> QED
      BY <1>3
  <1>5. FoldLeft(RemoveOne, base, seq) = fold[1..n]
    BY <1>2 DEF FoldLeft, MapThenFoldSet
  <1> HIDE DEF fold
  <1>6. fold[{}] \in D
    BY <1>4
  <1>7. \A s \in SUBSET (1..n) :
           s # {} /\ fold[s \ {Max(s)}] \in D => fold[s] \in D
    BY <1>2, <1>4, TopPlace
  <1>8. RemoveStages(base, seq, D)
    <2>1. PICK h : /\ h[0] = base /\ h[n] = fold[1..n]
                   /\ \A i \in 0..n : h[i] \in D
                   /\ \A i \in 1..n :
                         /\ 1..i \in SUBSET (1..n) /\ 1..i # {} /\ Max(1..i) = i
                         /\ h[i] = fold[1..i] /\ h[i - 1] = fold[(1..i) \ {i}]
      <3>1. fold[{}] = base
        BY <1>4
      <3>2. HasStages(fold, n, D)
        BY <1>6, <1>7, StagesOf
      <3> QED
        BY <3>1, <3>2 DEF HasStages
    <2>2. ASSUME NEW i \in 1..n PROVE h[i] = RemoveOne(h[i - 1], seq[i])
      <3>1. \A s \in SUBSET (1..n) : s # {} => fold[s] = RemoveOne(fold[s \ {Max(s)}], seq[Max(s)])
        BY <1>4
      <3>2. 1..i \in SUBSET (1..n) /\ 1..i # {} /\ Max(1..i) = i
        BY <2>1
      <3>3. h[i] = fold[1..i] /\ h[i - 1] = fold[(1..i) \ {i}]
        BY <2>1
      <3> QED
        BY <3>1, <3>2, <3>3
    <2> QED
      BY <1>1, <1>5, <2>1, <2>2 DEF RemoveStages
  <1> QED
    BY <1>5, <1>6, <1>7, <1>8, LastRound

OneCutMade(base, seq) == Len(seq) = 1 => diamondCut(base, seq) = ApplyCut(base, seq[1])

CutStages(base, seq, D) ==
    \E h : /\ h[0] = base /\ h[Len(seq)] = diamondCut(base, seq)
           /\ \A i \in 0..Len(seq) : h[i] \in D
           /\ \A i \in 1..Len(seq) : h[i] = ApplyCut(h[i - 1], seq[i])

\* The same of the cuts of a transaction.
LEMMA CutFold ==
    ASSUME NEW D, NEW E, \A d \in D, e \in E : ApplyCut(d, e) \in D,
           NEW base \in D, NEW seq \in Seq(E)
    PROVE  /\ diamondCut(base, seq) \in D
           /\ OneCutMade(base, seq)
           /\ CutStages(base, seq, D)
  <1>1. PICK n \in Nat : n = Len(seq)
    BY LenProperties
  <1>2. DOMAIN seq = 1..n /\ \A i \in 1..n : seq[i] \in E
    BY <1>1, LenProperties, ElementOfSeq
  <1> DEFINE step == [p \in D \X E |-> ApplyCut(p[1], p[2])]
             Round(f) == f = [s \in SUBSET (1..n) |->
                 IF s = {} THEN base ELSE ApplyCut(f[s \ {Max(s)}], seq[Max(s)])]
             fold == CHOOSE f : Round(f)
  <1>3. \E g : Round(g)
    <2>1. \A d \in D, e \in E : step[<<d, e>>] = ApplyCut(d, e)
      OBVIOUS
    <2>2. Folds(n, step, base, seq, D)
      <3> HIDE DEF step
      <3> QED
        BY <1>1, <2>1, RoundsExist
    <2> HIDE DEF step
    <2>3. PICK g \in [SUBSET (1..n) -> D] : Rounds(g, step, base, seq, SUBSET (1..n))
      BY <2>2 DEF Folds
    <2>4. \A s \in SUBSET (1..n) : s # {} =>
             step[<<g[s \ {Max(s)}], seq[Max(s)]>>] = ApplyCut(g[s \ {Max(s)}], seq[Max(s)])
      BY <1>2, <2>1, <2>3, TopPlace
    <2>5. Round(g)
      BY <2>3, <2>4 DEF Rounds
    <2> HIDE DEF Round
    <2> QED
      BY <2>5
  <1>4. Round(fold)
    <2> HIDE DEF Round
    <2> QED
      BY <1>3
  <1>5. diamondCut(base, seq) = fold[1..n]
    BY <1>2 DEF diamondCut, FoldLeft, MapThenFoldSet
  <1> HIDE DEF fold
  <1>6. fold[{}] \in D
    BY <1>4
  <1>7. \A s \in SUBSET (1..n) :
           s # {} /\ fold[s \ {Max(s)}] \in D => fold[s] \in D
    BY <1>2, <1>4, TopPlace
  <1>8. fold[1..n] \in D
    BY <1>6, <1>7, LastRound
  <1>9. ASSUME n = 1 PROVE fold[1..n] = ApplyCut(base, seq[1])
    <2>1. 1..n = {1} /\ Max(1..n) = 1
      <3>1. 1..1 = {1}
        OBVIOUS
      <3>2. 1 \in Nat \ {0}
        OBVIOUS
      <3>3. Max(1..1) = 1
        BY <3>2, LastPlace
      <3> QED
        BY <1>9, <3>1, <3>3
    <2>2. fold[{}] = base /\ fold[{1}] = ApplyCut(fold[{1} \ {1}], seq[1])
      BY <1>4, <1>9, <2>1
    <2>3. {1} \ {1} = {}
      OBVIOUS
    <2> QED
      BY <2>1, <2>2, <2>3
  <1>10. CutStages(base, seq, D)
    <2>1. PICK h : /\ h[0] = base /\ h[n] = fold[1..n]
                   /\ \A i \in 0..n : h[i] \in D
                   /\ \A i \in 1..n :
                         /\ 1..i \in SUBSET (1..n) /\ 1..i # {} /\ Max(1..i) = i
                         /\ h[i] = fold[1..i] /\ h[i - 1] = fold[(1..i) \ {i}]
      <3>1. fold[{}] = base
        BY <1>4
      <3>2. HasStages(fold, n, D)
        BY <1>6, <1>7, StagesOf
      <3> QED
        BY <3>1, <3>2 DEF HasStages
    <2>2. ASSUME NEW i \in 1..n PROVE h[i] = ApplyCut(h[i - 1], seq[i])
      <3>1. \A s \in SUBSET (1..n) : s # {} => fold[s] = ApplyCut(fold[s \ {Max(s)}], seq[Max(s)])
        BY <1>4
      <3>2. 1..i \in SUBSET (1..n) /\ 1..i # {} /\ Max(1..i) = i
        BY <2>1
      <3>3. h[i] = fold[1..i] /\ h[i - 1] = fold[(1..i) \ {i}]
        BY <2>1
      <3> QED
        BY <3>1, <3>2, <3>3
    <2> QED
      BY <1>1, <1>5, <2>1, <2>2 DEF CutStages
  <1> QED
    BY <1>1, <1>5, <1>8, <1>9, <1>10 DEF OneCutMade

KeepStages(set, seq, D) ==
    \E h : /\ h[0] = <<>> /\ h[Len(seq)] = OnlyIn(seq, set)
           /\ \A i \in 0..Len(seq) : h[i] \in D
           /\ \A i \in 1..Len(seq) : h[i] = KeepIn(h[i - 1], seq[i], set)

\* The same of filtering a list.
LEMMA KeepFold ==
    ASSUME NEW D, NEW E, NEW set, \A d \in D, e \in E : KeepIn(d, e, set) \in D,
           <<>> \in D, NEW seq \in Seq(E)
    PROVE  OnlyIn(seq, set) \in D /\ KeepStages(set, seq, D)
  <1>1. PICK n \in Nat : n = Len(seq)
    BY LenProperties
  <1>2. DOMAIN seq = 1..n /\ \A i \in 1..n : seq[i] \in E
    BY <1>1, LenProperties, ElementOfSeq
  <1> DEFINE step == [p \in D \X E |-> KeepIn(p[1], p[2], set)]
             Round(f) == f = [s \in SUBSET (1..n) |->
                 IF s = {} THEN <<>> ELSE KeepIn(f[s \ {Max(s)}], seq[Max(s)], set)]
             fold == CHOOSE f : Round(f)
  <1>3. \E g : Round(g)
    <2>1. \A d \in D, e \in E : step[<<d, e>>] = KeepIn(d, e, set)
      OBVIOUS
    <2>2. Folds(n, step, <<>>, seq, D)
      <3> HIDE DEF step
      <3> QED
        BY <1>1, <2>1, RoundsExist
    <2> HIDE DEF step
    <2>3. PICK g \in [SUBSET (1..n) -> D] : Rounds(g, step, <<>>, seq, SUBSET (1..n))
      BY <2>2 DEF Folds
    <2>4. \A s \in SUBSET (1..n) : s # {} =>
             step[<<g[s \ {Max(s)}], seq[Max(s)]>>] = KeepIn(g[s \ {Max(s)}], seq[Max(s)], set)
      BY <1>2, <2>1, <2>3, TopPlace
    <2>5. Round(g)
      BY <2>3, <2>4 DEF Rounds
    <2> HIDE DEF Round
    <2> QED
      BY <2>5
  <1>4. Round(fold)
    <2> HIDE DEF Round
    <2> QED
      BY <1>3
  <1>5. OnlyIn(seq, set) = fold[1..n]
    BY <1>2 DEF OnlyIn, FoldLeft, MapThenFoldSet
  <1> HIDE DEF fold
  <1>6. fold[{}] \in D
    BY <1>4
  <1>7. \A s \in SUBSET (1..n) :
           s # {} /\ fold[s \ {Max(s)}] \in D => fold[s] \in D
    BY <1>2, <1>4, TopPlace
  <1>8. KeepStages(set, seq, D)
    <2>1. PICK h : /\ h[0] = <<>> /\ h[n] = fold[1..n]
                   /\ \A i \in 0..n : h[i] \in D
                   /\ \A i \in 1..n :
                         /\ 1..i \in SUBSET (1..n) /\ 1..i # {} /\ Max(1..i) = i
                         /\ h[i] = fold[1..i] /\ h[i - 1] = fold[(1..i) \ {i}]
      <3>1. fold[{}] = <<>>
        BY <1>4
      <3>2. HasStages(fold, n, D)
        BY <1>6, <1>7, StagesOf
      <3> QED
        BY <3>1, <3>2 DEF HasStages
    <2>2. ASSUME NEW i \in 1..n PROVE h[i] = KeepIn(h[i - 1], seq[i], set)
      <3>1. \A s \in SUBSET (1..n) : s # {} => fold[s] = KeepIn(fold[s \ {Max(s)}], seq[Max(s)], set)
        BY <1>4
      <3>2. 1..i \in SUBSET (1..n) /\ 1..i # {} /\ Max(1..i) = i
        BY <2>1
      <3>3. h[i] = fold[1..i] /\ h[i - 1] = fold[(1..i) \ {i}]
        BY <2>1
      <3> QED
        BY <3>1, <3>2, <3>3
    <2> QED
      BY <1>1, <1>5, <2>1, <2>2 DEF KeepStages
  <1> QED
    BY <1>5, <1>6, <1>7, <1>8, LastRound

-----------------------------------------------------------------------------
(* Lists and the places their entries know.                                *)

InPlace(list, pos) == \A i \in 1..Len(list) : pos[list[i]] = i - 1

Indexed(S, list, pos) == list \in Seq(S) /\ pos \in [S -> Nat] /\ InPlace(list, pos)

LEMMA EntryOf ==
    ASSUME NEW S, NEW list \in Seq(S)
    PROVE  /\ \A i \in 1..Len(list) : list[i] \in S /\ list[i] \in ToSet(list)
           /\ \A x \in ToSet(list) : x \in S /\ \E i \in 1..Len(list) : list[i] = x
           /\ Len(list) \in Nat
           /\ ToSet(list) = {} <=> list = <<>>
           /\ Len(list) = 0 <=> list = <<>>
  <1>1. Len(list) \in Nat /\ DOMAIN list = 1..Len(list)
    BY LenProperties
  <1>2. \A i \in 1..Len(list) : list[i] \in S
    BY ElementOfSeq
  <1>3. Len(list) = 0 <=> list = <<>>
    BY EmptySeq
  <1>4. \A x : x \in ToSet(list) <=> \E i \in 1..Len(list) : list[i] = x
    BY <1>1 DEF ToSet
  <1>5. ToSet(list) = {} <=> 1..Len(list) = {}
    BY <1>4
  <1>6. 1..Len(list) = {} <=> Len(list) = 0
    BY <1>1
  <1> QED
    BY <1>1, <1>2, <1>3, <1>4, <1>5, <1>6

\* An entry appended in the place behind the last.
LEMMA AppendInPlace ==
    ASSUME NEW S, NEW list, NEW pos, Indexed(S, list, pos), NEW x \in S, x \notin ToSet(list)
    PROVE  /\ Indexed(S, Append(list, x), [pos EXCEPT ![x] = Len(list)])
           /\ ToSet(Append(list, x)) = ToSet(list) \cup {x}
           /\ Append(list, x) # <<>>
  <1>0. list \in Seq(S) /\ pos \in [S -> Nat] /\ InPlace(list, pos)
    BY DEF Indexed
  <1> DEFINE new == Append(list, x)
             p == [pos EXCEPT ![x] = Len(list)]
  <1>1. /\ new \in Seq(S) /\ Len(new) = Len(list) + 1
        /\ \A i \in 1..Len(list) : new[i] = list[i]
        /\ new[Len(list) + 1] = x
    BY <1>0, AppendProperties
  <1>2. Len(list) \in Nat /\ \A i \in 1..Len(list) : list[i] \in S /\ list[i] # x
    BY <1>0, EntryOf
  <1>3. DOMAIN new = 1..Len(new) /\ DOMAIN list = 1..Len(list)
    BY <1>0, <1>1, LenProperties
  <1> HIDE DEF new
  <1>4. p \in [S -> Nat]
    BY <1>0, <1>2
  <1>5. p[x] = Len(list) /\ \A i \in 1..Len(list) : p[list[i]] = i - 1
    BY <1>0, <1>2 DEF InPlace
  <1> HIDE DEF p
  <1>6. InPlace(new, p)
    <2> SUFFICES ASSUME NEW i \in 1..Len(new) PROVE p[new[i]] = i - 1
      BY DEF InPlace
    <2>1. CASE i \in 1..Len(list)
      BY <1>1, <1>5, <2>1
    <2>2. CASE i = Len(list) + 1
      BY <1>1, <1>2, <1>5, <2>2
    <2> QED
      BY <1>1, <1>2, <2>1, <2>2
  <1>7. ToSet(new) = ToSet(list) \cup {x}
    <2>1. \A y \in ToSet(new) : y \in ToSet(list) \cup {x}
      <3> SUFFICES ASSUME NEW i \in 1..Len(new) PROVE new[i] \in ToSet(list) \cup {x}
        BY <1>0, <1>1, EntryOf
      <3>1. CASE i \in 1..Len(list)
        <4>1. new[i] = list[i] /\ list[i] \in ToSet(list)
          BY <1>1, <1>0, <3>1, EntryOf
        <4> QED
          BY <4>1
      <3>2. CASE i = Len(list) + 1
        BY <1>1, <3>2
      <3> QED
        BY <1>1, <1>2, <3>1, <3>2
    <2>2. \A y \in ToSet(list) : y \in ToSet(new)
      <3> SUFFICES ASSUME NEW i \in 1..Len(list) PROVE list[i] \in ToSet(new)
        BY <1>0, EntryOf
      <3>1. i \in 1..Len(new)
        BY <1>1, <1>2
      <3> QED
        BY <1>1, <1>0, <3>1, EntryOf
    <2>3. x \in ToSet(new)
      <3>1. Len(list) + 1 \in 1..Len(new)
        BY <1>1, <1>2
      <3> QED
        BY <1>1, <1>0, <3>1, EntryOf
    <2> QED
      BY <2>1, <2>2, <2>3
  <1>8. new # <<>>
    BY <1>1, <1>7, EntryOf
  <1> QED
    BY <1>1, <1>4, <1>6, <1>7, <1>8 DEF new, p, Indexed

\* The last entry takes the place of one that is removed.
Popped(list, pos, x) == Front([list EXCEPT ![pos[x] + 1] = Last(list)])
Moved(list, pos, x) == [pos EXCEPT ![Last(list)] = pos[x], ![x] = 0]

LEMMA SwapAndPop ==
    ASSUME NEW S, NEW list, NEW pos, Indexed(S, list, pos), NEW x \in ToSet(list)
    PROVE  /\ Indexed(S, Popped(list, pos, x), Moved(list, pos, x))
           /\ ToSet(Popped(list, pos, x)) = ToSet(list) \ {x}
           /\ Popped(list, pos, x) = <<>> <=> Len(list) = 1
           /\ \A y \in S : y \notin ToSet(list) => Moved(list, pos, x)[y] = pos[y]
  <1>00. list \in Seq(S) /\ pos \in [S -> Nat] /\ InPlace(list, pos)
    BY DEF Indexed
  <1>0. PICK n \in Nat : n = Len(list)
    BY <1>00, EntryOf
  <1> DEFINE last == Last(list)
             gap == pos[x]
             moved == [list EXCEPT ![gap + 1] = last]
             new == Front(moved)
             p == [pos EXCEPT ![last] = gap, ![x] = 0]
  <1>1. DOMAIN list = 1..n /\ \A i \in 1..n : list[i] \in S
    BY <1>00, <1>0, EntryOf, LenProperties
  <1>2. PICK k \in 1..n : list[k] = x
    BY <1>00, <1>0, EntryOf
  <1>3. gap = k - 1 /\ gap \in Nat /\ gap + 1 = k /\ x \in S /\ n >= 1
    BY <1>00, <1>0, <1>1, <1>2 DEF InPlace
  <1>4. last = list[n] /\ last \in S /\ pos[last] = n - 1
    BY <1>00, <1>0, <1>1, <1>3 DEF Last, InPlace
  <1>5. moved \in Seq(S) /\ Len(moved) = n
    BY <1>00, <1>0, <1>1, <1>3, <1>4, ExceptSeq
  <1>6. \A i \in 1..n : moved[i] = IF i = k THEN last ELSE list[i]
    BY <1>1, <1>3
  <1> HIDE DEF moved
  <1>7. /\ new \in Seq(S) /\ Len(new) = n - 1
        /\ \A i \in 1..(n - 1) : new[i] = moved[i]
    BY <1>1, <1>3, <1>5, SubSeqProperties DEF Front
  <1> HIDE DEF new
  <1>8. DOMAIN new = 1..(n - 1)
    BY <1>7, LenProperties
  <1>9. \A i, j \in 1..n : list[i] = list[j] => i = j
    <2> SUFFICES ASSUME NEW i \in 1..n, NEW j \in 1..n, list[i] = list[j] PROVE i = j
      OBVIOUS
    <2>1. pos[list[i]] = i - 1 /\ pos[list[j]] = j - 1
      BY <1>00, <1>0 DEF InPlace
    <2> QED
      BY <1>1, <2>1
  <1>10. p \in [S -> Nat]
    BY <1>00, <1>3, <1>4
  <1>11. \A y \in S : p[y] = IF y = x THEN 0 ELSE IF y = last THEN gap ELSE pos[y]
    BY <1>00, <1>3, <1>4
  <1>12. \A i \in 1..(n - 1) :
            /\ new[i] = IF i = k THEN list[n] ELSE list[i]
            /\ new[i] # x
    <2> TAKE i \in 1..(n - 1)
    <2>1. i \in 1..n /\ n \in 1..n /\ i # n
      BY <1>1
    <2>2. new[i] = IF i = k THEN list[n] ELSE list[i]
      BY <1>4, <1>6, <1>7, <2>1
    <2>3. new[i] # list[k]
      BY <1>2, <1>9, <2>1, <2>2
    <2> QED
      BY <1>2, <2>2, <2>3
  <1>13. InPlace(new, p)
    <2> SUFFICES ASSUME NEW i \in 1..(n - 1) PROVE p[new[i]] = i - 1
      BY <1>7 DEF InPlace
    <2>1. i \in 1..n /\ n \in 1..n /\ i # n /\ i \in Nat
      BY <1>1
    <2>2. CASE i = k
      <3>1. new[i] = last /\ new[i] # x
        BY <1>4, <1>12, <2>2
      <3> QED
        BY <1>3, <1>4, <1>11, <2>2, <3>1
    <2>3. CASE i # k
      <3>1. new[i] = list[i] /\ new[i] # x /\ list[i] \in S
        BY <1>1, <1>12, <2>1, <2>3
      <3>2. list[i] # last
        BY <1>4, <1>9, <2>1
      <3>3. p[new[i]] = pos[list[i]]
        BY <1>11, <3>1, <3>2
      <3> QED
        BY <1>00, <1>0, <2>1, <3>3 DEF InPlace
    <2> QED
      BY <2>2, <2>3
  <1> HIDE DEF p
  <1>14. ToSet(new) = ToSet(list) \ {x}
    <2>1. \A y \in ToSet(new) : y \in ToSet(list) /\ y # x
      <3>1. ASSUME NEW i \in 1..(n - 1) PROVE new[i] \in ToSet(list) /\ new[i] # x
        <4>1. i \in 1..n /\ n \in 1..n
          BY <1>1
        <4>2. list[i] \in ToSet(list) /\ list[n] \in ToSet(list)
          BY <1>00, <1>0, <4>1, EntryOf
        <4> QED
          BY <1>12, <4>2
      <3>2. \A y \in ToSet(new) : \E i \in 1..(n - 1) : new[i] = y
        BY <1>7, EntryOf
      <3> QED
        BY <3>1, <3>2
    <2>2. \A y \in ToSet(list) : y # x => y \in ToSet(new)
      <3> SUFFICES ASSUME NEW y \in ToSet(list), y # x PROVE y \in ToSet(new)
        OBVIOUS
      <3>0. PICK i \in 1..n : list[i] = y
        BY <1>00, <1>0, EntryOf
      <3>1. i # k
        BY <1>2, <3>0
      <3>2. CASE i = n
        <4>1. k \in 1..(n - 1)
          BY <1>1, <3>1, <3>2
        <4>2. new[k] = list[n]
          BY <1>12, <4>1
        <4> QED
          BY <1>7, <3>0, <3>2, <4>1, <4>2, EntryOf
      <3>3. CASE i # n
        <4>1. i \in 1..(n - 1)
          BY <1>1, <3>3
        <4>2. new[i] = list[i]
          BY <1>12, <3>1, <4>1
        <4>3. \A j \in 1..Len(new) : new[j] \in ToSet(new)
          BY <1>7, EntryOf
        <4> QED
          BY <1>7, <3>0, <4>1, <4>2, <4>3
      <3> QED
        BY <3>2, <3>3
    <2> QED
      BY <2>1, <2>2
  <1>15. new = <<>> <=> n = 1
    <2>1. new = <<>> <=> Len(new) = 0
      BY <1>7, EntryOf
    <2> QED
      BY <1>1, <1>3, <1>7, <2>1
  <1>16. \A y \in S : y \notin ToSet(list) => p[y] = pos[y]
    <2>1. last \in ToSet(list)
      <3>1. n \in 1..n
        BY <1>3
      <3> QED
        BY <1>00, <1>0, <1>4, <3>1, EntryOf
    <2> QED
      BY <1>11, <2>1
  <1> QED
    BY <1>00, <1>0, <1>4, <1>7, <1>10, <1>13, <1>14, <1>15, <1>16 DEF new, p, moved, Indexed, Popped, Moved
-----------------------------------------------------------------------------
(* The routing table under one round of a cut.                             *)

Tables ==
    [facetOf : [Selectors -> 0..MaxAddress], posOf : [Selectors -> Nat],
     list : [Addresses -> Seq(Selectors)], facetPos : [Addresses -> Nat],
     facets : Seq(Addresses), ok : BOOLEAN]

\* Each facet's list has the selectors routed to it, in the places they know.
Listed(t) ==
    \A x \in Addresses :
        /\ InPlace(t.list[x], t.posOf)
        /\ ToSet(t.list[x]) = {s \in Selectors : t.facetOf[s] = x}

\* While a cut adds to facet a, a is in the list of facets although it may not
\* have a selector yet; a = 0 says that no cut is under way.
Midway(t, a) ==
    /\ Listed(t)
    /\ InPlace(t.facets, t.facetPos)
    /\ ToSet(t.facets) = {x \in Addresses : t.list[x] # <<>> \/ x = a}

LEMMA AddressesAreNat ==
    /\ Addresses \subseteq Nat \ {0} /\ Addresses \subseteq 0..MaxAddress
    /\ \A x \in 0..MaxAddress : x = 0 \/ x \in Addresses
    /\ 0 \in 0..MaxAddress
  <1>1. MaxAddress \in Nat
    BY DeploymentAssumption
  <1> QED
    BY <1>1 DEF Addresses

LEMMA ListedIsIndexed ==
    ASSUME NEW t \in Tables
    PROVE  Listed(t) <=> SelectorsIndexed(t)
  <1>1. \A x \in Addresses : t.list[x] \in Seq(Selectors)
    BY DEF Tables
  <1>2. t.facetOf \in [Selectors -> 0..MaxAddress] /\ t.posOf \in [Selectors -> Nat]
    BY DEF Tables
  <1>3. \A s \in Selectors : t.facetOf[s] # 0 => t.facetOf[s] \in Addresses
    BY <1>2, AddressesAreNat
  <1>4. ASSUME Listed(t) PROVE SelectorsIndexed(t)
    <2>1. ASSUME NEW x \in Addresses, NEW i \in 1..Len(t.list[x])
          PROVE  t.facetOf[t.list[x][i]] = x /\ t.posOf[t.list[x][i]] = i - 1
      <3>1. t.list[x][i] \in ToSet(t.list[x])
        BY <1>1, EntryOf
      <3> QED
        BY <1>4, <3>1 DEF Listed, InPlace
    <2>2. ASSUME NEW s \in Selectors, t.facetOf[s] # 0
          PROVE  /\ t.posOf[s] < Len(t.list[t.facetOf[s]])
                 /\ t.list[t.facetOf[s]][t.posOf[s] + 1] = s
      <3>1. PICK x \in Addresses : x = t.facetOf[s]
        BY <1>3, <2>2
      <3>2. s \in ToSet(t.list[x])
        BY <1>4, <3>1 DEF Listed
      <3>3. PICK i \in 1..Len(t.list[x]) : t.list[x][i] = s
        BY <1>1, <3>2, EntryOf
      <3>4. t.posOf[s] = i - 1 /\ Len(t.list[x]) \in Nat
        BY <1>1, <1>4, <3>3, EntryOf DEF Listed, InPlace
      <3> QED
        BY <3>1, <3>3, <3>4
    <2> QED
      BY <2>1, <2>2 DEF SelectorsIndexed
  <1>5. ASSUME SelectorsIndexed(t) PROVE Listed(t)
    <2> SUFFICES ASSUME NEW x \in Addresses
                 PROVE  /\ InPlace(t.list[x], t.posOf)
                        /\ ToSet(t.list[x]) = {s \in Selectors : t.facetOf[s] = x}
      BY DEF Listed
    <2>1. InPlace(t.list[x], t.posOf)
      BY <1>5 DEF SelectorsIndexed, InPlace
    <2>2. \A s \in ToSet(t.list[x]) : s \in Selectors /\ t.facetOf[s] = x
      <3> TAKE s \in ToSet(t.list[x])
      <3>1. PICK i \in 1..Len(t.list[x]) : t.list[x][i] = s
        BY <1>1, EntryOf
      <3>2. s \in Selectors
        BY <1>1, EntryOf
      <3> QED
        BY <1>5, <3>1, <3>2 DEF SelectorsIndexed
    <2>3. ASSUME NEW s \in Selectors, t.facetOf[s] = x
          PROVE  s \in ToSet(t.list[x])
      <3>1. x # 0
        BY AddressesAreNat
      <3>2. t.posOf[s] < Len(t.list[x]) /\ t.list[x][t.posOf[s] + 1] = s
        BY <1>5, <2>3, <3>1 DEF SelectorsIndexed
      <3>3. t.posOf[s] \in Nat /\ Len(t.list[x]) \in Nat
        BY <1>1, <1>2, EntryOf
      <3>4. t.posOf[s] + 1 \in 1..Len(t.list[x])
        BY <3>2, <3>3
      <3> QED
        BY <1>1, <3>2, <3>4, EntryOf
    <2> QED
      BY <2>1, <2>2, <2>3
  <1> QED
    BY <1>4, <1>5

\* Between cuts, that is what the loupe's consistency says.
LEMMA MidwayIsIndexed ==
    ASSUME NEW t \in Tables
    PROVE  Midway(t, 0) <=> SelectorsIndexed(t) /\ FacetsIndexed(t)
  <1>1. \A x \in Addresses : x # 0
    BY AddressesAreNat
  <1>2. {x \in Addresses : t.list[x] # <<>> \/ x = 0} = {x \in Addresses : t.list[x] # <<>>}
    BY <1>1
  <1> QED
    BY <1>2, ListedIsIndexed DEF Midway, FacetsIndexed, InPlace

\* A refused cut keeps its shape.
LEMMA RefuseTable ==
    ASSUME NEW t \in Tables
    PROVE  Refuse(t) \in Tables /\ ~Refuse(t).ok
  BY DEF Refuse, Tables

\* A selector that is routed nowhere is added to a facet.
LEMMA AddKeeps ==
    ASSUME NEW t \in Tables, NEW a \in Addresses, NEW s \in Selectors,
           Midway(t, a), t.facetOf[s] = 0
    PROVE  /\ addFunction(t, s, a) \in Tables
           /\ Midway(addFunction(t, s, a), a)
           /\ addFunction(t, s, a).list[a] # <<>>
           /\ addFunction(t, s, a).ok = t.ok
  <1> DEFINE u == addFunction(t, s, a)
  <1>1. /\ t.list \in [Addresses -> Seq(Selectors)] /\ t.posOf \in [Selectors -> Nat]
        /\ t.facetOf \in [Selectors -> 0..MaxAddress] /\ t.facetPos \in [Addresses -> Nat]
        /\ t.facets \in Seq(Addresses) /\ t.ok \in BOOLEAN
    BY DEF Tables
  <1>2. a \in 0..MaxAddress /\ a # 0
    BY AddressesAreNat
  <1>3. PICK old, place : old = t.list[a] /\ place = t.posOf
    OBVIOUS
  <1>4. Indexed(Selectors, old, place) /\ s \notin ToSet(old)
    BY <1>1, <1>2, <1>3 DEF Midway, Listed, Indexed
  <1>5. PICK list, pos : list = Append(old, s) /\ pos = [place EXCEPT ![s] = Len(old)]
    OBVIOUS
  <1>6. /\ list \in Seq(Selectors) /\ pos \in [Selectors -> Nat] /\ InPlace(list, pos)
        /\ ToSet(list) = ToSet(old) \cup {s} /\ list # <<>>
    <2>1. Indexed(Selectors, old, place)
      BY <1>4
    <2>2. s \in Selectors /\ s \notin ToSet(old)
      BY <1>4
    <2>3. /\ Indexed(Selectors, Append(old, s), [place EXCEPT ![s] = Len(old)])
          /\ ToSet(Append(old, s)) = ToSet(old) \cup {s} /\ Append(old, s) # <<>>
      BY ONLY <2>1, <2>2, AppendInPlace
    <2> QED
      BY <1>5, <2>3 DEF Indexed
  <1>7. /\ u.list = [t.list EXCEPT ![a] = list] /\ u.posOf = pos
        /\ u.facetOf = [t.facetOf EXCEPT ![s] = a]
        /\ u.facets = t.facets /\ u.facetPos = t.facetPos /\ u.ok = t.ok
    BY <1>3, <1>5 DEF addFunction, Tables
  <1>8. u \in Tables
    <2>1. PICK routed, lists : /\ routed = [t.facetOf EXCEPT ![s] = a]
                               /\ lists = [t.list EXCEPT ![a] = list]
      OBVIOUS
    <2>2. routed \in [Selectors -> 0..MaxAddress] /\ lists \in [Addresses -> Seq(Selectors)]
      BY <1>1, <1>2, <1>6, <2>1
    <2>3. PICK v : v = [t EXCEPT !.facetOf = routed]
      OBVIOUS
    <2>4. v \in Tables /\ v.posOf = t.posOf /\ v.list = t.list
      BY <2>2, <2>3 DEF Tables
    <2>5. PICK w : w = [v EXCEPT !.posOf = pos]
      OBVIOUS
    <2>6. w \in Tables /\ w.list = t.list
      BY <1>6, <2>4, <2>5 DEF Tables
    <2>7. [w EXCEPT !.list = lists] \in Tables
      BY <2>2, <2>6 DEF Tables
    <2>8. u = [w EXCEPT !.list = lists]
      BY <1>3, <1>5, <2>1, <2>3, <2>4, <2>5, <2>6 DEF addFunction
    <2> QED
      BY <2>7, <2>8
  <1> HIDE DEF u
  <1>9. Listed(u)
    <2> SUFFICES ASSUME NEW x \in Addresses
                 PROVE  /\ InPlace(u.list[x], u.posOf)
                        /\ ToSet(u.list[x]) = {r \in Selectors : u.facetOf[r] = x}
      BY DEF Listed
    <2>1. ToSet(t.list[x]) = {r \in Selectors : t.facetOf[r] = x} /\ InPlace(t.list[x], place)
      BY <1>3 DEF Midway, Listed
    <2>2. CASE x = a
      <3>1. u.list[x] = list /\ u.posOf = pos
        BY <1>1, <1>7, <2>2
      <3>2. {r \in Selectors : u.facetOf[r] = x} = {r \in Selectors : t.facetOf[r] = x} \cup {s}
        BY <1>1, <1>2, <1>7, <2>2
      <3> QED
        BY <1>3, <1>6, <2>1, <2>2, <3>1, <3>2
    <2>3. CASE x # a
      <3>1. u.list[x] = t.list[x]
        BY <1>1, <1>7, <2>3
      <3>2. {r \in Selectors : u.facetOf[r] = x} = {r \in Selectors : t.facetOf[r] = x}
        BY <1>1, <1>7, <2>3, AddressesAreNat
      <3>3. s \notin ToSet(t.list[x])
        BY <2>1, AddressesAreNat
      <3>4. \A i \in 1..Len(t.list[x]) : t.list[x][i] \in Selectors /\ t.list[x][i] # s
        <4>1. t.list[x] \in Seq(Selectors)
          BY <1>1
        <4> QED
          BY <3>3, <4>1, EntryOf
      <3>5. InPlace(t.list[x], pos)
        BY <1>4, <1>5, <2>1, <3>4 DEF InPlace, Indexed
      <3> QED
        BY <1>7, <2>1, <3>1, <3>2, <3>5
    <2> QED
      BY <2>2, <2>3
  <1>10. ToSet(u.facets) = {x \in Addresses : u.list[x] # <<>> \/ x = a}
    <2>1. \A x \in Addresses : x # a => u.list[x] = t.list[x]
      BY <1>1, <1>7
    <2> QED
      BY <1>7, <2>1 DEF Midway
  <1>11. Midway(u, a)
    BY <1>7, <1>9, <1>10 DEF Midway
  <1>12. u.list[a] # <<>>
    BY <1>1, <1>6, <1>7
  <1> QED
    BY <1>7, <1>8, <1>11, <1>12 DEF u

\* A selector is taken from its facet, which goes when it was its last; the
\* facet a cut is adding to stays.
LEMMA DropKeeps ==
    ASSUME NEW t \in Tables, NEW b, NEW a \in Addresses, a # b, t.list[a] = <<>>,
           Listed(t), InPlace(t.facets, t.facetPos),
           ToSet(t.facets) = {x \in Addresses : t.list[x] # <<>> \/ x \in {a, b}}
    PROVE  /\ dropFacet(t, a) \in Tables
           /\ Midway(dropFacet(t, a), b)
           /\ dropFacet(t, a).facetOf = t.facetOf
           /\ dropFacet(t, a).ok = t.ok
  <1> DEFINE u == dropFacet(t, a)
  <1>1. PICK old, place : old = t.facets /\ place = t.facetPos
    OBVIOUS
  <1>2. Indexed(Addresses, old, place) /\ a \in ToSet(old)
    BY <1>1 DEF Indexed, Tables
  <1>3. PICK last, facets, pos :
           /\ last = Last(old) /\ facets = Front([old EXCEPT ![place[a] + 1] = last])
           /\ pos = [place EXCEPT ![last] = place[a], ![a] = 0]
    OBVIOUS
  <1>4. Indexed(Addresses, facets, pos) /\ ToSet(facets) = ToSet(old) \ {a}
    <2>1. Indexed(Addresses, old, place)
      BY <1>2
    <2>2. a \in ToSet(old)
      BY <1>2
    <2>3. /\ Indexed(Addresses, Popped(old, place, a), Moved(old, place, a))
          /\ ToSet(Popped(old, place, a)) = ToSet(old) \ {a}
          /\ Popped(old, place, a) = <<>> <=> Len(old) = 1
          /\ \A y \in Addresses : y \notin ToSet(old) => Moved(old, place, a)[y] = place[y]
      BY ONLY <2>1, <2>2, SwapAndPop
    <2> QED
      BY <1>3, <2>3 DEF Popped, Moved
  <1>5. facets \in Seq(Addresses) /\ pos \in [Addresses -> Nat] /\ InPlace(facets, pos)
    BY <1>4 DEF Indexed
  <1>6. u \in Tables /\ u = [[t EXCEPT !.facets = facets] EXCEPT !.facetPos = pos]
    <2>1. PICK v : v = [t EXCEPT !.facets = facets]
      OBVIOUS
    <2>2. v \in Tables /\ v.facetPos = t.facetPos
      BY <1>5, <2>1 DEF Tables
    <2>3. [v EXCEPT !.facetPos = pos] \in Tables
      BY <1>5, <2>2 DEF Tables
    <2>4. u = [v EXCEPT !.facetPos = pos]
      BY <1>1, <1>3, <2>1, <2>2 DEF dropFacet
    <2> QED
      BY <2>1, <2>3, <2>4
  <1>7. /\ u.facets = facets /\ u.facetPos = pos /\ u.list = t.list /\ u.posOf = t.posOf
        /\ u.facetOf = t.facetOf /\ u.ok = t.ok
    BY <1>6 DEF Tables
  <1> HIDE DEF u
  <1>8. Listed(u)
    BY <1>7 DEF Listed
  <1>9. ToSet(u.facets) = {x \in Addresses : u.list[x] # <<>> \/ x = b}
    BY <1>1, <1>4, <1>7
  <1> QED
    BY <1>5, <1>6, <1>7, <1>8, <1>9 DEF u, Midway

LEMMA RemoveKeeps ==
    ASSUME NEW t \in Tables, NEW b, NEW s \in Selectors, Midway(t, b), t.facetOf[s] \notin {0, b}
    PROVE  /\ removeFunction(t, s) \in Tables
           /\ Midway(removeFunction(t, s), b)
           /\ removeFunction(t, s).facetOf[s] = 0
           /\ removeFunction(t, s).ok = t.ok
  <1>1. /\ t.list \in [Addresses -> Seq(Selectors)] /\ t.posOf \in [Selectors -> Nat]
        /\ t.facetOf \in [Selectors -> 0..MaxAddress] /\ t.facetPos \in [Addresses -> Nat]
        /\ t.facets \in Seq(Addresses) /\ t.ok \in BOOLEAN
    BY DEF Tables
  <1>2. PICK a \in Addresses : a = t.facetOf[s] /\ a # b /\ a # 0
    BY <1>1, AddressesAreNat
  <1>3. PICK old, place : old = t.list[a] /\ place = t.posOf
    OBVIOUS
  <1>4. Indexed(Selectors, old, place) /\ s \in ToSet(old)
    BY <1>1, <1>2, <1>3 DEF Midway, Listed, Indexed
  <1>5. PICK last, list, pos :
           /\ last = Last(old) /\ list = Front([old EXCEPT ![place[s] + 1] = last])
           /\ pos = [place EXCEPT ![last] = place[s], ![s] = 0]
    OBVIOUS
  <1>6. /\ Indexed(Selectors, list, pos) /\ ToSet(list) = ToSet(old) \ {s}
        /\ list = <<>> <=> Len(old) = 1
        /\ \A r \in Selectors : r \notin ToSet(old) => pos[r] = place[r]
    <2>1. Indexed(Selectors, old, place)
      BY <1>4
    <2>2. s \in ToSet(old)
      BY <1>4
    <2>3. /\ Indexed(Selectors, Popped(old, place, s), Moved(old, place, s))
          /\ ToSet(Popped(old, place, s)) = ToSet(old) \ {s}
          /\ Popped(old, place, s) = <<>> <=> Len(old) = 1
          /\ \A y \in Selectors : y \notin ToSet(old) => Moved(old, place, s)[y] = place[y]
      BY ONLY <2>1, <2>2, SwapAndPop
    <2> QED
      BY <1>5, <2>3 DEF Popped, Moved
  <1>7. list \in Seq(Selectors) /\ pos \in [Selectors -> Nat] /\ InPlace(list, pos)
    BY <1>6 DEF Indexed
  <1>8. PICK routed, lists : /\ routed = [t.facetOf EXCEPT ![s] = 0]
                             /\ lists = [t.list EXCEPT ![a] = list]
    OBVIOUS
  <1>9. routed \in [Selectors -> 0..MaxAddress] /\ lists \in [Addresses -> Seq(Selectors)]
    BY <1>1, <1>7, <1>8, AddressesAreNat
  <1>10. PICK v : v = [[[t EXCEPT !.list = lists] EXCEPT !.posOf = pos] EXCEPT !.facetOf = routed]
    OBVIOUS
  <1>11. /\ v \in Tables
         /\ v.list = lists /\ v.posOf = pos /\ v.facetOf = routed
         /\ v.facets = t.facets /\ v.facetPos = t.facetPos /\ v.ok = t.ok
    <2>1. PICK w : w = [t EXCEPT !.list = lists]
      OBVIOUS
    <2>2. /\ w \in Tables /\ w.list = lists /\ w.posOf = t.posOf /\ w.facetOf = t.facetOf
          /\ w.facets = t.facets /\ w.facetPos = t.facetPos /\ w.ok = t.ok
      BY <1>9, <2>1 DEF Tables
    <2>3. PICK z : z = [w EXCEPT !.posOf = pos]
      OBVIOUS
    <2>4. /\ z \in Tables /\ z.list = lists /\ z.posOf = pos /\ z.facetOf = t.facetOf
          /\ z.facets = t.facets /\ z.facetPos = t.facetPos /\ z.ok = t.ok
      BY <1>7, <2>2, <2>3 DEF Tables
    <2>5. v = [z EXCEPT !.facetOf = routed]
      BY <1>10, <2>1, <2>3
    <2> QED
      BY <1>9, <2>4, <2>5 DEF Tables
  <1>12. removeFunction(t, s) = IF Len(old) = 1 THEN dropFacet(v, a) ELSE v
    <2>1. PICK w : w = [t EXCEPT !.list = lists]
      OBVIOUS
    <2>2. w.posOf = place /\ w.facetOf = t.facetOf
      BY <1>3, <2>1 DEF Tables
    <2>3. PICK z : z = [w EXCEPT !.posOf = pos]
      OBVIOUS
    <2>4. z.facetOf = t.facetOf
      BY <2>2, <2>3 DEF Tables
    <2>5. v = [z EXCEPT !.facetOf = routed]
      BY <1>10, <2>1, <2>3
    <2> QED
      BY <1>2, <1>3, <1>5, <1>8, <2>1, <2>2, <2>3, <2>4, <2>5 DEF removeFunction
  <1>13. Listed(v)
    <2> SUFFICES ASSUME NEW x \in Addresses
                 PROVE  /\ InPlace(v.list[x], v.posOf)
                        /\ ToSet(v.list[x]) = {r \in Selectors : v.facetOf[r] = x}
      BY DEF Listed
    <2>1. ToSet(t.list[x]) = {r \in Selectors : t.facetOf[r] = x} /\ InPlace(t.list[x], place)
      BY <1>3 DEF Midway, Listed
    <2>2. CASE x = a
      <3>1. v.list[x] = list
        BY <1>1, <1>8, <1>11, <2>2
      <3>2. {r \in Selectors : v.facetOf[r] = x} = {r \in Selectors : t.facetOf[r] = x} \ {s}
        BY <1>1, <1>2, <1>8, <1>11, <2>2
      <3> QED
        BY <1>3, <1>6, <1>7, <1>11, <2>1, <2>2, <3>1, <3>2
    <2>3. CASE x # a
      <3>1. v.list[x] = t.list[x]
        BY <1>1, <1>8, <1>11, <2>3
      <3>2. {r \in Selectors : v.facetOf[r] = x} = {r \in Selectors : t.facetOf[r] = x}
        <4>1. x # 0
          BY AddressesAreNat
        <4> QED
          BY <1>1, <1>2, <1>8, <1>11, <2>3, <4>1
      <3>3. ToSet(old) = {r \in Selectors : t.facetOf[r] = a}
        BY <1>3 DEF Midway, Listed
      <3>4. \A i \in 1..Len(t.list[x]) : t.list[x][i] \in Selectors /\ t.list[x][i] \notin ToSet(old)
        <4>1. t.list[x] \in Seq(Selectors)
          BY <1>1
        <4>2. \A i \in 1..Len(t.list[x]) : t.list[x][i] \in ToSet(t.list[x])
          BY <4>1, EntryOf
        <4> QED
          BY <2>1, <2>3, <3>3, <4>2
      <3>5. InPlace(t.list[x], pos)
        BY <1>6, <2>1, <3>4 DEF InPlace
      <3> QED
        BY <1>11, <2>1, <3>1, <3>2, <3>5
    <2> QED
      BY <2>2, <2>3
  <1>14. \A x \in Addresses : x # a => v.list[x] = t.list[x]
    BY <1>1, <1>8, <1>11
  <1>15. v.list[a] = list /\ v.facetOf[s] = 0
    BY <1>1, <1>8, <1>11
  <1>16. old # <<>>
    BY <1>4, EntryOf DEF Indexed
  <1>17. ToSet(t.facets) = {x \in Addresses : t.list[x] # <<>> \/ x = b}
         /\ InPlace(t.facets, t.facetPos)
    BY DEF Midway
  <1>18. CASE Len(old) = 1
    <2>1. ToSet(v.facets) = {x \in Addresses : v.list[x] # <<>> \/ x \in {a, b}}
      BY <1>3, <1>11, <1>14, <1>16, <1>17
    <2>2. v.list[a] = <<>> /\ InPlace(v.facets, v.facetPos)
      BY <1>6, <1>11, <1>15, <1>17, <1>18
    <2>3. v \in Tables /\ a \in Addresses /\ a # b
      BY <1>2, <1>11
    <2>4. PICK w : w = dropFacet(v, a)
      OBVIOUS
    <2>5. w \in Tables /\ Midway(w, b) /\ w.facetOf = v.facetOf /\ w.ok = v.ok
      BY ONLY <1>13, <2>1, <2>2, <2>3, <2>4, DropKeeps
    <2>6. removeFunction(t, s) = w
      BY <1>12, <1>18, <2>4
    <2> QED
      BY <1>11, <1>15, <2>5, <2>6
  <1>19. CASE Len(old) # 1
    <2>1. list # <<>>
      BY <1>6, <1>19
    <2>2. ToSet(v.facets) = {x \in Addresses : v.list[x] # <<>> \/ x = b}
      BY <1>3, <1>11, <1>14, <1>15, <1>16, <1>17, <2>1
    <2>3. Midway(v, b)
      BY <1>11, <1>13, <1>17, <2>2 DEF Midway
    <2> QED
      BY <1>11, <1>12, <1>15, <1>19, <2>3
  <1> QED
    BY <1>18, <1>19

-----------------------------------------------------------------------------
(* Cuts.                                                                   *)

\* The tables a cut that adds to facet a can have reached.
Reached(a) == {t \in Tables : t.ok => Midway(t, a)}

LEMMA AnnounceKeeps ==
    ASSUME NEW t \in Tables, NEW a \in Addresses, Midway(t, 0)
    PROVE  Announce(t, a) \in Reached(a)
  <1>1. \A x \in Addresses : x # 0
    BY AddressesAreNat
  <1>2. CASE t.list[a] # <<>>
    <2>1. {x \in Addresses : t.list[x] # <<>> \/ x = 0} = {x \in Addresses : t.list[x] # <<>> \/ x = a}
      BY <1>1, <1>2
    <2>2. Midway(t, a)
      BY <2>1 DEF Midway
    <2> QED
      BY <1>2, <2>2 DEF Announce, Reached
  <1>3. CASE t.list[a] = <<>>
    <2>1. PICK old, place : old = t.facets /\ place = t.facetPos
      OBVIOUS
    <2>2. ToSet(old) = {x \in Addresses : t.list[x] # <<>>}
      BY <1>1, <2>1 DEF Midway
    <2>3. Indexed(Addresses, old, place)
      BY <2>1 DEF Indexed, Tables, Midway
    <2>4. a \in Addresses /\ a \notin ToSet(old)
      BY <1>3, <2>2
    <2>5. PICK facets, pos : facets = Append(old, a) /\ pos = [place EXCEPT ![a] = Len(old)]
      OBVIOUS
    <2>6. /\ Indexed(Addresses, Append(old, a), [place EXCEPT ![a] = Len(old)])
          /\ ToSet(Append(old, a)) = ToSet(old) \cup {a}
      BY ONLY <2>3, <2>4, AppendInPlace
    <2>7. /\ facets \in Seq(Addresses) /\ pos \in [Addresses -> Nat] /\ InPlace(facets, pos)
          /\ ToSet(facets) = ToSet(old) \cup {a}
      BY <2>5, <2>6 DEF Indexed
    <2>8. PICK v : v = [t EXCEPT !.facetPos = pos]
      OBVIOUS
    <2>9. v \in Tables /\ v.facets = old /\ v.list = t.list /\ v.posOf = t.posOf
          /\ v.facetOf = t.facetOf /\ v.facetPos = pos
      BY <2>1, <2>7, <2>8 DEF Tables
    <2>10. PICK u : u = [v EXCEPT !.facets = facets]
      OBVIOUS
    <2>11. u \in Tables /\ u.facets = facets /\ u.list = t.list /\ u.posOf = t.posOf
           /\ u.facetOf = t.facetOf /\ u.facetPos = pos
      BY <2>7, <2>9, <2>10 DEF Tables
    <2>12. Announce(t, a) = u
      BY <1>3, <2>1, <2>5, <2>8, <2>9, <2>10 DEF Announce, addFacet
    <2>13. Listed(u)
      BY <2>11 DEF Listed, Midway
    <2>14. ToSet(u.facets) = {x \in Addresses : u.list[x] # <<>> \/ x = a}
      BY <2>2, <2>7, <2>11
    <2>15. Midway(u, a)
      BY <2>7, <2>11, <2>13, <2>14 DEF Midway
    <2> QED
      BY <2>11, <2>12, <2>15 DEF Reached
  <1> QED
    BY <1>2, <1>3

LEMMA AddRound ==
    ASSUME NEW a \in Addresses, NEW t \in Reached(a), NEW s \in Selectors
    PROVE  /\ AddOne(t, a, s) \in Reached(a)
           /\ AddOne(t, a, s).ok => AddOne(t, a, s).list[a] # <<>>
  <1>1. t \in Tables /\ (t.ok => Midway(t, a))
    BY DEF Reached
  <1>2. CASE ~t.ok \/ t.facetOf[s] # 0
    BY <1>1, <1>2, RefuseTable DEF AddOne, Reached
  <1>3. CASE t.ok /\ t.facetOf[s] = 0
    <2>1. AddOne(t, a, s) = addFunction(t, s, a)
      BY <1>3 DEF AddOne
    <2> QED
      BY <1>1, <1>3, <2>1, AddKeeps DEF Reached
  <1> QED
    BY <1>2, <1>3

LEMMA ReplaceRound ==
    ASSUME NEW a \in Addresses, NEW t \in Reached(a), NEW s \in Selectors
    PROVE  /\ ReplaceOne(t, a, s) \in Reached(a)
           /\ ReplaceOne(t, a, s).ok => ReplaceOne(t, a, s).list[a] # <<>>
  <1>1. t \in Tables /\ (t.ok => Midway(t, a))
    BY DEF Reached
  <1>2. CASE ~t.ok \/ t.facetOf[s] \in {0, a}
    BY <1>1, <1>2, RefuseTable DEF ReplaceOne, Reached
  <1>3. CASE t.ok /\ t.facetOf[s] \notin {0, a}
    <2>1. PICK u : u = removeFunction(t, s)
      OBVIOUS
    <2>2. u \in Tables /\ Midway(u, a) /\ u.facetOf[s] = 0
      BY <1>1, <1>3, <2>1, RemoveKeeps
    <2>3. ReplaceOne(t, a, s) = addFunction(u, s, a)
      BY <1>3, <2>1 DEF ReplaceOne
    <2> QED
      BY <2>2, <2>3, AddKeeps DEF Reached
  <1> QED
    BY <1>2, <1>3

LEMMA RemoveRound ==
    ASSUME NEW t \in Reached(0), NEW s \in Selectors
    PROVE  RemoveOne(t, s) \in Reached(0)
  <1>1. t \in Tables /\ (t.ok => Midway(t, 0))
    BY DEF Reached
  <1>2. CASE ~t.ok
    BY <1>2 DEF RemoveOne
  <1>3. CASE t.ok /\ t.facetOf[s] = 0
    <2>1. RemoveOne(t, s) = Refuse(t)
      BY <1>3 DEF RemoveOne, removeFunction
    <2> QED
      BY <1>1, <2>1, RefuseTable DEF Reached
  <1>4. CASE t.ok /\ t.facetOf[s] # 0
    <2>1. RemoveOne(t, s) = removeFunction(t, s)
      BY <1>4 DEF RemoveOne
    <2>2. removeFunction(t, s) \in Tables /\ Midway(removeFunction(t, s), 0)
      BY <1>1, <1>4, RemoveKeeps
    <2> QED
      BY <2>1, <2>2 DEF Reached
  <1> QED
    BY <1>2, <1>3, <1>4

\* A facet that has a selector is in the list with the others.
LEMMA AllListed ==
    ASSUME NEW t, NEW a, t \in Reached(a), t.ok => t.list[a] # <<>>
    PROVE  t \in Reached(0)
  <1>1. \A x \in Addresses : x # 0
    BY AddressesAreNat
  <1>2. ASSUME t.ok PROVE Midway(t, 0)
    <2>1. Midway(t, a) /\ t.list[a] # <<>>
      BY <1>2 DEF Reached
    <2>2. {x \in Addresses : t.list[x] # <<>> \/ x = 0} = {x \in Addresses : t.list[x] # <<>> \/ x = a}
      BY <1>1, <2>1
    <2> QED
      BY <2>1, <2>2 DEF Midway
  <1> QED
    BY <1>2 DEF Reached

Cut == [action : {"Add", "Replace", "Remove"}, facet : 0..MaxAddress, selectors : Seq(Selectors)]

LEMMA addFunctionsKeeps ==
    ASSUME NEW t \in Reached(0), t.ok, NEW a \in 0..MaxAddress, NEW selectors \in Seq(Selectors)
    PROVE  addFunctions(t, a, selectors) \in Reached(0)
  <1>1. t \in Tables /\ Midway(t, 0)
    BY DEF Reached
  <1>2. CASE a = 0 \/ selectors = <<>>
    BY <1>1, <1>2, RefuseTable DEF addFunctions, Reached
  <1>3. CASE a # 0 /\ selectors # <<>>
    <2>1. a \in Addresses
      BY <1>3, AddressesAreNat
    <2>2. PICK base \in Reached(a) : base = Announce(t, a)
      BY <1>1, <2>1, AnnounceKeeps
    <2>3. \A d \in Reached(a), s \in Selectors : AddOne(d, a, s) \in Reached(a)
      BY <2>1, AddRound
    <2>4. PICK u : u = AllAdded(a, base, selectors)
      OBVIOUS
    <2>5. u \in Reached(a) /\ \E d \in Reached(a), s \in Selectors : u = AddOne(d, a, s)
      <3>1. PICK D, x, seq : D = Reached(a) /\ x = base /\ seq = selectors
        OBVIOUS
      <3>2. \A d \in D, s \in Selectors : AddOne(d, a, s) \in D
        BY <2>3, <3>1
      <3>3. x \in D /\ seq \in Seq(Selectors) /\ seq # <<>>
        BY <1>3, <3>1
      <3>4. AllAdded(a, x, seq) \in D /\ AddLast(a, x, seq, D, Selectors)
        BY ONLY <3>2, <3>3, AddFold
      <3> QED
        BY <2>4, <3>1, <3>3, <3>4 DEF AddLast
    <2>6. u.ok => u.list[a] # <<>>
      BY <2>1, <2>5, AddRound
    <2>7. addFunctions(t, a, selectors) = u
      BY <1>3, <2>2, <2>4 DEF addFunctions, AllAdded
    <2> QED
      BY <2>5, <2>6, <2>7, AllListed
  <1> QED
    BY <1>2, <1>3

LEMMA replaceFunctionsKeeps ==
    ASSUME NEW t \in Reached(0), t.ok, NEW a \in 0..MaxAddress, NEW selectors \in Seq(Selectors)
    PROVE  replaceFunctions(t, a, selectors) \in Reached(0)
  <1>1. t \in Tables /\ Midway(t, 0)
    BY DEF Reached
  <1>2. CASE a = 0 \/ selectors = <<>>
    BY <1>1, <1>2, RefuseTable DEF replaceFunctions, Reached
  <1>3. CASE a # 0 /\ selectors # <<>>
    <2>1. a \in Addresses
      BY <1>3, AddressesAreNat
    <2>2. PICK base \in Reached(a) : base = Announce(t, a)
      BY <1>1, <2>1, AnnounceKeeps
    <2>3. \A d \in Reached(a), s \in Selectors : ReplaceOne(d, a, s) \in Reached(a)
      BY <2>1, ReplaceRound
    <2>4. PICK u : u = AllReplaced(a, base, selectors)
      OBVIOUS
    <2>5. u \in Reached(a) /\ \E d \in Reached(a), s \in Selectors : u = ReplaceOne(d, a, s)
      <3>1. PICK D, x, seq : D = Reached(a) /\ x = base /\ seq = selectors
        OBVIOUS
      <3>2. \A d \in D, s \in Selectors : ReplaceOne(d, a, s) \in D
        BY <2>3, <3>1
      <3>3. x \in D /\ seq \in Seq(Selectors) /\ seq # <<>>
        BY <1>3, <3>1
      <3>4. AllReplaced(a, x, seq) \in D /\ ReplaceLast(a, x, seq, D, Selectors)
        BY ONLY <3>2, <3>3, ReplaceFold
      <3> QED
        BY <2>4, <3>1, <3>3, <3>4 DEF ReplaceLast
    <2>6. u.ok => u.list[a] # <<>>
      BY <2>1, <2>5, ReplaceRound
    <2>7. replaceFunctions(t, a, selectors) = u
      BY <1>3, <2>2, <2>4 DEF replaceFunctions, AllReplaced
    <2> QED
      BY <2>5, <2>6, <2>7, AllListed
  <1> QED
    BY <1>2, <1>3

LEMMA removeFunctionsKeeps ==
    ASSUME NEW t \in Reached(0), t.ok, NEW a \in 0..MaxAddress, NEW selectors \in Seq(Selectors)
    PROVE  removeFunctions(t, a, selectors) \in Reached(0)
  <1>1. t \in Tables
    BY DEF Reached
  <1>2. CASE a # 0 \/ selectors = <<>>
    BY <1>1, <1>2, RefuseTable DEF removeFunctions, Reached
  <1>3. CASE a = 0 /\ selectors # <<>>
    <2>1. \A d \in Reached(0), s \in Selectors : RemoveOne(d, s) \in Reached(0)
      BY RemoveRound
    <2>2. FoldLeft(RemoveOne, t, selectors) \in Reached(0)
      BY <2>1, RemoveFold
    <2> QED
      BY <1>3, <2>2 DEF removeFunctions
  <1> QED
    BY <1>2, <1>3

LEMMA CutKeeps ==
    ASSUME NEW t \in Reached(0), NEW cut \in Cut
    PROVE  ApplyCut(t, cut) \in Reached(0)
  <1>1. cut.facet \in 0..MaxAddress /\ cut.selectors \in Seq(Selectors)
        /\ cut.action \in {"Add", "Replace", "Remove"}
    BY DEF Cut
  <1>2. CASE ~t.ok
    BY <1>2 DEF ApplyCut
  <1>3. CASE t.ok /\ cut.action = "Add"
    BY <1>1, <1>3, addFunctionsKeeps DEF ApplyCut
  <1>4. CASE t.ok /\ cut.action = "Replace"
    BY <1>1, <1>4, replaceFunctionsKeeps DEF ApplyCut
  <1>5. CASE t.ok /\ cut.action = "Remove"
    BY <1>1, <1>5, removeFunctionsKeeps DEF ApplyCut
  <1> QED
    BY <1>1, <1>2, <1>3, <1>4, <1>5

\* Any transaction of cuts that is not refused leaves the table consistent.
LEMMA diamondCutKeeps ==
    ASSUME NEW t \in Reached(0), NEW cuts \in Seq(Cut)
    PROVE  diamondCut(t, cuts) \in Reached(0)
  <1>1. \A d \in Reached(0), cut \in Cut : ApplyCut(d, cut) \in Reached(0)
    BY CutKeeps
  <1> QED
    BY <1>1, CutFold
-----------------------------------------------------------------------------
(* What a script has left to do.                                           *)

Manifests ==
    [diamond : BOOLEAN,
     facets : [Facets -> [address : 0..MaxAddress, selectors : SUBSET Selectors]],
     markets : SUBSET Nat, upgrades : SUBSET (Modes \cup {"V2"}), verified : SUBSET (0..MaxAddress)]

Symbols == ToSet(InitialMarkets) \cup ToSet(NewMarkets)
Market == [symbol : Symbols, price : BOOLEAN, pool : BOOLEAN]

\* Effects that create no market to be listed.
Setup ==
    [do : {"cut", "save", "verify", "check roles", "post a test price", "ask the explorer"}]
    \cup [do : {"facet"}, facet : Facets, which : {"all", "unrouted", "unknown"}]
    \cup [do : {"upgrade"}, facet : Facets, mode : Modes \cup {"V2"}]
    \cup [do : {"set"}, what : {"roles", "fees", "staleness", "robustness"}]
    \cup [do : {"impl"}, impl : {"UserVault", "TradingAccount"}]
    \cup [do : {"accept", "fund"}, token : ToSet(Tokens)]
    \cup [do : {"market"}, symbol : Symbols, how : {"or go on", "or die"}]

Planned == Setup \cup [do : {"market"}, symbol : Symbols, how : {"and list"}]
First == [do : {"diamond"}]
\* What the creation of a market to be listed puts in front.
Listing == [do : {"price", "pool"}, id : Nat \ {0}, symbol : Symbols]
Effects == Planned \cup First \cup Listing

ScriptStates ==
    [name : Names \cup {"upgrade-facet", "none"}, todo : Seq(Effects), mem : Manifests,
     cuts : Seq(Cut), known : SUBSET Selectors, sent : BOOLEAN]

\* Without a diamond on record nothing is listed.
Later(s) == IF s.mem.diamond THEN Planned ELSE Setup

\* The diamond comes first, and only over a manifest that knows none; a
\* market that is about to be priced exists, one about to get a pool has a price.
TodoSound(s, mkts, saved) ==
    s.todo # <<>> =>
        /\ Tail(s.todo) \in Seq(Later(s))
        /\ \/ Head(s.todo) \in Later(s)
           \/ /\ Head(s.todo) \in First
              /\ ~s.mem.diamond /\ ~saved.diamond
              /\ s.mem.markets = {} /\ saved.markets = {}
           \/ /\ Head(s.todo) \in Listing
              /\ s.mem.diamond
              /\ Head(s.todo).id \in DOMAIN mkts
              /\ Head(s.todo).do = "pool" => mkts[Head(s.todo).id].price

\* A manifest lists markets that have a pool, of a diamond it knows.
ListsPools(manifest, mkts) ==
    /\ \A id \in manifest.markets : id \in DOMAIN mkts /\ mkts[id].pool
    /\ manifest.markets # {} => manifest.diamond

ScriptSound(s, mkts, saved) ==
    s \in ScriptStates /\ TodoSound(s, mkts, saved) /\ ListsPools(s.mem, mkts)

MarketsSound(mkts) == mkts \in Seq(Market) /\ \A id \in DOMAIN mkts : mkts[id].pool => mkts[id].price

-----------------------------------------------------------------------------
(* The programs.                                                           *)

LEMMA SeqByElements ==
    ASSUME NEW E, NEW S, NEW seq \in Seq(E), \A i \in 1..Len(seq) : seq[i] \in S
    PROVE  seq \in Seq(S)
  <1>1. Len(seq) \in Nat /\ seq \in [1..Len(seq) -> E]
    BY LenProperties
  <1>2. seq \in [1..Len(seq) -> S]
    BY <1>1
  <1> QED
    BY <1>1, <1>2, SeqDef

LEMMA Joined == \A S : \A p, q \in Seq(S) : p \o q \in Seq(S)
  BY ConcatProperties

LEMMA TailInPlace ==
    ASSUME NEW S, NEW p, p \in Seq(S), p # <<>>
    PROVE  /\ Head(p) \in S /\ Tail(p) \in Seq(S)
           /\ Len(p) \in Nat \ {0} /\ Len(Tail(p)) = Len(p) - 1
           /\ Head(p) = p[1]
           /\ \A i \in 1..(Len(p) - 1) : Tail(p)[i] = p[i + 1]
  BY HeadTailProperties, EmptySeq DEF Head

\* A program that deploys a diamond first, and lists no market then.
LeadsOff(p) == p \in Seq(Effects) /\ p # <<>> /\ Head(p) \in First /\ Tail(p) \in Seq(Setup)

LEMMA EffectsPlanned == Setup \subseteq Planned /\ Planned \subseteq Effects /\ First \subseteq Effects
  BY DEF Planned, Effects

LEMMA LeadJoined ==
    ASSUME NEW p, LeadsOff(p), NEW q \in Seq(Setup)
    PROVE  LeadsOff(p \o q)
  <1>1. p \in Seq(Effects) /\ p # <<>> /\ Tail(p) \in Seq(Setup) /\ Head(p) \in First
    BY DEF LeadsOff
  <1>2. q \in Seq(Effects)
    BY EffectsPlanned, SeqMonotonic
  <1>3. PICK n, m : n = Len(p) /\ m = Len(q) /\ n \in Nat \ {0} /\ m \in Nat
    <2>1. Len(p) \in Nat \ {0}
      BY <1>1, EmptySeq
    <2>2. Len(q) \in Nat
      BY <1>2, LenProperties
    <2> QED
      BY <2>1, <2>2
  <1>4. PICK r : r = p \o q
    OBVIOUS
  <1>5. /\ r \in Seq(Effects) /\ Len(r) = n + m
        /\ \A i \in 1..(n + m) : r[i] = IF i <= n THEN p[i] ELSE q[i - n]
    BY <1>1, <1>2, <1>3, <1>4, ConcatProperties
  <1>6. r # <<>>
    BY <1>3, <1>5, EmptySeq
  <1>7. Head(r) = Head(p)
    <2>1. Head(r) = r[1] /\ Head(p) = p[1]
      BY <1>1, <1>5, <1>6, TailInPlace
    <2>2. r[1] = p[1]
      BY <1>3, <1>5
    <2> QED
      BY <2>1, <2>2
  <1>8. /\ Tail(r) \in Seq(Effects) /\ Len(Tail(r)) = n + m - 1
        /\ \A i \in 1..(n + m - 1) : Tail(r)[i] = r[i + 1]
    BY <1>3, <1>5, <1>6, TailInPlace
  <1>9. Len(Tail(p)) = n - 1 /\ \A i \in 1..(n - 1) : Tail(p)[i] = p[i + 1] /\ Tail(p)[i] \in Setup
    <2>1. Len(Tail(p)) = n - 1 /\ \A i \in 1..(n - 1) : Tail(p)[i] = p[i + 1]
      BY <1>1, <1>3, TailInPlace
    <2>2. \A i \in 1..Len(Tail(p)) : Tail(p)[i] \in Setup
      BY <1>1, ElementOfSeq
    <2> QED
      BY <2>1, <2>2
  <1>10. \A i \in 1..m : q[i] \in Setup
    BY <1>3, ElementOfSeq
  <1>11. \A i \in 1..(n + m - 1) : Tail(r)[i] \in Setup
    <2> TAKE i \in 1..(n + m - 1)
    <2>1. PICK j \in 1..(n + m) : j = i + 1
      BY <1>3
    <2>2. Tail(r)[i] = r[j] /\ r[j] = IF j <= n THEN p[j] ELSE q[j - n]
      BY <1>5, <1>8, <2>1
    <2>3. CASE j <= n
      <3>1. i \in 1..(n - 1)
        BY <1>3, <2>1, <2>3
      <3>2. Tail(p)[i] = p[j] /\ Tail(p)[i] \in Setup
        BY <1>9, <2>1, <3>1
      <3> QED
        BY <2>2, <2>3, <3>2
    <2>4. CASE ~(j <= n)
      <3>1. PICK k \in 1..m : k = j - n
        BY <1>3, <2>1, <2>4
      <3> QED
        BY <1>10, <2>2, <2>4, <3>1
    <2> QED
      BY <2>3, <2>4
  <1>12. Tail(r) \in Seq(Setup)
    <2>1. PICK t : t = Tail(r)
      OBVIOUS
    <2> QED
      BY <1>8, <1>11, <2>1, SeqByElements
  <1> QED
    BY <1>1, <1>4, <1>5, <1>6, <1>7, <1>12 DEF LeadsOff

\* A list of effects, one for each name of a list.
LEMMA ListOfEffects ==
    ASSUME NEW n \in Nat, NEW S, NEW f, f = [i \in 1..n |-> f[i]], \A i \in 1..n : f[i] \in S
    PROVE  f \in Seq(S)
  <1>1. f \in [1..n -> S]
    OBVIOUS
  <1> QED
    BY <1>1, SeqDef

FacetList(names) == Len(names) \in Nat /\ \A i \in 1..Len(names) : names[i] \in Facets

LEMMA FacetLists ==
    \A names \in {CoreFacets, TradingFacets, PricingFacets, SupportFacets, UpdatedFacets, NewFacets} :
        FacetList(names)
  <1>1. \A names \in {CoreFacets, TradingFacets, PricingFacets, SupportFacets, UpdatedFacets, NewFacets} :
           names \in Seq(Facets)
    BY DeploymentAssumption
  <1>2. \A names \in Seq(Facets) : Len(names) \in Nat /\ \A i \in 1..Len(names) : names[i] \in Facets
    BY LenProperties, ElementOfSeq
  <1> QED
    BY <1>1, <1>2 DEF FacetList

LEMMA DeploysArePlanned ==
    ASSUME NEW names, FacetList(names), NEW which \in {"all", "unrouted", "unknown"}
    PROVE  DeployFacets(names, which) \in Seq(Setup)
  <1>1. PICK f : f = DeployFacets(names, which)
    OBVIOUS
  <1>2. \A i \in 1..Len(names) : names[i] \in Facets
    BY DEF FacetList
  <1>3. f = [i \in 1..Len(names) |-> f[i]] /\ \A i \in 1..Len(names) : f[i] \in Setup
    BY <1>1, <1>2 DEF DeployFacets, Setup
  <1> QED
    BY <1>1, <1>3, ListOfEffects DEF FacetList

LEMMA UpgradesArePlanned ==
    ASSUME NEW names, FacetList(names), NEW mode \in Modes \cup {"V2"}
    PROVE  Upgrades(names, mode) \in Seq(Setup)
  <1>1. PICK f : f = Upgrades(names, mode)
    OBVIOUS
  <1>2. \A i \in 1..Len(names) : names[i] \in Facets
    BY DEF FacetList
  <1>3. f = [i \in 1..Len(names) |-> f[i]] /\ \A i \in 1..Len(names) : f[i] \in Setup
    BY <1>1, <1>2 DEF Upgrades, Setup
  <1> QED
    BY <1>1, <1>3, ListOfEffects DEF FacetList

LEMMA MarketsArePlanned ==
    ASSUME NEW symbols \in {InitialMarkets, NewMarkets}
    PROVE  /\ \A how \in {"or go on", "or die"} : Markets(symbols, how) \in Seq(Setup)
           /\ Markets(symbols, "and list") \in Seq(Planned)
  <1>1. symbols \in Seq(ToSet(symbols))
    BY DeploymentAssumption
  <1>2. Len(symbols) \in Nat /\ \A i \in 1..Len(symbols) : symbols[i] \in Symbols
    BY <1>1, EntryOf DEF Symbols
  <1>3. ASSUME NEW how \in {"or go on", "or die"}
        PROVE  Markets(symbols, how) \in Seq(Setup)
    <2>1. PICK f : f = Markets(symbols, how)
      OBVIOUS
    <2>2. f = [i \in 1..Len(symbols) |-> f[i]] /\ \A i \in 1..Len(symbols) : f[i] \in Setup
      BY <1>2, <2>1 DEF Markets, Setup
    <2> QED
      BY <1>2, <2>1, <2>2, ListOfEffects
  <1>4. Markets(symbols, "and list") \in Seq(Planned)
    <2>1. PICK f : f = Markets(symbols, "and list")
      OBVIOUS
    <2>2. f = [i \in 1..Len(symbols) |-> f[i]] /\ \A i \in 1..Len(symbols) : f[i] \in Planned
      BY <1>2, <2>1 DEF Markets, Planned
    <2> QED
      BY <1>2, <2>1, <2>2, ListOfEffects
  <1> QED
    BY <1>3, <1>4

LEMMA EachIsPlanned ==
    ASSUME NEW effect \in {"accept", "fund"}
    PROVE  Each(effect) \in Seq(Setup)
  <1>1. Tokens \in Seq(ToSet(Tokens))
    BY DeploymentAssumption
  <1>2. Len(Tokens) \in Nat /\ \A i \in 1..Len(Tokens) : Tokens[i] \in ToSet(Tokens)
    BY <1>1, EntryOf
  <1>3. PICK f : f = Each(effect)
    OBVIOUS
  <1>4. f = [i \in 1..Len(Tokens) |-> f[i]] /\ \A i \in 1..Len(Tokens) : f[i] \in Setup
    BY <1>2, <1>3 DEF Each, Setup
  <1> QED
    BY <1>2, <1>3, <1>4, ListOfEffects

LEMMA SingleIsPlanned == \A effect \in Setup : <<effect>> \in Seq(Setup)
  OBVIOUS

LEMMA DoIsPlanned ==
    /\ \A effect \in {"cut", "save", "verify", "check roles", "post a test price", "ask the explorer"} :
          <<Do(effect)>> \in Seq(Setup)
    /\ \A what \in {"roles", "fees", "staleness", "robustness"} : Set(what) \in Setup
    /\ \A x \in {"UserVault", "TradingAccount"} : [do |-> "impl", impl |-> x] \in Setup
  <1>1. \A effect \in {"cut", "save", "verify", "check roles", "post a test price", "ask the explorer"} :
           Do(effect) \in Setup
    BY DEF Do, Setup
  <1>2. /\ \A what \in {"roles", "fees", "staleness", "robustness"} : Set(what) \in Setup
        /\ \A x \in {"UserVault", "TradingAccount"} : [do |-> "impl", impl |-> x] \in Setup
    BY DEF Set, Setup
  <1> QED
    BY <1>1, <1>2, SingleIsPlanned

LEMMA StepsArePlanned ==
    /\ Step02 \in Seq(Setup) /\ Step03 \in Seq(Setup) /\ Step04 \in Seq(Setup)
    /\ Step05 \in Seq(Setup) /\ Step06 \in Seq(Setup) /\ Step07 \in Seq(Setup) /\ Step08 \in Seq(Setup)
  <1>1. SendCuts \in Seq(Setup) /\ Save \in Seq(Setup) /\ Verify \in Seq(Setup)
    BY DoIsPlanned DEF SendCuts, Save, Verify
  <1>2. Step02 \in Seq(Setup) /\ Step03 \in Seq(Setup) /\ Step04 \in Seq(Setup)
    <2>1. \A names \in {TradingFacets, PricingFacets, SupportFacets} :
             DeployFacets(names, "unrouted") \in Seq(Setup)
      BY FacetLists, DeploysArePlanned
    <2> QED
      BY <1>1, <2>1, Joined DEF Step02, Step03, Step04
  <1>3. Step05 \in Seq(Setup)
    <2>1. <<[do |-> "impl", impl |-> "UserVault"]>> \in Seq(Setup)
      BY DoIsPlanned, SingleIsPlanned
    <2> QED
      BY <1>1, <2>1, Joined DEF Step05
  <1>4. Step06 \in Seq(Setup)
    <2>1. <<Set("roles"), Set("fees"), Set("staleness")>> \in Seq(Setup)
      <3>1. Set("roles") \in Setup /\ Set("fees") \in Setup /\ Set("staleness") \in Setup
        BY DoIsPlanned
      <3> QED
        BY <3>1
    <2>2. Markets(InitialMarkets, "or go on") \in Seq(Setup)
      BY MarketsArePlanned
    <2> QED
      BY <1>1, <2>1, <2>2, Joined DEF Step06
  <1>5. Step07 \in Seq(Setup)
    BY <1>1, EachIsPlanned, Joined DEF Step07
  <1>6. Step08 \in Seq(Setup)
    <2>1. <<Do("check roles")>> \in Seq(Setup)
      BY DoIsPlanned
    <2> QED
      BY <1>1, <2>1, EachIsPlanned, Joined DEF Step08
  <1> QED
    BY <1>2, <1>3, <1>4, <1>5, <1>6

LEMMA UpgradesPlanned ==
    /\ \A n \in Facets, mode \in Modes : UpgradeFacet(n, mode) \in Seq(Setup)
    /\ UpgradeV2 \in Seq(Setup)
    /\ DiagnoseOracle \in Seq(Setup) /\ VerifyContracts \in Seq(Setup)
  <1>1. SendCuts \in Seq(Setup) /\ Save \in Seq(Setup) /\ Verify \in Seq(Setup)
    BY DoIsPlanned DEF SendCuts, Save, Verify
  <1>2. ASSUME NEW n \in Facets, NEW mode \in Modes
        PROVE  UpgradeFacet(n, mode) \in Seq(Setup)
    <2>1. FacetList(<<n>>)
      BY DEF FacetList
    <2>2. Upgrades(<<n>>, mode) \in Seq(Setup)
      BY <2>1, UpgradesArePlanned
    <2> QED
      BY <1>1, <2>2, Joined DEF UpgradeFacet
  <1>3. UpgradeV2 \in Seq(Setup)
    <2>1. Upgrades(UpdatedFacets, "V2") \in Seq(Setup)
      BY FacetLists, UpgradesArePlanned
    <2>2. DeployFacets(NewFacets, "unrouted") \in Seq(Setup)
      BY FacetLists, DeploysArePlanned
    <2>3. UpgradeV2Setup \in Seq(Setup)
      <3>1. [do |-> "impl", impl |-> "TradingAccount"] \in Setup /\ Set("robustness") \in Setup
        BY DoIsPlanned
      <3> QED
        BY <3>1 DEF UpgradeV2Setup
    <2> QED
      BY <1>1, <2>1, <2>2, <2>3, Joined DEF UpgradeV2
  <1>4. DiagnoseOracle \in Seq(Setup) /\ VerifyContracts \in Seq(Setup)
    <2>1. <<Do("post a test price")>> \in Seq(Setup) /\ <<Do("ask the explorer")>> \in Seq(Setup)
      BY DoIsPlanned
    <2> QED
      BY <1>1, <2>1, Joined DEF DiagnoseOracle, VerifyContracts
  <1> QED
    BY <1>2, <1>3, <1>4

LEMMA FirstStepsLeadOff == LeadsOff(Step01) /\ LeadsOff(DeployAll)
  <1>1. LeadsOff(<<Do("diamond")>>)
    <2>1. Do("diamond") \in First /\ Do("diamond") \in Effects
      BY DEF Do, First, Effects
    <2>2. PICK e : e = Do("diamond")
      OBVIOUS
    <2>3. <<e>> \in Seq(Effects) /\ <<e>> # <<>> /\ Head(<<e>>) = e /\ Tail(<<e>>) \in Seq(Setup)
      BY <2>1, <2>2
    <2> QED
      BY <2>1, <2>2, <2>3 DEF LeadsOff
  <1>2. SendCuts \in Seq(Setup) /\ Save \in Seq(Setup) /\ Verify \in Seq(Setup)
    BY DoIsPlanned DEF SendCuts, Save, Verify
  <1>3. DeployFacets(CoreFacets, "all") \in Seq(Setup)
    BY FacetLists, DeploysArePlanned
  <1>4. DeployAllFacets("unknown") \in Seq(Setup)
    <2>1. \A names \in {TradingFacets, PricingFacets, SupportFacets} :
             DeployFacets(names, "unknown") \in Seq(Setup)
      BY FacetLists, DeploysArePlanned
    <2> QED
      BY <1>2, <2>1, Joined DEF DeployAllFacets
  <1>5. DeployAllSetup \in Seq(Setup)
    <2>1. Set("roles") \in Setup /\ Set("fees") \in Setup /\ Set("staleness") \in Setup
          /\ [do |-> "impl", impl |-> "UserVault"] \in Setup
      BY DoIsPlanned
    <2>2. <<[do |-> "impl", impl |-> "UserVault"], Set("roles"), Set("fees"), Set("staleness")>> \in Seq(Setup)
      BY <2>1
    <2>3. Markets(InitialMarkets, "or die") \in Seq(Setup)
      BY MarketsArePlanned
    <2> QED
      BY <2>2, <2>3, Joined DEF DeployAllSetup
  <1>6. \A p : LeadsOff(p) => \A q \in Seq(Setup) : LeadsOff(p \o q)
    BY LeadJoined
  <1>7. LeadsOff(Step01)
    BY <1>1, <1>2, <1>3, <1>6 DEF Step01
  <1>8. LeadsOff(DeployAll)
    BY <1>1, <1>2, <1>3, <1>4, <1>5, <1>6 DEF DeployAll
  <1> QED
    BY <1>7, <1>8

LEMMA Step09IsPlanned == Step09 \in Seq(Planned)
  <1>1. <<Do("check roles")>> \in Seq(Planned) /\ Save \in Seq(Planned)
    BY DoIsPlanned, EffectsPlanned, SeqMonotonic DEF Save
  <1>2. Markets(NewMarkets, "and list") \in Seq(Planned)
    BY MarketsArePlanned
  <1> QED
    BY <1>1, <1>2, Joined DEF Step09

LEMMA ProgramsPlanned ==
    ASSUME NEW run \in Runs
    PROVE  /\ run.script \in Names \cup {"upgrade-facet"}
           /\ run.script \in {"01", "deploy-all"} => LeadsOff(Program(run))
           /\ run.script \notin {"01", "deploy-all"} => Program(run) \in Seq(Planned)
  <1>1. run \in [script : Names] \cup [script : {"upgrade-facet"}, facet : Facets, mode : Modes]
    BY DeploymentAssumption
  <1>2. \A p \in Seq(Setup) : p \in Seq(Planned)
    BY EffectsPlanned, SeqMonotonic
  <1>3. run.script \in Names \cup {"upgrade-facet"}
    BY <1>1
  <1>4. CASE run.script = "upgrade-facet"
    <2>1. run.facet \in Facets /\ run.mode \in Modes
      BY <1>1, <1>4 DEF Names
    <2>2. Program(run) = UpgradeFacet(run.facet, run.mode)
      BY <1>4 DEF Program
    <2> QED
      BY <1>2, <1>3, <1>4, <2>1, <2>2, UpgradesPlanned
  <1>5. CASE run.script \in {"01", "deploy-all"}
    <2>1. Program(run) \in {Step01, DeployAll}
      BY <1>5 DEF Program
    <2> QED
      BY <1>3, <1>5, <2>1, FirstStepsLeadOff
  <1>6. CASE run.script \in Names \ {"01", "deploy-all"}
    <2>1. Program(run) \in {Step02, Step03, Step04, Step05, Step06, Step07, Step08, Step09,
                            UpgradeV2, DiagnoseOracle, VerifyContracts}
      BY <1>6 DEF Program, Names
    <2>2. Program(run) \in Seq(Planned)
      BY <1>2, <2>1, StepsArePlanned, Step09IsPlanned, UpgradesPlanned
    <2> QED
      BY <1>3, <1>6, <2>2
  <1> QED
    BY <1>3, <1>4, <1>5, <1>6

-----------------------------------------------------------------------------
(* One step of a script.                                                   *)

DeploymentInv ==
    /\ ds \in Reached(0) /\ ds.ok
    /\ contracts \in Seq(Facets) /\ release \in 1..2
    /\ MarketsSound(markets)
    /\ file \in Manifests /\ ListsPools(file, markets)
    /\ ScriptSound(script, markets, file)

LEMMA NoManifestSound == NoManifest \in Manifests /\ \A mkts : ListsPools(NoManifest, mkts)
  <1>1. 0 \in 0..MaxAddress
    BY AddressesAreNat
  <1>2. Unrecorded \in [address : 0..MaxAddress, selectors : SUBSET Selectors]
    BY <1>1 DEF Unrecorded
  <1>3. NoManifest \in Manifests
    BY <1>2 DEF NoManifest, Manifests
  <1>4. NoManifest.markets = {}
    BY DEF NoManifest
  <1> QED
    BY <1>3, <1>4 DEF ListsPools

\* No script runs.
LEMMA IdleSound == \A mkts, saved : ScriptSound(Idle, mkts, saved)
  <1>1. Idle.todo = <<>> /\ Idle.mem = NoManifest
    BY DEF Idle
  <1>2. Idle \in ScriptStates
    <2>1. <<>> \in Seq(Effects) /\ <<>> \in Seq(Cut)
      BY EmptySeq
    <2> QED
      BY <2>1, NoManifestSound DEF Idle, ScriptStates
  <1> QED
    BY <1>1, <1>2, NoManifestSound DEF ScriptSound, TodoSound

LEMMA LaterEffects == \A s : Later(s) \in {Planned, Setup}
  BY DEF Later

\* The script goes on to an effect it had planned.
LEMMA AfterSound ==
    ASSUME NEW s \in ScriptStates, NEW mkts, NEW saved,
           s.todo # <<>>, Tail(s.todo) \in Seq(Later(s)), ListsPools(s.mem, mkts)
    PROVE  ScriptSound(After(s), mkts, saved)
  <1>1. CASE Len(s.todo) = 1
    BY <1>1, IdleSound DEF After
  <1>2. CASE Len(s.todo) # 1
    <2>1. PICK rest, u : rest = Tail(s.todo) /\ u = [s EXCEPT !.todo = rest]
      OBVIOUS
    <2>2. s.todo \in Seq(Effects)
      BY DEF ScriptStates
    <2>3. rest \in Seq(Effects) /\ rest # <<>>
      <3>1. rest \in Seq(Effects) /\ Len(rest) = Len(s.todo) - 1 /\ Len(s.todo) \in Nat \ {0}
        BY <2>1, <2>2, TailInPlace
      <3>2. Len(rest) # 0
        BY <1>2, <3>1
      <3> QED
        BY <3>1, <3>2, EmptySeq
    <2>4. u \in ScriptStates /\ u.todo = rest /\ u.mem = s.mem
      BY <2>1, <2>3 DEF ScriptStates
    <2>5. Later(u) = Later(s)
      BY <2>4 DEF Later
    <2>6. PICK L : L = Later(s)
      OBVIOUS
    <2>7. Head(rest) \in L /\ Tail(rest) \in Seq(L)
      <3>1. rest \in Seq(L)
        BY <2>1, <2>6
      <3> QED
        BY <2>3, <3>1, TailInPlace
    <2>8. TodoSound(u, mkts, saved)
      BY <2>4, <2>5, <2>6, <2>7 DEF TodoSound
    <2>9. After(s) = u
      BY <1>2, <2>1 DEF After
    <2> QED
      BY <2>4, <2>8, <2>9 DEF ScriptSound
  <1> QED
    BY <1>1, <1>2

\* What a running script says of itself.
LEMMA Running ==
    ASSUME ScriptSound(script, markets, file), script.todo # <<>>
    PROVE  /\ script \in ScriptStates
           /\ Tail(script.todo) \in Seq(Later(script))
           /\ Head(script.todo) \in Effects
           /\ ListsPools(script.mem, markets)
  <1>1. script \in ScriptStates /\ TodoSound(script, markets, file) /\ ListsPools(script.mem, markets)
    BY DEF ScriptSound
  <1>2. script.todo \in Seq(Effects)
    BY <1>1 DEF ScriptStates
  <1>3. Head(script.todo) \in Effects
    BY <1>2, TailInPlace
  <1> QED
    BY <1>1, <1>3 DEF TodoSound

\* What an effect says of itself.
LEMMA EffectsTyped ==
    ASSUME NEW e \in Effects
    PROVE  /\ e.do = "facet" => e.facet \in Facets /\ e.which \in {"all", "unrouted", "unknown"}
           /\ e.do = "upgrade" => e.facet \in Facets /\ e.mode \in Modes \cup {"V2"}
           /\ e.do = "market" => e.symbol \in Symbols
           /\ e.do = "market" /\ e \notin Setup => e.how = "and list"
           /\ e.do \in {"price", "pool"} => e \in Listing
           /\ e.do = "diamond" => e \in First
           /\ e.do \notin {"diamond", "price", "pool"} => e \in Planned
  BY DEF Effects, Planned, Setup, First, Listing

\* Effects on which the script's plan does not depend: it goes on, or ends.
LEMMA GoesOn ==
    ASSUME DeploymentInv, script.todo # <<>>,
           script' = After(script) \/ script' = Idle,
           UNCHANGED markets
    PROVE  ScriptSound(script', markets', file')
  <1>1. script \in ScriptStates /\ Tail(script.todo) \in Seq(Later(script)) /\ ListsPools(script.mem, markets)
    BY Running DEF DeploymentInv
  <1>2. ScriptSound(After(script), markets, file')
    BY <1>1, AfterSound
  <1> QED
    BY <1>2, IdleSound

\* Effects that touch neither routes, markets nor the manifest.
LEMMA ElsewhereKeeps ==
    ASSUME DeploymentInv, script.todo # <<>>,
           script' = After(script) \/ script' = Idle,
           UNCHANGED <<ds, contracts, markets, release, file>>
    PROVE  DeploymentInv'
  <1>1. ScriptSound(script', markets', file')
    BY GoesOn
  <1> QED
    BY <1>1 DEF DeploymentInv

LEMMA ConfiguringKeeps ==
    ASSUME DeploymentInv,
           SetImplementation \/ Configure \/ CheckRoles \/ VerifyDiamondState
             \/ AcceptCollateral \/ FundVault
    PROVE  DeploymentInv'
  <1>1. ASSUME SetImplementation PROVE DeploymentInv'
    BY <1>1, ElsewhereKeeps DEF SetImplementation, At, Abort, Quiet
  <1>2. ASSUME Configure PROVE DeploymentInv'
    BY <1>2, ElsewhereKeeps DEF Configure, At, Abort, Quiet
  <1>3. ASSUME CheckRoles PROVE DeploymentInv'
    BY <1>3, ElsewhereKeeps DEF CheckRoles, At, Abort, Quiet, chain
  <1>4. ASSUME VerifyDiamondState PROVE DeploymentInv'
    BY <1>4, ElsewhereKeeps DEF VerifyDiamondState, At, Abort, Quiet, chain
  <1>5. ASSUME AcceptCollateral PROVE DeploymentInv'
    BY <1>5, ElsewhereKeeps DEF AcceptCollateral, At, Rest
  <1>6. ASSUME FundVault PROVE DeploymentInv'
    BY <1>6, ElsewhereKeeps DEF FundVault, At, Rest
  <1> QED
    BY <1>1, <1>2, <1>3, <1>4, <1>5, <1>6

\* The script's copy of the manifest is written, in what does not list markets.
LEMMA NotedSound ==
    ASSUME DeploymentInv, script.todo # <<>>, NEW s \in ScriptStates,
           s.todo = script.todo, s.mem.markets = script.mem.markets,
           s.mem.diamond = script.mem.diamond
    PROVE  ScriptSound(After(s), markets, file)
  <1>1. script \in ScriptStates /\ Tail(script.todo) \in Seq(Later(script)) /\ ListsPools(script.mem, markets)
    BY Running DEF DeploymentInv
  <1>2. Later(s) = Later(script)
    BY DEF Later
  <1>3. ListsPools(s.mem, markets)
    BY <1>1 DEF ListsPools
  <1> QED
    BY <1>1, <1>2, <1>3, AfterSound

LEMMA AskExplorerKeeps ==
    ASSUME DeploymentInv, AskExplorer
    PROVE  DeploymentInv'
  <1>1. script.todo # <<>> /\ script \in ScriptStates
    BY Running DEF AskExplorer, At, DeploymentInv
  <1>2. ASSUME NEW names \in SUBSET Facets, NEW s,
               s = [script EXCEPT !.mem.verified = {script.mem.facets[n].address : n \in names}]
        PROVE  ScriptSound(After(s), markets, file)
    <2>1. script.mem \in Manifests
      BY <1>1 DEF ScriptStates
    <2>2. PICK asked : asked = {script.mem.facets[n].address : n \in names}
      OBVIOUS
    <2>3. asked \in SUBSET (0..MaxAddress)
      <3>1. \A n \in Facets : script.mem.facets[n].address \in 0..MaxAddress
        BY <2>1 DEF Manifests
      <3> QED
        BY <2>2, <3>1
    <2>4. PICK mem : mem = [script.mem EXCEPT !.verified = asked]
      OBVIOUS
    <2>5. mem \in Manifests /\ mem.markets = script.mem.markets /\ mem.diamond = script.mem.diamond
      BY <2>1, <2>3, <2>4 DEF Manifests
    <2>6. s = [script EXCEPT !.mem = mem]
      BY <1>1, <1>2, <2>2, <2>4 DEF ScriptStates
    <2>7. s \in ScriptStates /\ s.todo = script.todo /\ s.mem = mem
      BY <1>1, <2>5, <2>6 DEF ScriptStates
    <2> QED
      BY <1>1, <2>5, <2>7, NotedSound
  <1>3. PICK names \in SUBSET Facets :
           script' = After([script EXCEPT !.mem.verified = {script.mem.facets[n].address : n \in names}])
    <2>1. PICK recorded : recorded = {n \in Explored : script.mem.facets[n].address # 0}
      OBVIOUS
    <2>2. recorded \in SUBSET Facets
      BY <2>1, DeploymentAssumption
    <2>3. \A n \in recorded : recorded \ {n} \in SUBSET Facets
      BY <2>2
    <2> QED
      BY <2>1, <2>2, <2>3 DEF AskExplorer
  <1>4. ScriptSound(script', markets, file)
    BY <1>2, <1>3
  <1>5. UNCHANGED <<ds, contracts, markets, release, file>>
    BY DEF AskExplorer, chain, Rest
  <1> QED
    BY <1>4, <1>5 DEF DeploymentInv

LEMMA OutsideKeeps ==
    ASSUME DeploymentInv, NewRelease \/ Crash \/ UNCHANGED vars
    PROVE  DeploymentInv'
  <1>1. ASSUME NewRelease PROVE DeploymentInv'
    BY <1>1 DEF NewRelease, chain, DeploymentInv
  <1>2. ASSUME Crash PROVE DeploymentInv'
    BY <1>2, IdleSound DEF Crash, chain, Rest, DeploymentInv
  <1>3. ASSUME UNCHANGED vars PROVE DeploymentInv'
    BY <1>3 DEF vars, chain, DeploymentInv
  <1> QED
    BY <1>1, <1>2, <1>3

LEMMA BeginKeeps ==
    ASSUME DeploymentInv, NEW run \in Runs, Begin(run)
    PROVE  DeploymentInv'
  <1>1. PICK p : p = Program(run)
    OBVIOUS
  <1>2. /\ run.script \in Names \cup {"upgrade-facet"}
        /\ run.script \in {"01", "deploy-all"} => LeadsOff(p)
        /\ run.script \notin {"01", "deploy-all"} => p \in Seq(Planned)
    BY <1>1, ProgramsPlanned
  <1>3. file \in Manifests /\ ListsPools(file, markets)
    BY DEF DeploymentInv
  <1>4. script' = [name |-> run.script, todo |-> p, mem |-> file, cuts |-> <<>>, known |-> {}, sent |-> FALSE]
    BY <1>1 DEF Begin, Idle
  <1>5. p \in Seq(Effects)
    BY <1>2, EffectsPlanned, SeqMonotonic DEF LeadsOff
  <1>6. script' \in ScriptStates
    <2>1. <<>> \in Seq(Cut)
      BY EmptySeq
    <2> QED
      BY <1>2, <1>3, <1>4, <1>5, <2>1 DEF ScriptStates
  <1>7. TodoSound(script', markets, file)
    <2>1. script'.todo = p /\ script'.mem = file
      BY <1>4
    <2>2. CASE run.script \in {"01", "deploy-all"}
      <3>1. ~file.diamond
        BY <2>2, <1>3 DEF Begin, Manifests
      <3>2. file.markets = {} /\ Later(script') = Setup
        BY <1>3, <2>1, <3>1 DEF ListsPools, Later
      <3> QED
        BY <1>2, <2>1, <2>2, <3>1, <3>2 DEF LeadsOff, TodoSound
    <2>3. CASE run.script \notin {"01", "deploy-all"}
      <3>1. file.diamond /\ p \in Seq(Planned)
        BY <1>2, <1>3, <2>3 DEF Begin, Manifests
      <3>2. Later(script') = Planned
        BY <2>1, <3>1 DEF Later
      <3>3. p # <<>> => Head(p) \in Planned /\ Tail(p) \in Seq(Planned)
        BY <3>1, TailInPlace
      <3> QED
        BY <2>1, <3>2, <3>3 DEF TodoSound
    <2> QED
      BY <2>2, <2>3
  <1>8. script'.mem = file
    BY <1>4
  <1>9. UNCHANGED <<ds, contracts, markets, release, file>>
    BY DEF Begin, chain
  <1> QED
    BY <1>3, <1>6, <1>7, <1>8, <1>9 DEF DeploymentInv, ScriptSound

\* What a list keeps of the selectors is again a list of selectors.
LEMMA KeptSelectors ==
    ASSUME NEW selectors \in Seq(Selectors), NEW set
    PROVE  OnlyIn(selectors, set) \in Seq(Selectors) /\ NotIn(selectors, set) \in Seq(Selectors)
  <1>1. \A x : OnlyIn(selectors, x) \in Seq(Selectors)
    <2> TAKE x
    <2>1. \A d \in Seq(Selectors), e \in Selectors : KeepIn(d, e, x) \in Seq(Selectors)
      BY AppendProperties DEF KeepIn
    <2>2. <<>> \in Seq(Selectors)
      BY EmptySeq
    <2> QED
      BY <2>1, <2>2, KeepFold
  <1> QED
    BY <1>1 DEF NotIn

\* One cut, or none when there are no selectors.
LEMMA OneCut ==
    ASSUME NEW action \in {"Add", "Replace", "Remove"}, NEW a \in 0..MaxAddress,
           NEW selectors \in Seq(Selectors)
    PROVE  CutOf(action, a, selectors) \in Seq(Cut)
  <1>1. PICK cut \in Cut : cut = [action |-> action, facet |-> a, selectors |-> selectors]
    BY DEF Cut
  <1>2. <<cut>> \in Seq(Cut) /\ <<>> \in Seq(Cut)
    BY EmptySeq
  <1> QED
    BY <1>1, <1>2 DEF CutOf

LEMMA CodeIsSelectors ==
    ASSUME release \in 1..2, NEW n \in Facets
    PROVE  SelectorsOf(n) \in Seq(Selectors)
  BY DeploymentAssumption DEF SelectorsOf

\* A contract is recorded in the script's copy of the manifest.
LEMMA Recorded ==
    ASSUME NEW mem \in Manifests, NEW n \in Facets, NEW a \in 0..MaxAddress,
           NEW selectors \in Seq(Selectors)
    PROVE  /\ recordFacet(mem, n, a, selectors) \in Manifests
           /\ recordFacet(mem, n, a, selectors).markets = mem.markets
           /\ recordFacet(mem, n, a, selectors).diamond = mem.diamond
           /\ recordFacet(mem, n, a, selectors).upgrades = mem.upgrades
  <1>1. ToSet(selectors) \in SUBSET Selectors
    BY EntryOf
  <1>2. PICK e : e = [address |-> a, selectors |-> ToSet(selectors)]
    OBVIOUS
  <1>3. e \in [address : 0..MaxAddress, selectors : SUBSET Selectors]
    BY <1>1, <1>2
  <1>4. PICK facets : facets = [mem.facets EXCEPT ![n] = e]
    OBVIOUS
  <1>5. facets \in [Facets -> [address : 0..MaxAddress, selectors : SUBSET Selectors]]
    BY <1>3, <1>4 DEF Manifests
  <1>6. recordFacet(mem, n, a, selectors) = [mem EXCEPT !.facets = facets]
    BY <1>2, <1>4 DEF recordFacet
  <1> QED
    BY <1>5, <1>6 DEF Manifests

\* The address of the next contract, while there is one.
LEMMA NextIsAddress ==
    ASSUME NextAddress \in Addresses
    PROVE  NextAddress \in 0..MaxAddress
  BY AddressesAreNat

LEMMA DeployFacetKeeps ==
    ASSUME DeploymentInv, DeployFacet
    PROVE  DeploymentInv'
  <1>1. script.todo # <<>> /\ Head(script.todo).do = "facet" /\ NextAddress \in Addresses
    BY DEF DeployFacet, At
  <1>2. script \in ScriptStates /\ Head(script.todo) \in Effects
    BY <1>1, Running DEF DeploymentInv
  <1>3. PICK n, which : n = Head(script.todo).facet /\ which = Head(script.todo).which
    OBVIOUS
  <1>4. n \in Facets /\ which \in {"all", "unrouted", "unknown"}
    BY <1>1, <1>2, <1>3, EffectsTyped
  <1>5. PICK selectors : selectors = Filtered(SelectorsOf(n), which)
    OBVIOUS
  <1>6. selectors \in Seq(Selectors)
    <2>1. SelectorsOf(n) \in Seq(Selectors)
      BY <1>4, CodeIsSelectors DEF DeploymentInv
    <2> QED
      BY <1>4, <1>5, <2>1, KeptSelectors DEF Filtered
  <1>7. PICK a \in 0..MaxAddress : a = NextAddress
    BY <1>1, NextIsAddress
  <1>8. PICK mem, known, cuts :
           /\ mem = recordFacet(script.mem, n, a, selectors)
           /\ known = script.known \cup ToSet(selectors)
           /\ cuts = script.cuts \o CutOf("Add", a, selectors)
    OBVIOUS
  <1>9. mem \in Manifests /\ mem.markets = script.mem.markets /\ mem.diamond = script.mem.diamond
    BY <1>2, <1>4, <1>6, <1>8, Recorded DEF ScriptStates
  <1>10. known \in SUBSET Selectors
    BY <1>2, <1>6, <1>8, EntryOf DEF ScriptStates
  <1>11. cuts \in Seq(Cut)
    <2>1. CutOf("Add", a, selectors) \in Seq(Cut)
      BY <1>6, OneCut
    <2> QED
      BY <1>2, <1>8, <2>1, Joined DEF ScriptStates
  <1>12. PICK s : s = [[[script EXCEPT !.mem = mem] EXCEPT !.known = known] EXCEPT !.cuts = cuts]
    OBVIOUS
  <1>13. s \in ScriptStates /\ s.todo = script.todo /\ s.mem = mem
    BY <1>2, <1>9, <1>10, <1>11, <1>12 DEF ScriptStates
  <1>14. script' = After(s)
    <2>1. script' = After([script EXCEPT
                  !.mem = recordFacet(@, n, NextAddress, selectors),
                  !.known = @ \cup ToSet(selectors),
                  !.cuts = @ \o CutOf("Add", NextAddress, selectors)])
      BY <1>3, <1>5 DEF DeployFacet
    <2>2. s = [script EXCEPT
                  !.mem = recordFacet(@, n, NextAddress, selectors),
                  !.known = @ \cup ToSet(selectors),
                  !.cuts = @ \o CutOf("Add", NextAddress, selectors)]
      BY <1>2, <1>7, <1>8, <1>12 DEF ScriptStates
    <2> QED
      BY <2>1, <2>2
  <1>15. ScriptSound(script', markets, file)
    BY <1>1, <1>9, <1>13, <1>14, NotedSound
  <1>16. contracts' \in Seq(Facets)
    <2>1. contracts' = Append(contracts, n)
      BY <1>3 DEF DeployFacet
    <2> QED
      BY <1>4, <2>1, AppendProperties DEF DeploymentInv
  <1>17. UNCHANGED <<ds, markets, release, file>>
    BY DEF DeployFacet, Quiet
  <1> QED
    BY <1>15, <1>16, <1>17 DEF DeploymentInv

\* What the cuts of an upgrade are.
LEMMA UpgradeCutsTyped ==
    ASSUME NEW add \in Seq(Selectors), NEW replace \in Seq(Selectors), NEW remove \in Seq(Selectors),
           NEW a \in 0..MaxAddress, NEW mode \in Modes \cup {"V2"}
    PROVE  UpgradeCuts([add |-> add, replace |-> replace, remove |-> remove], a, mode) \in Seq(Cut)
  <1>1. 0 \in 0..MaxAddress
    BY AddressesAreNat
  <1>2. PICK added, replaced, removed :
           /\ added = CutOf("Add", a, add) /\ replaced = CutOf("Replace", a, replace)
           /\ removed = CutOf("Remove", 0, remove)
    OBVIOUS
  <1>3. added \in Seq(Cut) /\ replaced \in Seq(Cut) /\ removed \in Seq(Cut)
    BY <1>1, <1>2, OneCut
  <1>4. UpgradeCuts([add |-> add, replace |-> replace, remove |-> remove], a, mode)
           \in {replaced \o added, added, (removed \o replaced) \o added, (replaced \o added) \o removed}
    BY <1>2 DEF UpgradeCuts, Modes
  <1>5. /\ replaced \o added \in Seq(Cut) /\ removed \o replaced \in Seq(Cut)
    BY <1>3, Joined
  <1>6. (removed \o replaced) \o added \in Seq(Cut) /\ (replaced \o added) \o removed \in Seq(Cut)
    BY <1>3, <1>5, Joined
  <1> QED
    BY <1>3, <1>4, <1>5, <1>6

LEMMA DiffTyped ==
    ASSUME DeploymentInv, script \in ScriptStates, NEW n \in Facets
    PROVE  \E add, replace, remove \in Seq(Selectors) :
              SelectorDiff(n) = [add |-> add, replace |-> replace, remove |-> remove]
  <1>1. PICK old, new : /\ old = facetFunctionSelectors(ds, script.mem.facets[n].address)
                        /\ new = SelectorsOf(n)
    OBVIOUS
  <1>2. new \in Seq(Selectors)
    BY <1>1, CodeIsSelectors DEF DeploymentInv
  <1>3. old \in Seq(Selectors)
    <2>1. PICK a \in 0..MaxAddress : a = script.mem.facets[n].address
      BY DEF ScriptStates, Manifests
    <2>2. ds.list \in [Addresses -> Seq(Selectors)]
      BY DEF DeploymentInv, Reached, Tables
    <2>3. CASE a = 0
      BY <1>1, <2>1, <2>3, EmptySeq DEF facetFunctionSelectors
    <2>4. CASE a # 0
      BY <1>1, <2>1, <2>2, <2>4, AddressesAreNat DEF facetFunctionSelectors
    <2> QED
      BY <2>3, <2>4
  <1>4. /\ NotIn(new, ToSet(old)) \in Seq(Selectors) /\ OnlyIn(new, ToSet(old)) \in Seq(Selectors)
        /\ NotIn(old, ToSet(new)) \in Seq(Selectors)
    BY <1>2, <1>3, KeptSelectors
  <1>5. SelectorDiff(n) = [add     |-> NotIn(new, ToSet(old)),
                           replace |-> OnlyIn(new, ToSet(old)),
                           remove  |-> NotIn(old, ToSet(new))]
    BY <1>1 DEF SelectorDiff
  <1> QED
    BY <1>4, <1>5

LEMMA SelectAndDeployKeeps ==
    ASSUME DeploymentInv, SelectAndDeploy
    PROVE  DeploymentInv'
  <1>1. script.todo # <<>> /\ Head(script.todo).do = "upgrade" /\ NextAddress \in Addresses
    BY DEF SelectAndDeploy, At
  <1>2. script \in ScriptStates /\ Head(script.todo) \in Effects
    BY <1>1, Running DEF DeploymentInv
  <1>3. PICK n, mode : n = Head(script.todo).facet /\ mode = Head(script.todo).mode
    OBVIOUS
  <1>4. n \in Facets /\ mode \in Modes \cup {"V2"}
    BY <1>1, <1>2, <1>3, EffectsTyped
  <1>5. PICK diff : diff = SelectorDiff(n)
    OBVIOUS
  <1>6. PICK a \in 0..MaxAddress : a = NextAddress
    BY <1>1, NextIsAddress
  <1>7. UpgradeCuts(diff, a, mode) \in Seq(Cut)
    <2>1. PICK add, replace, remove \in Seq(Selectors) :
             diff = [add |-> add, replace |-> replace, remove |-> remove]
      BY <1>2, <1>4, <1>5, DiffTyped
    <2> QED
      BY <1>4, <2>1, UpgradeCutsTyped
  <1>8. PICK recorded, mem, cuts :
           /\ recorded = recordFacet(script.mem, n, a, SelectorsOf(n))
           /\ mem = recordUpgrade(script.mem, n, a, mode)
           /\ cuts = script.cuts \o UpgradeCuts(diff, a, mode)
    OBVIOUS
  <1>9. mem \in Manifests /\ mem.markets = script.mem.markets /\ mem.diamond = script.mem.diamond
    <2>1. SelectorsOf(n) \in Seq(Selectors)
      BY <1>4, CodeIsSelectors DEF DeploymentInv
    <2>2. /\ recorded \in Manifests /\ recorded.markets = script.mem.markets
          /\ recorded.diamond = script.mem.diamond
      BY <1>2, <1>4, <1>8, <2>1, Recorded DEF ScriptStates
    <2>3. PICK upgrades : upgrades = recorded.upgrades \cup {mode}
      OBVIOUS
    <2>4. upgrades \in SUBSET (Modes \cup {"V2"})
      BY <1>4, <2>2, <2>3 DEF Manifests
    <2>5. mem = [recorded EXCEPT !.upgrades = upgrades]
      BY <1>8, <2>3 DEF recordUpgrade
    <2> QED
      BY <2>2, <2>4, <2>5 DEF Manifests
  <1>10. cuts \in Seq(Cut)
    BY <1>2, <1>7, <1>8, Joined DEF ScriptStates
  <1>11. PICK s : s = [[script EXCEPT !.mem = mem] EXCEPT !.cuts = cuts]
    OBVIOUS
  <1>12. s \in ScriptStates /\ s.todo = script.todo /\ s.mem = mem
    BY <1>2, <1>9, <1>10, <1>11 DEF ScriptStates
  <1>13. script' = After(s) \/ script' = Idle
    <2>1. \/ script' = Idle
          \/ script' = After([script EXCEPT
                !.mem = recordUpgrade(@, n, NextAddress, mode),
                !.cuts = @ \o UpgradeCuts(diff, NextAddress, mode)])
      BY <1>3, <1>5 DEF SelectAndDeploy, Abort
    <2>2. s = [script EXCEPT
                !.mem = recordUpgrade(@, n, NextAddress, mode),
                !.cuts = @ \o UpgradeCuts(diff, NextAddress, mode)]
      BY <1>2, <1>6, <1>8, <1>11 DEF ScriptStates
    <2> QED
      BY <2>1, <2>2
  <1>14. ScriptSound(script', markets, file)
    BY <1>1, <1>9, <1>12, <1>13, NotedSound, IdleSound
  <1>15. contracts' \in Seq(Facets)
    <2>1. contracts' = Append(contracts, n)
      BY <1>3 DEF SelectAndDeploy
    <2> QED
      BY <1>4, <2>1, AppendProperties DEF DeploymentInv
  <1>16. UNCHANGED <<ds, markets, release, file>>
    BY DEF SelectAndDeploy, Quiet
  <1> QED
    BY <1>14, <1>15, <1>16 DEF DeploymentInv

LEMMA SendCutKeeps ==
    ASSUME DeploymentInv, SendCut
    PROVE  DeploymentInv'
  <1>1. script.todo # <<>> /\ script \in ScriptStates
    BY Running DEF SendCut, At, DeploymentInv
  <1>2. PICK cut : cut = diamondCut(ds, script.cuts)
    OBVIOUS
  <1>3. cut \in Reached(0)
    <2>1. script.cuts \in Seq(Cut) /\ ds \in Reached(0)
      BY <1>1 DEF ScriptStates, DeploymentInv
    <2> QED
      BY <1>2, <2>1, diamondCutKeeps
  <1>4. UNCHANGED <<contracts, markets, release, file>>
    BY DEF SendCut, Quiet
  <1>5. CASE cut.ok
    <2>1. PICK none, sent : none = <<>> /\ sent = (script.sent \/ script.cuts # <<>>)
      OBVIOUS
    <2>2. none \in Seq(Cut) /\ sent \in BOOLEAN
      BY <2>1, EmptySeq
    <2>3. PICK s : s = [[script EXCEPT !.cuts = none] EXCEPT !.sent = sent]
      OBVIOUS
    <2>4. s \in ScriptStates /\ s.todo = script.todo /\ s.mem = script.mem
      BY <1>1, <2>2, <2>3 DEF ScriptStates
    <2>5. s = [script EXCEPT !.cuts = <<>>, !.sent = @ \/ script.cuts # <<>>]
      BY <1>1, <2>1, <2>3 DEF ScriptStates
    <2>6. ds' = cut /\ script' = After(s)
      BY <1>2, <1>5, <2>5 DEF SendCut
    <2>7. ScriptSound(script', markets, file)
      BY <1>1, <2>4, <2>6, NotedSound
    <2> QED
      BY <1>3, <1>4, <1>5, <2>6, <2>7 DEF DeploymentInv
  <1>6. CASE ~cut.ok
    <2>1. ds' = ds /\ script' = Idle
      BY <1>2, <1>6 DEF SendCut, Abort
    <2> QED
      BY <1>4, <2>1, IdleSound DEF DeploymentInv
  <1> QED
    BY <1>5, <1>6

LEMMA SaveKeeps ==
    ASSUME DeploymentInv, SaveDeployment
    PROVE  DeploymentInv'
  <1>1. script.todo # <<>>
    BY DEF SaveDeployment, At
  <1>2. script \in ScriptStates /\ Tail(script.todo) \in Seq(Later(script)) /\ ListsPools(script.mem, markets)
    BY <1>1, Running DEF DeploymentInv
  <1>3. PICK s : s = [script EXCEPT !.sent = FALSE]
    OBVIOUS
  <1>4. s \in ScriptStates /\ s.todo = script.todo /\ s.mem = script.mem
    BY <1>2, <1>3 DEF ScriptStates
  <1>5. Later(s) = Later(script)
    BY <1>4 DEF Later
  <1>6. ScriptSound(After(s), markets, script.mem)
    BY <1>1, <1>2, <1>4, <1>5, AfterSound
  <1>7. file' = script.mem /\ script' = After(s) /\ UNCHANGED <<ds, contracts, markets, release>>
    BY <1>3 DEF SaveDeployment, chain
  <1>8. script.mem \in Manifests
    BY <1>2 DEF ScriptStates
  <1> QED
    BY <1>2, <1>6, <1>7, <1>8 DEF DeploymentInv

-----------------------------------------------------------------------------
(* Markets.                                                                *)

\* What changes on the markets takes nothing from any manifest.
Grown(old, new) ==
    /\ MarketsSound(new)
    /\ DOMAIN old \subseteq DOMAIN new
    /\ \A id \in DOMAIN old : old[id].pool => new[id].pool

LEMMA GrownLists ==
    ASSUME NEW old, NEW new, Grown(old, new), NEW manifest, ListsPools(manifest, old)
    PROVE  ListsPools(manifest, new)
  BY DEF Grown, ListsPools

LEMMA Unchanged == MarketsSound(markets) => Grown(markets, markets)
  BY DEF Grown

LEMMA Created ==
    ASSUME NEW mkts, MarketsSound(mkts), NEW symbol \in Symbols
    PROVE  /\ Grown(mkts, Append(mkts, NewMarket(symbol)))
           /\ Len(Append(mkts, NewMarket(symbol))) \in Nat \ {0}
           /\ Len(Append(mkts, NewMarket(symbol))) \in DOMAIN Append(mkts, NewMarket(symbol))
  <1>1. mkts \in Seq(Market) /\ \A id \in DOMAIN mkts : mkts[id].pool => mkts[id].price
    BY DEF MarketsSound
  <1>2. PICK n \in Nat : n = Len(mkts) /\ DOMAIN mkts = 1..n
    BY <1>1, LenProperties
  <1>3. NewMarket(symbol) \in Market /\ NewMarket(symbol).pool = FALSE
    BY DEF NewMarket, Market
  <1>4. PICK m, u : m = NewMarket(symbol) /\ u = Append(mkts, m)
    OBVIOUS
  <1>5. /\ u \in Seq(Market) /\ Len(u) = n + 1 /\ u[n + 1] = m
        /\ \A i \in 1..n : u[i] = mkts[i]
    <2>1. m \in Market
      BY <1>3, <1>4
    <2> QED
      BY <1>1, <1>2, <1>4, <2>1, AppendProperties
  <1>6. DOMAIN u = 1..(n + 1)
    BY <1>5, LenProperties
  <1>7. \A id \in 1..(n + 1) : id \in 1..n \/ id = n + 1
    OBVIOUS
  <1>8. \A id \in DOMAIN u : u[id].pool => u[id].price
    BY <1>1, <1>2, <1>3, <1>4, <1>5, <1>6, <1>7
  <1>9. Grown(mkts, u)
    BY <1>2, <1>5, <1>6, <1>8 DEF Grown, MarketsSound
  <1> QED
    BY <1>3, <1>4, <1>5, <1>6, <1>9

LEMMA Priced ==
    ASSUME NEW mkts, MarketsSound(mkts), NEW id \in DOMAIN mkts
    PROVE  /\ Grown(mkts, [mkts EXCEPT ![id].price = TRUE])
           /\ id \in DOMAIN [mkts EXCEPT ![id].price = TRUE]
           /\ [mkts EXCEPT ![id].price = TRUE][id].price
  <1>1. mkts \in Seq(Market) /\ \A i \in DOMAIN mkts : mkts[i].pool => mkts[i].price
    BY DEF MarketsSound
  <1>2. PICK n \in Nat : n = Len(mkts) /\ DOMAIN mkts = 1..n /\ mkts \in [1..n -> Market]
    BY <1>1, LenProperties
  <1>3. PICK m : m = [mkts[id] EXCEPT !.price = TRUE]
    OBVIOUS
  <1>4. m \in Market /\ m.price /\ m.pool = mkts[id].pool
    BY <1>2, <1>3 DEF Market
  <1>5. PICK u : u = [mkts EXCEPT ![id] = m]
    OBVIOUS
  <1>6. u \in [1..n -> Market] /\ u[id] = m /\ \A i \in 1..n : i # id => u[i] = mkts[i]
    BY <1>2, <1>4, <1>5
  <1>7. u \in Seq(Market)
    BY <1>6, SeqDef
  <1>8. Grown(mkts, u) /\ id \in DOMAIN u /\ u[id].price
    BY <1>1, <1>2, <1>4, <1>6, <1>7 DEF Grown, MarketsSound
  <1>9. u = [mkts EXCEPT ![id].price = TRUE]
    BY <1>3, <1>5
  <1> QED
    BY <1>8, <1>9

LEMMA Pooled ==
    ASSUME NEW mkts, MarketsSound(mkts), NEW id \in DOMAIN mkts, mkts[id].price
    PROVE  /\ Grown(mkts, [mkts EXCEPT ![id].pool = TRUE])
           /\ id \in DOMAIN [mkts EXCEPT ![id].pool = TRUE]
           /\ [mkts EXCEPT ![id].pool = TRUE][id].pool
  <1>1. mkts \in Seq(Market) /\ \A i \in DOMAIN mkts : mkts[i].pool => mkts[i].price
    BY DEF MarketsSound
  <1>2. PICK n \in Nat : n = Len(mkts) /\ DOMAIN mkts = 1..n /\ mkts \in [1..n -> Market]
    BY <1>1, LenProperties
  <1>3. PICK m : m = [mkts[id] EXCEPT !.pool = TRUE]
    OBVIOUS
  <1>4. m \in Market /\ m.pool /\ m.price = mkts[id].price
    BY <1>2, <1>3 DEF Market
  <1>5. PICK u : u = [mkts EXCEPT ![id] = m]
    OBVIOUS
  <1>6. u \in [1..n -> Market] /\ u[id] = m /\ \A i \in 1..n : i # id => u[i] = mkts[i]
    BY <1>2, <1>4, <1>5
  <1>7. u \in Seq(Market)
    BY <1>6, SeqDef
  <1>8. Grown(mkts, u) /\ id \in DOMAIN u /\ u[id].pool
    BY <1>1, <1>2, <1>4, <1>6, <1>7 DEF Grown, MarketsSound
  <1>9. u = [mkts EXCEPT ![id].pool = TRUE]
    BY <1>3, <1>5
  <1> QED
    BY <1>8, <1>9

\* An effect put in front of the others.
LEMMA PutInFront ==
    ASSUME NEW S, NEW e \in S, NEW rest \in Seq(S)
    PROVE  /\ <<e>> \o rest \in Seq(S)
           /\ <<e>> \o rest # <<>>
           /\ Head(<<e>> \o rest) = e
           /\ Tail(<<e>> \o rest) = rest
  <1>1. PICK one, all : one = <<e>> /\ all = <<e>> \o rest
    OBVIOUS
  <1>2. one \in Seq(S) /\ Len(one) = 1 /\ one[1] = e
    BY <1>1
  <1>3. PICK n \in Nat : n = Len(rest)
    BY LenProperties
  <1>4. all \in Seq(S) /\ Len(all) = n + 1 /\ all[1] = e /\ \A i \in 1..n : all[i + 1] = rest[i]
    <2>1. all = one \o rest
      BY <1>1
    <2>2. all \in Seq(S) /\ Len(all) = Len(one) + Len(rest)
          /\ \A i \in 1..(Len(one) + Len(rest)) :
                all[i] = IF i <= Len(one) THEN one[i] ELSE rest[i - Len(one)]
      BY <1>2, <2>1, ConcatProperties
    <2>3. \A i \in 1..(n + 1) : all[i] = IF i <= 1 THEN e ELSE rest[i - 1]
      BY <1>2, <1>3, <2>2
    <2>4. \A i \in 1..n : i + 1 \in 1..(n + 1) /\ ~(i + 1 <= 1) /\ (i + 1) - 1 = i
      BY <1>3
    <2> QED
      BY <1>2, <1>3, <2>2, <2>3, <2>4
  <1>5. all # <<>>
    BY <1>3, <1>4, EmptySeq
  <1>6. Head(all) = e /\ Tail(all) \in Seq(S) /\ Len(Tail(all)) = n
        /\ \A i \in 1..n : Tail(all)[i] = rest[i]
    BY <1>3, <1>4, <1>5, TailInPlace
  <1>7. Tail(all) = rest
    BY <1>3, <1>6, SeqEqual
  <1> QED
    BY <1>1, <1>4, <1>5, <1>6, <1>7

\* A script that goes on, or ends, with the markets grown.
LEMMA GoesOnAmong ==
    ASSUME DeploymentInv, script.todo # <<>>,
           script' = After(script) \/ script' = Idle,
           Grown(markets, markets'),
           UNCHANGED <<ds, contracts, release, file>>
    PROVE  DeploymentInv'
  <1>1. script \in ScriptStates /\ Tail(script.todo) \in Seq(Later(script)) /\ ListsPools(script.mem, markets)
    BY Running DEF DeploymentInv
  <1>2. ListsPools(script.mem, markets') /\ ListsPools(file, markets')
    BY <1>1, GrownLists DEF DeploymentInv
  <1>3. ScriptSound(After(script), markets', file)
    BY <1>1, <1>2, AfterSound
  <1>4. ScriptSound(script', markets', file)
    BY <1>3, IdleSound
  <1> QED
    BY <1>2, <1>4 DEF DeploymentInv, Grown

\* A script that goes on with a market to be listed.
LEMMA ListingSound ==
    ASSUME DeploymentInv, script.todo # <<>>, script.mem.diamond,
           NEW e \in Listing, NEW mkts, Grown(markets, mkts),
           e.id \in DOMAIN mkts, e.do = "pool" => mkts[e.id].price
    PROVE  ScriptSound([script EXCEPT !.todo = <<e>> \o Tail(script.todo)], mkts, file)
  <1>1. script \in ScriptStates /\ Tail(script.todo) \in Seq(Later(script)) /\ ListsPools(script.mem, markets)
    BY Running DEF DeploymentInv
  <1>2. PICK rest, todo : rest = Tail(script.todo) /\ todo = <<e>> \o rest
    OBVIOUS
  <1>3. e \in Effects /\ rest \in Seq(Effects)
    BY <1>1, <1>2, TailInPlace DEF Effects, ScriptStates
  <1>4. todo \in Seq(Effects) /\ todo # <<>> /\ Head(todo) = e /\ Tail(todo) = rest
    BY <1>2, <1>3, PutInFront
  <1>5. PICK s : s = [script EXCEPT !.todo = todo]
    OBVIOUS
  <1>6. s \in ScriptStates /\ s.todo = todo /\ s.mem = script.mem
    BY <1>1, <1>4, <1>5 DEF ScriptStates
  <1>7. Later(s) = Later(script)
    BY <1>6 DEF Later
  <1>8. TodoSound(s, mkts, file)
    BY <1>1, <1>2, <1>4, <1>6, <1>7 DEF TodoSound
  <1>9. ListsPools(s.mem, mkts)
    BY <1>1, <1>6, GrownLists
  <1> QED
    BY <1>2, <1>5, <1>6, <1>8, <1>9 DEF ScriptSound

LEMMA CreateMarketKeeps ==
    ASSUME DeploymentInv, CreateMarket
    PROVE  DeploymentInv'
  <1>1. script.todo # <<>> /\ Head(script.todo).do = "market"
    BY DEF CreateMarket, At
  <1>2. PICK m : m = Head(script.todo)
    OBVIOUS
  <1>3. m \in Effects /\ m.symbol \in Symbols
    BY <1>1, <1>2, Running, EffectsTyped DEF DeploymentInv
  <1>4. PICK created : created = Append(markets, NewMarket(m.symbol))
    OBVIOUS
  <1>5. Grown(markets, created) /\ Grown(markets, markets)
        /\ Len(created) \in Nat \ {0} /\ Len(created) \in DOMAIN created
    BY <1>3, <1>4, Created, Unchanged DEF DeploymentInv
  <1>6. UNCHANGED <<ds, contracts, release, file>>
    BY DEF CreateMarket, Rest
  <1>7. \/ markets' \in {markets, created} /\ (script' = After(script) \/ script' = Idle)
        \/ markets' = created /\ m.how = "and list" /\ script' = OnToPrice(Len(created))
    BY <1>2, <1>4 DEF CreateMarket, Abort
  <1>8. CASE markets' \in {markets, created} /\ (script' = After(script) \/ script' = Idle)
    <2>1. Grown(markets, markets')
      BY <1>5, <1>8
    <2> QED
      BY <1>1, <1>6, <1>8, <2>1, GoesOnAmong
  <1>9. CASE markets' = created /\ m.how = "and list" /\ script' = OnToPrice(Len(created))
    <2>1. PICK e : e = [do |-> "price", id |-> Len(created), symbol |-> m.symbol]
      OBVIOUS
    <2>2. e \in Listing /\ e.id = Len(created) /\ e.do = "price"
      BY <1>3, <1>5, <2>1 DEF Listing
    <2>3. script.mem.diamond
      <3>1. TodoSound(script, markets, file)
        BY DEF DeploymentInv, ScriptSound
      <3>2. m \in Later(script) \/ m \in First \/ m \in Listing
        BY <1>1, <1>2, <3>1 DEF TodoSound
      <3>3. m \in Later(script)
        BY <1>1, <1>2, <3>2 DEF First, Listing
      <3>4. m \notin Setup
        BY <1>1, <1>2, <1>9 DEF Setup
      <3> QED
        BY <3>3, <3>4 DEF Later
    <2>4. script' = [script EXCEPT !.todo = <<e>> \o Tail(script.todo)]
      BY <1>2, <1>9, <2>1 DEF OnToPrice
    <2>5. ScriptSound(script', created, file)
      BY <1>1, <1>5, <2>2, <2>3, <2>4, ListingSound
    <2>6. ListsPools(file, created)
      BY <1>5, GrownLists DEF DeploymentInv
    <2> QED
      BY <1>5, <1>6, <1>9, <2>5, <2>6 DEF DeploymentInv, Grown
  <1> QED
    BY <1>7, <1>8, <1>9

\* A market to be priced, or to get a pool, is there.
LEMMA ListingThere ==
    ASSUME DeploymentInv, script.todo # <<>>, Head(script.todo).do \in {"price", "pool"}
    PROVE  /\ Head(script.todo) \in Listing /\ script.mem.diamond
           /\ Head(script.todo).id \in DOMAIN markets
           /\ Head(script.todo).do = "pool" => markets[Head(script.todo).id].price
  <1>1. TodoSound(script, markets, file)
    BY DEF DeploymentInv, ScriptSound
  <1>2. PICK e : e = Head(script.todo)
    OBVIOUS
  <1>3. e \notin Later(script) /\ e \notin First
    <2>1. e.do \in {"price", "pool"}
      BY <1>2
    <2>2. e \notin Planned /\ e \notin Setup /\ e \notin First
      BY <2>1 DEF Planned, Setup, First
    <2> QED
      BY <2>2, LaterEffects
  <1> QED
    BY <1>1, <1>2, <1>3 DEF TodoSound

LEMMA PostPriceKeeps ==
    ASSUME DeploymentInv, PostPrice
    PROVE  DeploymentInv'
  <1>1. script.todo # <<>> /\ Head(script.todo).do = "price"
    BY DEF PostPrice, At
  <1>2. PICK e : e = Head(script.todo)
    OBVIOUS
  <1>3. e \in Listing /\ script.mem.diamond /\ e.id \in DOMAIN markets
    BY <1>1, <1>2, ListingThere
  <1>4. PICK priced : priced = [markets EXCEPT ![e.id].price = TRUE]
    OBVIOUS
  <1>5. Grown(markets, priced) /\ e.id \in DOMAIN priced /\ priced[e.id].price
        /\ Grown(markets, markets)
    BY <1>3, <1>4, Priced, Unchanged DEF DeploymentInv
  <1>6. UNCHANGED <<ds, contracts, release, file>>
    BY DEF PostPrice, Rest
  <1>7. \/ markets' = priced /\ script' = OnToPool
        \/ markets' \in {markets, priced} /\ script' = After(script)
    BY <1>2, <1>4 DEF PostPrice
  <1>8. CASE markets' = priced /\ script' = OnToPool
    <2>1. PICK p : p = [e EXCEPT !.do = "pool"]
      OBVIOUS
    <2>2. p \in Listing /\ p.id = e.id
      BY <1>3, <2>1 DEF Listing
    <2>3. script' = [script EXCEPT !.todo = <<p>> \o Tail(script.todo)]
      BY <1>2, <1>8, <2>1 DEF OnToPool
    <2>4. ScriptSound(script', priced, file)
      BY <1>1, <1>3, <1>5, <2>2, <2>3, ListingSound
    <2>5. ListsPools(file, priced)
      BY <1>5, GrownLists DEF DeploymentInv
    <2> QED
      BY <1>5, <1>6, <1>8, <2>4, <2>5 DEF DeploymentInv, Grown
  <1>9. CASE markets' \in {markets, priced} /\ script' = After(script)
    <2>1. Grown(markets, markets')
      BY <1>5, <1>9
    <2> QED
      BY <1>1, <1>6, <1>9, <2>1, GoesOnAmong
  <1> QED
    BY <1>7, <1>8, <1>9

LEMMA InitializePoolKeeps ==
    ASSUME DeploymentInv, InitializePool
    PROVE  DeploymentInv'
  <1>1. script.todo # <<>> /\ Head(script.todo).do = "pool"
    BY DEF InitializePool, At
  <1>2. PICK e : e = Head(script.todo)
    OBVIOUS
  <1>3. e \in Listing /\ script.mem.diamond /\ e.id \in DOMAIN markets /\ markets[e.id].price
    BY <1>1, <1>2, ListingThere
  <1>4. PICK pooled : pooled = [markets EXCEPT ![e.id].pool = TRUE]
    OBVIOUS
  <1>5. Grown(markets, pooled) /\ e.id \in DOMAIN pooled /\ pooled[e.id].pool
        /\ Grown(markets, markets)
    BY <1>3, <1>4, Pooled, Unchanged DEF DeploymentInv
  <1>6. UNCHANGED <<ds, contracts, release, file>>
    BY DEF InitializePool, Rest
  <1>7. \/ markets' = pooled /\ script' = After([script EXCEPT !.mem.markets = @ \cup {e.id}])
        \/ markets' \in {markets, pooled} /\ script' = After(script)
    BY <1>2, <1>4 DEF InitializePool
  <1>8. CASE markets' = pooled /\ script' = After([script EXCEPT !.mem.markets = @ \cup {e.id}])
    <2>1. script \in ScriptStates /\ Tail(script.todo) \in Seq(Later(script))
          /\ ListsPools(script.mem, markets)
      BY <1>1, Running DEF DeploymentInv
    <2>2. PICK listed : listed = script.mem.markets \cup {e.id}
      OBVIOUS
    <2>3. script.mem \in Manifests
      BY <2>1 DEF ScriptStates
    <2>4. listed \in SUBSET Nat
      <3>1. e.id \in Nat
        BY <1>3 DEF Listing
      <3> QED
        BY <2>2, <2>3, <3>1 DEF Manifests
    <2>5. PICK mem : mem = [script.mem EXCEPT !.markets = listed]
      OBVIOUS
    <2>6. mem \in Manifests /\ mem.markets = listed /\ mem.diamond = script.mem.diamond
      BY <2>3, <2>4, <2>5 DEF Manifests
    <2>7. PICK s : s = [script EXCEPT !.mem = mem]
      OBVIOUS
    <2>8. s \in ScriptStates /\ s.todo = script.todo /\ s.mem = mem
      BY <2>1, <2>6, <2>7 DEF ScriptStates
    <2>9. s = [script EXCEPT !.mem.markets = @ \cup {e.id}]
      BY <2>1, <2>2, <2>5, <2>7 DEF ScriptStates
    <2>10. ListsPools(mem, pooled)
      <3>1. ListsPools(script.mem, pooled)
        BY <1>5, <2>1, GrownLists
      <3> QED
        BY <1>3, <1>5, <2>2, <2>6, <3>1 DEF ListsPools
    <2>11. Later(s) = Later(script)
      BY <2>6, <2>8 DEF Later
    <2>12. ScriptSound(After(s), pooled, file)
      BY <1>1, <2>1, <2>8, <2>10, <2>11, AfterSound
    <2>13. ListsPools(file, pooled)
      BY <1>5, GrownLists DEF DeploymentInv
    <2> QED
      BY <1>5, <1>6, <1>8, <2>9, <2>12, <2>13 DEF DeploymentInv, Grown
  <1>9. CASE markets' \in {markets, pooled} /\ script' = After(script)
    <2>1. Grown(markets, markets')
      BY <1>5, <1>9
    <2> QED
      BY <1>1, <1>6, <1>9, <2>1, GoesOnAmong
  <1> QED
    BY <1>7, <1>8, <1>9

LEMMA PostTestPriceKeeps ==
    ASSUME DeploymentInv, PostTestPrice
    PROVE  DeploymentInv'
  <1>1. script.todo # <<>>
    BY DEF PostTestPrice, At
  <1>2. UNCHANGED <<ds, contracts, release, file>> /\ script' = After(script)
    BY DEF PostTestPrice, Rest
  <1>3. MarketsSound(markets)
    BY DEF DeploymentInv
  <1>4. \/ markets' = markets
        \/ markets # <<>> /\ markets' = [markets EXCEPT ![1].price = TRUE]
    BY DEF PostTestPrice
  <1>5. Grown(markets, markets')
    <2>1. CASE markets' = markets
      BY <1>3, <2>1, Unchanged
    <2>2. CASE markets # <<>> /\ markets' = [markets EXCEPT ![1].price = TRUE]
      <3>1. 1 \in DOMAIN markets
        <4>1. Len(markets) \in Nat \ {0} /\ DOMAIN markets = 1..Len(markets)
          BY <1>3, <2>2, LenProperties, EmptySeq DEF MarketsSound
        <4> QED
          BY <4>1
      <3> QED
        BY <1>3, <2>2, <3>1, Priced
    <2> QED
      BY <1>4, <2>1, <2>2
  <1> QED
    BY <1>1, <1>2, <1>5, GoesOnAmong

-----------------------------------------------------------------------------
(* The first cut of a diamond, and every step.                             *)

LEMMA NoRoutesReached == NoRoutes \in Reached(0) /\ NoRoutes.ok /\ \A s \in Selectors : NoRoutes.facetOf[s] = 0
  <1>1. PICK none : none = <<>>
    OBVIOUS
  <1>2. /\ \A S : none \in Seq(S)
        /\ Len(none) = 0 /\ ToSet(none) = {}
    <2>1. \A S : <<>> \in Seq(S)
      BY EmptySeq
    <2>2. Len(<<>>) = 0
      BY EmptySeq
    <2>3. ToSet(<<>>) = {}
      BY DEF ToSet
    <2> QED
      BY <1>1, <2>1, <2>2, <2>3
  <1>3. NoRoutes = [facetOf |-> [s \in Selectors |-> 0], posOf |-> [s \in Selectors |-> 0],
                    list |-> [a \in Addresses |-> none], facetPos |-> [a \in Addresses |-> 0],
                    facets |-> none, ok |-> TRUE]
    BY <1>1 DEF NoRoutes
  <1>4. NoRoutes \in Tables
    <2>1. [s \in Selectors |-> 0] \in [Selectors -> 0..MaxAddress] /\ [s \in Selectors |-> 0] \in [Selectors -> Nat]
      BY AddressesAreNat
    <2>2. [a \in Addresses |-> none] \in [Addresses -> Seq(Selectors)] /\ [a \in Addresses |-> 0] \in [Addresses -> Nat]
      BY <1>2
    <2> QED
      BY <1>2, <1>3, <2>1, <2>2 DEF Tables
  <1>5. \A x \in Addresses : NoRoutes.list[x] = none /\ x # 0
    BY <1>3, AddressesAreNat
  <1>6. \A s \in Selectors : NoRoutes.facetOf[s] = 0
    BY <1>3
  <1>7. NoRoutes.facets = none
    BY <1>3
  <1>8. Midway(NoRoutes, 0)
    <2>1. \A pos : InPlace(none, pos)
      BY <1>2 DEF InPlace
    <2>2. \A x \in Addresses : {s \in Selectors : NoRoutes.facetOf[s] = x} = {}
      BY <1>5, <1>6
    <2>3. Listed(NoRoutes)
      BY <1>2, <1>5, <2>1, <2>2 DEF Listed
    <2>4. {x \in Addresses : NoRoutes.list[x] # <<>> \/ x = 0} = {}
      BY <1>1, <1>5
    <2> QED
      BY <1>2, <1>7, <2>1, <2>3, <2>4 DEF Midway
  <1>9. NoRoutes.ok
    BY <1>3
  <1> QED
    BY <1>4, <1>6, <1>8, <1>9 DEF Reached

\* What a function is routed to, and whether the table stands, is not changed by
\* listing a facet.
LEMMA AnnounceOnlyLists ==
    ASSUME NEW t \in Tables, NEW a \in Addresses
    PROVE  Announce(t, a).facetOf = t.facetOf /\ Announce(t, a).ok = t.ok
  BY DEF Announce, addFacet, Tables

\* A new diamond's first cut is not refused.
LEMMA FirstCut ==
    ASSUME NEW cuts, cuts = CutOf("Add", 1, <<CutSelector>>)
    PROVE  diamondCut(NoRoutes, cuts) \in Reached(0) /\ diamondCut(NoRoutes, cuts).ok
  <1>1. 1 \in Addresses
    BY DeploymentAssumption DEF Addresses
  <1>2. CutSelector \in Selectors
    BY DeploymentAssumption
  <1>3. PICK selectors : selectors = <<CutSelector>>
    OBVIOUS
  <1>4. selectors \in Seq(Selectors) /\ selectors # <<>> /\ Len(selectors) = 1 /\ selectors[1] = CutSelector
    BY <1>2, <1>3
  <1>5. PICK cut : cut = [action |-> "Add", facet |-> 1, selectors |-> selectors]
    OBVIOUS
  <1>6. cut \in Cut
    BY <1>1, <1>4, <1>5, AddressesAreNat DEF Cut
  <1>7. cuts = <<cut>>
    BY <1>3, <1>4, <1>5 DEF CutOf
  <1>8. cuts \in Seq(Cut) /\ Len(cuts) = 1 /\ cuts[1] = cut
    BY <1>6, <1>7
  <1>9. diamondCut(NoRoutes, cuts) \in Reached(0)
    BY <1>8, NoRoutesReached, diamondCutKeeps
  <1>10. diamondCut(NoRoutes, cuts) = ApplyCut(NoRoutes, cut)
    <2>1. PICK D, E, none : D = Reached(0) /\ E = Cut /\ none = NoRoutes
      OBVIOUS
    <2>2. \A d \in D, e \in E : ApplyCut(d, e) \in D
      BY <2>1, CutKeeps
    <2>3. none \in D
      BY <2>1, NoRoutesReached
    <2>4. cuts \in Seq(E)
      BY <1>8, <2>1
    <2>5. OneCutMade(none, cuts)
      BY ONLY <2>2, <2>3, <2>4, CutFold
    <2> QED
      BY <1>8, <2>1, <2>5 DEF OneCutMade
  <1>11. PICK base : base = Announce(NoRoutes, 1)
    OBVIOUS
  <1>12. ApplyCut(NoRoutes, cut) = AllAdded(1, base, selectors)
    <2>1. ApplyCut(NoRoutes, cut) = addFunctions(NoRoutes, 1, selectors)
      BY <1>5, NoRoutesReached DEF ApplyCut
    <2>2. \A t, a : a # 0 => addFunctions(t, a, selectors) = AllAdded(a, Announce(t, a), selectors)
      BY <1>4 DEF addFunctions, AllAdded
    <2>3. 1 # 0
      OBVIOUS
    <2> QED
      BY <1>11, <2>1, <2>2, <2>3
  <1>13. base \in Reached(1) /\ base.ok /\ base.facetOf[CutSelector] = 0
    <2>1. NoRoutes \in Tables /\ Midway(NoRoutes, 0)
      BY NoRoutesReached DEF Reached
    <2> QED
      BY <1>1, <1>2, <1>11, <2>1, AnnounceKeeps, AnnounceOnlyLists, NoRoutesReached
  <1>14. AllAdded(1, base, selectors) = AddOne(base, 1, CutSelector)
    <2>1. PICK D, a : D = Reached(1) /\ a = 1
      OBVIOUS
    <2>2. \A d \in D, s \in Selectors : AddOne(d, a, s) \in D
      BY <1>1, <2>1, AddRound
    <2>3. base \in D
      BY <1>13, <2>1
    <2>4. selectors \in Seq(Selectors)
      BY <1>4
    <2>5. OneAdded(a, base, selectors)
      BY ONLY <2>2, <2>3, <2>4, AddFold
    <2> QED
      BY <1>4, <2>1, <2>5 DEF OneAdded
  <1>15. AddOne(base, 1, CutSelector).ok
    <2>1. AddOne(base, 1, CutSelector) = addFunction(base, CutSelector, 1)
      BY <1>13 DEF AddOne
    <2>2. base \in Tables /\ Midway(base, 1)
      BY <1>13 DEF Reached
    <2>3. addFunction(base, CutSelector, 1).ok = base.ok
      BY <1>1, <1>2, <1>13, <2>2, AddKeeps
    <2> QED
      BY <1>13, <2>1, <2>3
  <1> QED
    BY <1>9, <1>10, <1>12, <1>14, <1>15

LEMMA NoMarkets == MarketsSound(<<>>)
  <1>1. <<>> \in Seq(Market) /\ DOMAIN <<>> = {}
    BY EmptySeq
  <1> QED
    BY <1>1 DEF MarketsSound

LEMMA NewDiamondKeeps ==
    ASSUME DeploymentInv, NewDiamond
    PROVE  DeploymentInv'
  <1>1. script.todo # <<>> /\ Head(script.todo).do = "diamond"
    BY DEF NewDiamond, At
  <1>2. script \in ScriptStates /\ Tail(script.todo) \in Seq(Later(script))
    BY <1>1, Running DEF DeploymentInv
  <1>3. script.mem.markets = {} /\ file.markets = {}
    <2>1. TodoSound(script, markets, file)
      BY DEF DeploymentInv, ScriptSound
    <2>2. PICK e : e = Head(script.todo) /\ e.do = "diamond"
      BY <1>1
    <2>3. e \notin Planned /\ e \notin Setup /\ e \notin Listing
      BY <2>2 DEF Planned, Setup, Listing
    <2>4. e \notin Later(script)
      BY <2>3, LaterEffects
    <2> QED
      BY <1>1, <2>1, <2>2, <2>3, <2>4 DEF TodoSound
  <1>4. ds' \in Reached(0) /\ ds'.ok
    BY FirstCut DEF NewDiamond
  <1>5. PICK selectors : selectors = <<CutSelector>>
    OBVIOUS
  <1>6. selectors \in Seq(Selectors) /\ {CutSelector} \in SUBSET Selectors
    BY <1>5, DeploymentAssumption
  <1>7. PICK recorded, mem, known :
           /\ recorded = recordFacet(script.mem, "DiamondCutFacet", 1, selectors)
           /\ mem = [recorded EXCEPT !.diamond = TRUE]
           /\ known = {CutSelector}
    OBVIOUS
  <1>8. mem \in Manifests /\ mem.markets = {} /\ mem.diamond
    <2>1. "DiamondCutFacet" \in Facets /\ 1 \in 0..MaxAddress
      BY DeploymentAssumption
    <2>2. recorded \in Manifests /\ recorded.markets = script.mem.markets
      BY <1>2, <1>6, <1>7, <2>1, Recorded DEF ScriptStates
    <2> QED
      BY <1>3, <1>7, <2>2 DEF Manifests
  <1>9. PICK s : s = [[script EXCEPT !.mem = mem] EXCEPT !.known = known]
    OBVIOUS
  <1>10. s \in ScriptStates /\ s.todo = script.todo /\ s.mem = mem
    BY <1>2, <1>6, <1>7, <1>8, <1>9 DEF ScriptStates
  <1>11. script' = After(s)
    <2>1. script' = After([script EXCEPT
             !.mem = [recordFacet(@, "DiamondCutFacet", 1, <<CutSelector>>) EXCEPT !.diamond = TRUE],
             !.known = {CutSelector}])
      BY DEF NewDiamond
    <2>2. s = [script EXCEPT
             !.mem = [recordFacet(@, "DiamondCutFacet", 1, <<CutSelector>>) EXCEPT !.diamond = TRUE],
             !.known = {CutSelector}]
      BY <1>2, <1>5, <1>7, <1>9 DEF ScriptStates
    <2> QED
      BY <2>1, <2>2
  <1>12. ScriptSound(script', <<>>, file)
    <2>1. Later(s) = Planned /\ Later(script) \in {Planned, Setup}
      BY <1>8, <1>10, LaterEffects DEF Later
    <2>2. Tail(s.todo) \in Seq(Later(s))
      BY <1>2, <1>10, <2>1, EffectsPlanned, SeqMonotonic
    <2>3. ListsPools(s.mem, <<>>)
      BY <1>8, <1>10 DEF ListsPools
    <2> QED
      BY <1>1, <1>10, <1>11, <2>2, <2>3, AfterSound
  <1>13. markets' = <<>> /\ contracts' = <<"DiamondCutFacet">> /\ UNCHANGED <<release, file>>
    BY DEF NewDiamond, Quiet
  <1>14. contracts' \in Seq(Facets)
    <2>1. "DiamondCutFacet" \in Facets
      BY DeploymentAssumption
    <2> QED
      BY <1>13, <2>1
  <1>15. ListsPools(file, <<>>)
    BY <1>3 DEF ListsPools
  <1> QED
    BY <1>4, <1>12, <1>13, <1>14, <1>15, NoMarkets DEF DeploymentInv

LEMMA DeploymentInvInit == Init => DeploymentInv
  <1> SUFFICES ASSUME Init PROVE DeploymentInv
    OBVIOUS
  <1>1. ds = NoRoutes /\ contracts = <<>> /\ markets = <<>> /\ release = 1 /\ file = NoManifest
        /\ script = Idle
    BY DEF Init
  <1>2. contracts \in Seq(Facets)
    BY <1>1, EmptySeq
  <1> QED
    BY <1>1, <1>2, NoRoutesReached, NoMarkets, NoManifestSound, IdleSound DEF DeploymentInv

LEMMA DeploymentInvStep == DeploymentInv /\ [Next]_vars => DeploymentInv'
  <1> SUFFICES ASSUME DeploymentInv, [Next]_vars PROVE DeploymentInv'
    OBVIOUS
  <1>1. ASSUME NEW run \in Runs, Begin(run) PROVE DeploymentInv'
    BY <1>1, BeginKeeps
  <1>2. ASSUME NewRelease \/ Crash \/ UNCHANGED vars PROVE DeploymentInv'
    BY <1>2, OutsideKeeps
  <1>3. ASSUME Advance PROVE DeploymentInv'
    <2>1. ASSUME NewDiamond PROVE DeploymentInv'
      BY <2>1, NewDiamondKeeps
    <2>2. ASSUME DeployFacet PROVE DeploymentInv'
      BY <2>2, DeployFacetKeeps
    <2>3. ASSUME SelectAndDeploy PROVE DeploymentInv'
      BY <2>3, SelectAndDeployKeeps
    <2>4. ASSUME SendCut PROVE DeploymentInv'
      BY <2>4, SendCutKeeps
    <2>5. ASSUME SetImplementation \/ Configure \/ CheckRoles \/ VerifyDiamondState
                   \/ AcceptCollateral \/ FundVault
          PROVE  DeploymentInv'
      BY <2>5, ConfiguringKeeps
    <2>6. ASSUME AskExplorer PROVE DeploymentInv'
      BY <2>6, AskExplorerKeeps
    <2>7. ASSUME CreateMarket PROVE DeploymentInv'
      BY <2>7, CreateMarketKeeps
    <2>8. ASSUME PostPrice PROVE DeploymentInv'
      BY <2>8, PostPriceKeeps
    <2>9. ASSUME InitializePool PROVE DeploymentInv'
      BY <2>9, InitializePoolKeeps
    <2>10. ASSUME PostTestPrice PROVE DeploymentInv'
      BY <2>10, PostTestPriceKeeps
    <2>11. ASSUME SaveDeployment PROVE DeploymentInv'
      BY <2>11, SaveKeeps
    <2> QED
      BY <1>3, <2>1, <2>2, <2>3, <2>4, <2>5, <2>6, <2>7, <2>8, <2>9, <2>10, <2>11 DEF Advance
  <1> QED
    BY <1>1, <1>2, <1>3 DEF Next

LEMMA DeploymentInvariant == Spec => []DeploymentInv
  BY DeploymentInvInit, DeploymentInvStep, PTL DEF Spec

\* Whatever cuts the scripts send, and wherever one dies or a cut is refused, the
\* routing the proxy uses and the lists the loupe answers with agree: removeFunction's
\* swap-and-pop and removeFacet's (LibDiamond) keep both indices in step.
THEOREM LoupeAlwaysConsistent == Spec => []LoupeConsistent
  <1>1. DeploymentInv => LoupeConsistent
    BY MidwayIsIndexed DEF DeploymentInv, Reached, LoupeConsistent
  <1> QED
    BY <1>1, DeploymentInvariant, PTL

\* A market gets its pool only when its price has been posted, although
\* initializePool does not ask, and the manifest lists only markets that have a
\* pool: 09-add-market.js goes on to the pool only after the price is in.
THEOREM PoolsHavePrices == Spec => []PoolHasPrice
  <1>1. DeploymentInv => PoolHasPrice
    BY DEF DeploymentInv, MarketsSound, ListsPools, PoolHasPrice
  <1> QED
    BY <1>1, DeploymentInvariant, PTL

-----------------------------------------------------------------------------
(* What a transaction of cuts does to the routes.                          *)

\* The functions of a set, which were at one of some addresses, are now at
\* address b; the others are where they were.
Rerouted(t, u, set, from, b) ==
    /\ \A s \in set : t.facetOf[s] \in from
    /\ \A s \in Selectors : u.facetOf[s] = IF s \in set THEN b ELSE t.facetOf[s]

\* One round of a loop that is not refused.
ReroutesOne(t, u, s, from, b) ==
    u.ok => /\ t.ok /\ t.facetOf[s] \in from
            /\ u.facetOf = [t.facetOf EXCEPT ![s] = b]

LEMMA AddReroutes ==
    ASSUME NEW t \in Tables, NEW a \in Addresses, NEW s \in Selectors
    PROVE  ReroutesOne(t, AddOne(t, a, s), s, {0}, a)
  <1>1. CASE ~t.ok \/ t.facetOf[s] # 0
    BY <1>1, RefuseTable DEF AddOne, ReroutesOne
  <1>2. CASE t.ok /\ t.facetOf[s] = 0
    <2>1. AddOne(t, a, s) = addFunction(t, s, a)
      BY <1>2 DEF AddOne
    <2>2. addFunction(t, s, a).facetOf = [t.facetOf EXCEPT ![s] = a]
      BY DEF addFunction, Tables
    <2> QED
      BY <1>2, <2>1, <2>2 DEF ReroutesOne
  <1> QED
    BY <1>1, <1>2

LEMMA RemovedRoute ==
    ASSUME NEW t \in Tables, NEW s \in Selectors, t.facetOf[s] # 0
    PROVE  /\ removeFunction(t, s).facetOf = [t.facetOf EXCEPT ![s] = 0]
           /\ removeFunction(t, s).ok = t.ok
  <1> DEFINE a == t.facetOf[s]
             last == Last(t.list[a])
             gap == t.posOf[s]
             without == [t EXCEPT !.list[a] = Front([@ EXCEPT ![gap + 1] = last]),
                                  !.posOf = [@ EXCEPT ![last] = gap, ![s] = 0],
                                  !.facetOf[s] = 0]
  <1>1. removeFunction(t, s) = IF Len(t.list[a]) = 1 THEN dropFacet(without, a) ELSE without
    BY DEF removeFunction
  <1>2. without.facetOf = [t.facetOf EXCEPT ![s] = 0] /\ without.ok = t.ok
    BY DEF Tables
  <1>3. \A u, x : dropFacet(u, x).facetOf = u.facetOf /\ dropFacet(u, x).ok = u.ok
    BY DEF dropFacet
  <1> HIDE DEF without, a
  <1> QED
    BY <1>1, <1>2, <1>3

LEMMA ReplaceReroutes ==
    ASSUME NEW a \in Addresses, NEW t \in Reached(a), NEW s \in Selectors
    PROVE  ReroutesOne(t, ReplaceOne(t, a, s), s, Addresses \ {a}, a)
  <1>1. t \in Tables /\ (t.ok => Midway(t, a))
    BY DEF Reached
  <1>2. CASE ~t.ok \/ t.facetOf[s] \in {0, a}
    BY <1>1, <1>2, RefuseTable DEF ReplaceOne, ReroutesOne
  <1>3. CASE t.ok /\ t.facetOf[s] \notin {0, a}
    <2>1. PICK u : u = removeFunction(t, s)
      OBVIOUS
    <2>2. u \in Tables /\ u.facetOf = [t.facetOf EXCEPT ![s] = 0]
      BY <1>1, <1>3, <2>1, RemoveKeeps, RemovedRoute
    <2>3. ReplaceOne(t, a, s) = addFunction(u, s, a)
      BY <1>3, <2>1 DEF ReplaceOne
    <2>4. addFunction(u, s, a).facetOf = [u.facetOf EXCEPT ![s] = a]
      BY <2>2 DEF addFunction, Tables
    <2>5. t.facetOf \in [Selectors -> 0..MaxAddress]
      BY <1>1 DEF Tables
    <2>6. t.facetOf[s] \in Addresses \ {a}
      BY <1>3, <2>5, AddressesAreNat
    <2> QED
      BY <1>3, <2>2, <2>3, <2>4, <2>5, <2>6 DEF ReroutesOne
  <1> QED
    BY <1>2, <1>3

LEMMA RemoveReroutes ==
    ASSUME NEW t \in Reached(0), NEW s \in Selectors
    PROVE  ReroutesOne(t, RemoveOne(t, s), s, Addresses, 0)
  <1>1. t \in Tables
    BY DEF Reached
  <1>2. CASE ~t.ok
    BY <1>2 DEF RemoveOne, ReroutesOne
  <1>3. CASE t.ok /\ t.facetOf[s] = 0
    <2>1. RemoveOne(t, s) = Refuse(t)
      BY <1>3 DEF RemoveOne, removeFunction
    <2> QED
      BY <1>1, <2>1, RefuseTable DEF ReroutesOne
  <1>4. CASE t.ok /\ t.facetOf[s] # 0
    <2>1. RemoveOne(t, s) = removeFunction(t, s)
      BY <1>4 DEF RemoveOne
    <2>2. t.facetOf[s] \in Addresses
      BY <1>1, <1>4, AddressesAreNat DEF Tables
    <2> QED
      BY <1>1, <1>4, <2>1, <2>2, RemovedRoute DEF ReroutesOne
  <1> QED
    BY <1>2, <1>3, <1>4

\* A loop each of whose rounds takes one function of the list to address b,
\* from an address other than b.
LEMMA LoopReroutes ==
    ASSUME NEW seq \in Seq(Selectors), NEW h, NEW from, NEW b, b \notin from,
           \A i \in 0..Len(seq) : h[i] \in Tables,
           \A i \in 1..Len(seq) : ReroutesOne(h[i - 1], h[i], seq[i], from, b),
           h[Len(seq)].ok
    PROVE  h[0].ok /\ Rerouted(h[0], h[Len(seq)], ToSet(seq), from, b)
  <1>1. PICK n \in Nat : n = Len(seq)
    BY LenProperties
  <1>2. \A i \in 1..n : seq[i] \in Selectors
    BY <1>1, ElementOfSeq
  <1> DEFINE UpTo(k) == {seq[i] : i \in 1..k}
             Good(k) == h[k].ok => h[0].ok /\ Rerouted(h[0], h[k], UpTo(k), from, b)
             N == {k \in Nat : k <= n => Good(k)}
  <1>3. 0 \in N
    <2>1. UpTo(0) = {}
      OBVIOUS
    <2> QED
      BY <2>1 DEF Rerouted
  <1>4. ASSUME NEW k \in Nat, k \in N
        PROVE  k + 1 \in N
    <2> SUFFICES ASSUME k + 1 <= n PROVE Good(k + 1)
      OBVIOUS
    <2>1. PICK j \in 1..n : j = k + 1 /\ j - 1 = k
      OBVIOUS
    <2>2. ReroutesOne(h[k], h[j], seq[j], from, b) /\ h[k] \in Tables /\ h[j] \in Tables
      <3>1. k \in 0..n /\ j \in 0..n
        BY <2>1
      <3> QED
        BY <1>1, <2>1, <3>1
    <2>3. UpTo(j) = UpTo(k) \cup {seq[j]}
      <3>1. \A i : i \in 1..j <=> i \in 1..k \/ i = j
        BY <2>1
      <3> QED
        BY <3>1
    <2>4. Good(k)
      BY <1>4
    <2>5. seq[j] \in Selectors
      BY <1>2
    <2>6. PICK x, set, more : x = seq[j] /\ set = UpTo(k) /\ more = UpTo(j)
      OBVIOUS
    <2> HIDE DEF UpTo
    <2>7. ASSUME h[j].ok
          PROVE  h[0].ok /\ Rerouted(h[0], h[j], more, from, b)
      <3>1. /\ h[k].ok /\ h[k].facetOf[x] \in from
            /\ h[j].facetOf = [h[k].facetOf EXCEPT ![x] = b]
        BY <2>2, <2>6, <2>7 DEF ReroutesOne
      <3>2. h[0].ok /\ Rerouted(h[0], h[k], set, from, b)
        BY <2>4, <2>6, <3>1
      <3>3. x \in Selectors /\ more = set \cup {x}
        BY <2>3, <2>5, <2>6
      <3>4. x \notin set /\ h[0].facetOf[x] \in from
        BY <3>1, <3>2, <3>3 DEF Rerouted
      <3>5. h[k].facetOf \in [Selectors -> 0..MaxAddress]
        BY <2>2 DEF Tables
      <3>6. \A s \in Selectors : h[j].facetOf[s] = IF s = x THEN b ELSE h[k].facetOf[s]
        BY <3>1, <3>5
      <3> QED
        BY <3>2, <3>3, <3>4, <3>6 DEF Rerouted
    <2> QED
      BY <2>1, <2>6, <2>7
  <1>5. n \in N
    <2> HIDE DEF N
    <2> QED
      BY <1>3, <1>4, NatSetInd
  <1>6. ToSet(seq) = UpTo(n)
    BY <1>1, LenProperties DEF ToSet
  <1> QED
    BY <1>1, <1>5, <1>6

\* A transaction of no cut, and of one.
LEMMA CutsOfOne ==
    ASSUME NEW t \in Reached(0), NEW action \in {"Add", "Replace", "Remove"},
           NEW a \in 0..MaxAddress, NEW selectors \in Seq(Selectors)
    PROVE  /\ diamondCut(t, <<>>) = t
           /\ diamondCut(t, CutOf(action, a, selectors)) =
                 IF selectors = <<>> THEN t
                 ELSE ApplyCut(t, [action |-> action, facet |-> a, selectors |-> selectors])
  <1>1. PICK D, E, base : D = Reached(0) /\ E = Cut /\ base = t
    OBVIOUS
  <1>2. (\A d \in D, e \in E : ApplyCut(d, e) \in D) /\ base \in D
    BY <1>1, CutKeeps
  <1>3. diamondCut(t, <<>>) = t
    <2>1. PICK none : none = <<>>
      OBVIOUS
    <2>2. none \in Seq(E) /\ Len(none) = 0
      BY <2>1, EmptySeq
    <2>3. CutStages(base, none, D)
      BY ONLY <1>2, <2>2, CutFold
    <2>4. diamondCut(base, none) = base
      BY <2>2, <2>3 DEF CutStages
    <2> QED
      BY <1>1, <2>1, <2>4
  <1>4. ASSUME selectors # <<>>
        PROVE  diamondCut(t, CutOf(action, a, selectors)) =
                  ApplyCut(t, [action |-> action, facet |-> a, selectors |-> selectors])
    <2>1. PICK cut : cut = [action |-> action, facet |-> a, selectors |-> selectors]
      OBVIOUS
    <2>2. cut \in Cut
      BY <2>1 DEF Cut
    <2>3. PICK cuts : cuts = <<cut>>
      OBVIOUS
    <2>4. cuts \in Seq(E) /\ Len(cuts) = 1 /\ cuts[1] = cut
      BY <1>1, <2>2, <2>3
    <2>5. OneCutMade(base, cuts)
      BY ONLY <1>2, <2>4, CutFold
    <2>6. diamondCut(base, cuts) = ApplyCut(base, cut)
      BY <2>4, <2>5 DEF OneCutMade
    <2>7. CutOf(action, a, selectors) = cuts
      BY <1>4, <2>1, <2>3 DEF CutOf
    <2> QED
      BY <1>1, <2>1, <2>6, <2>7
  <1>5. ASSUME selectors = <<>> PROVE CutOf(action, a, selectors) = <<>>
    BY <1>5 DEF CutOf
  <1> QED
    BY <1>3, <1>4, <1>5

\* A transaction that adds a list of functions, if any, and is not refused.
LEMMA AddRoutes ==
    ASSUME NEW t \in Reached(0), NEW a \in Addresses, NEW selectors \in Seq(Selectors),
           NEW u, u = diamondCut(t, CutOf("Add", a, selectors)), u.ok
    PROVE  t.ok /\ Rerouted(t, u, ToSet(selectors), {0}, a)
  <1>1. a \in 0..MaxAddress /\ a # 0
    BY AddressesAreNat
  <1>2. CASE selectors = <<>>
    <2>1. u = t
      BY <1>1, <1>2, CutsOfOne
    <2>2. ToSet(selectors) = {}
      BY <1>2 DEF ToSet
    <2> QED
      BY <2>1, <2>2 DEF Rerouted
  <1>3. CASE selectors # <<>>
    <2>1. PICK cut : cut = [action |-> "Add", facet |-> a, selectors |-> selectors]
      OBVIOUS
    <2>2. u = ApplyCut(t, cut)
      BY <1>1, <1>3, <2>1, CutsOfOne
    <2>3. t.ok
      BY <2>2 DEF ApplyCut
    <2>4. PICK base : base = Announce(t, a)
      OBVIOUS
    <2>5. u = AllAdded(a, base, selectors)
      <3>1. u = addFunctions(t, a, selectors)
        BY <2>1, <2>2, <2>3 DEF ApplyCut
      <3> QED
        BY <1>1, <1>3, <2>4, <3>1 DEF addFunctions, AllAdded
    <2>6. t \in Tables /\ Midway(t, 0)
      BY <2>3 DEF Reached
    <2>7. base \in Reached(a) /\ base.facetOf = t.facetOf
      BY <2>4, <2>6, AnnounceKeeps, AnnounceOnlyLists
    <2>8. AddStages(a, base, selectors, Reached(a))
      <3>1. PICK D, seq : D = Reached(a) /\ seq = selectors
        OBVIOUS
      <3>2. \A d \in D, s \in Selectors : AddOne(d, a, s) \in D
        BY <3>1, AddRound
      <3>3. base \in D /\ seq \in Seq(Selectors)
        BY <2>7, <3>1
      <3>4. AddStages(a, base, seq, D)
        BY ONLY <3>2, <3>3, AddFold
      <3> QED
        BY <3>1, <3>4
    <2>9. PICK h : /\ h[0] = base /\ h[Len(selectors)] = u
                   /\ \A i \in 0..Len(selectors) : h[i] \in Reached(a)
                   /\ \A i \in 1..Len(selectors) : h[i] = AddOne(h[i - 1], a, selectors[i])
      BY <2>5, <2>8 DEF AddStages
    <2>10. \A i \in 1..Len(selectors) : ReroutesOne(h[i - 1], h[i], selectors[i], {0}, a)
      <3> TAKE i \in 1..Len(selectors)
      <3>1. PICK x, y, s : x = h[i - 1] /\ y = h[i] /\ s = selectors[i]
        OBVIOUS
      <3>2. i - 1 \in 0..Len(selectors) /\ s \in Selectors
        BY <3>1, LenProperties, ElementOfSeq
      <3>3. x \in Tables /\ y = AddOne(x, a, s)
        BY <2>9, <3>1, <3>2 DEF Reached
      <3>4. ReroutesOne(x, y, s, {0}, a)
        BY <3>2, <3>3, AddReroutes
      <3> QED
        BY <3>1, <3>4
    <2>11. \A i \in 0..Len(selectors) : h[i] \in Tables
      BY <2>9 DEF Reached
    <2>12. PICK from : from = {0}
      OBVIOUS
    <2>13. Rerouted(h[0], h[Len(selectors)], ToSet(selectors), from, a)
      <3>1. a \notin from
        BY <1>1, <2>12
      <3>2. h[Len(selectors)].ok
        BY <2>9
      <3> QED
        BY <2>10, <2>11, <2>12, <3>1, <3>2, LoopReroutes
    <2> QED
      BY <2>3, <2>7, <2>9, <2>12, <2>13 DEF Rerouted
  <1> QED
    BY <1>2, <1>3

\* A transaction that replaces a list of functions, if any, and is not refused.
LEMMA ReplaceRoutes ==
    ASSUME NEW t \in Reached(0), NEW a \in Addresses, NEW selectors \in Seq(Selectors),
           NEW u, u = diamondCut(t, CutOf("Replace", a, selectors)), u.ok
    PROVE  t.ok /\ Rerouted(t, u, ToSet(selectors), Addresses \ {a}, a)
  <1>1. a \in 0..MaxAddress /\ a # 0
    BY AddressesAreNat
  <1>2. CASE selectors = <<>>
    <2>1. u = t
      BY <1>1, <1>2, CutsOfOne
    <2>2. ToSet(selectors) = {}
      BY <1>2 DEF ToSet
    <2> QED
      BY <2>1, <2>2 DEF Rerouted
  <1>3. CASE selectors # <<>>
    <2>1. PICK cut : cut = [action |-> "Replace", facet |-> a, selectors |-> selectors]
      OBVIOUS
    <2>2. u = ApplyCut(t, cut)
      BY <1>1, <1>3, <2>1, CutsOfOne
    <2>3. t.ok
      BY <2>2 DEF ApplyCut
    <2>4. PICK base : base = Announce(t, a)
      OBVIOUS
    <2>5. u = AllReplaced(a, base, selectors)
      <3>1. u = replaceFunctions(t, a, selectors)
        BY <2>1, <2>2, <2>3 DEF ApplyCut
      <3> QED
        BY <1>1, <1>3, <2>4, <3>1 DEF replaceFunctions, AllReplaced
    <2>6. t \in Tables /\ Midway(t, 0)
      BY <2>3 DEF Reached
    <2>7. base \in Reached(a) /\ base.facetOf = t.facetOf
      BY <2>4, <2>6, AnnounceKeeps, AnnounceOnlyLists
    <2>8. ReplaceStages(a, base, selectors, Reached(a))
      <3>1. PICK D, seq : D = Reached(a) /\ seq = selectors
        OBVIOUS
      <3>2. \A d \in D, s \in Selectors : ReplaceOne(d, a, s) \in D
        BY <3>1, ReplaceRound
      <3>3. base \in D /\ seq \in Seq(Selectors)
        BY <2>7, <3>1
      <3>4. ReplaceStages(a, base, seq, D)
        BY ONLY <3>2, <3>3, ReplaceFold
      <3> QED
        BY <3>1, <3>4
    <2>9. PICK h : /\ h[0] = base /\ h[Len(selectors)] = u
                   /\ \A i \in 0..Len(selectors) : h[i] \in Reached(a)
                   /\ \A i \in 1..Len(selectors) : h[i] = ReplaceOne(h[i - 1], a, selectors[i])
      BY <2>5, <2>8 DEF ReplaceStages
    <2>10. \A i \in 1..Len(selectors) : ReroutesOne(h[i - 1], h[i], selectors[i], Addresses \ {a}, a)
      <3> TAKE i \in 1..Len(selectors)
      <3>1. PICK x, y, s : x = h[i - 1] /\ y = h[i] /\ s = selectors[i]
        OBVIOUS
      <3>2. i - 1 \in 0..Len(selectors) /\ s \in Selectors
        BY <3>1, LenProperties, ElementOfSeq
      <3>3. x \in Reached(a) /\ y = ReplaceOne(x, a, s)
        BY <2>9, <3>1, <3>2
      <3>4. ReroutesOne(x, y, s, Addresses \ {a}, a)
        BY <3>2, <3>3, ReplaceReroutes
      <3> QED
        BY <3>1, <3>4
    <2>11. \A i \in 0..Len(selectors) : h[i] \in Tables
      BY <2>9 DEF Reached
    <2>12. PICK from : from = Addresses \ {a}
      OBVIOUS
    <2>13. Rerouted(h[0], h[Len(selectors)], ToSet(selectors), from, a)
      <3>1. a \notin from
        BY <1>1, <2>12
      <3>2. h[Len(selectors)].ok
        BY <2>9
      <3> QED
        BY <2>10, <2>11, <2>12, <3>1, <3>2, LoopReroutes
    <2> QED
      BY <2>3, <2>7, <2>9, <2>12, <2>13 DEF Rerouted
  <1> QED
    BY <1>2, <1>3

\* The same of removing, which names no facet.
LEMMA RemoveRoutes ==
    ASSUME NEW t \in Reached(0), NEW selectors \in Seq(Selectors),
           NEW u, u = diamondCut(t, CutOf("Remove", 0, selectors)), u.ok
    PROVE  t.ok /\ Rerouted(t, u, ToSet(selectors), Addresses, 0)
  <1>1. 0 \in 0..MaxAddress /\ 0 \notin Addresses
    BY AddressesAreNat
  <1>2. CASE selectors = <<>>
    <2>1. u = t
      BY <1>1, <1>2, CutsOfOne
    <2>2. ToSet(selectors) = {}
      BY <1>2 DEF ToSet
    <2> QED
      BY <2>1, <2>2 DEF Rerouted
  <1>3. CASE selectors # <<>>
    <2>1. PICK cut : cut = [action |-> "Remove", facet |-> 0, selectors |-> selectors]
      OBVIOUS
    <2>2. u = ApplyCut(t, cut)
      BY <1>1, <1>3, <2>1, CutsOfOne
    <2>3. t.ok
      BY <2>2 DEF ApplyCut
    <2>4. u = FoldLeft(RemoveOne, t, selectors)
      <3>1. u = removeFunctions(t, 0, selectors)
        BY <2>1, <2>2, <2>3 DEF ApplyCut
      <3> QED
        BY <1>3, <3>1 DEF removeFunctions
    <2>5. RemoveStages(t, selectors, Reached(0))
      <3>1. PICK D, base, seq : D = Reached(0) /\ base = t /\ seq = selectors
        OBVIOUS
      <3>2. \A d \in D, s \in Selectors : RemoveOne(d, s) \in D
        BY <3>1, RemoveRound
      <3>3. base \in D /\ seq \in Seq(Selectors)
        BY <3>1
      <3>4. RemoveStages(base, seq, D)
        BY ONLY <3>2, <3>3, RemoveFold
      <3> QED
        BY <3>1, <3>4
    <2>6. PICK h : /\ h[0] = t /\ h[Len(selectors)] = u
                   /\ \A i \in 0..Len(selectors) : h[i] \in Reached(0)
                   /\ \A i \in 1..Len(selectors) : h[i] = RemoveOne(h[i - 1], selectors[i])
      BY <2>4, <2>5 DEF RemoveStages
    <2>7. \A i \in 1..Len(selectors) : ReroutesOne(h[i - 1], h[i], selectors[i], Addresses, 0)
      <3> TAKE i \in 1..Len(selectors)
      <3>1. PICK x, y, s : x = h[i - 1] /\ y = h[i] /\ s = selectors[i]
        OBVIOUS
      <3>2. i - 1 \in 0..Len(selectors) /\ s \in Selectors
        BY <3>1, LenProperties, ElementOfSeq
      <3>3. x \in Reached(0) /\ y = RemoveOne(x, s)
        BY <2>6, <3>1, <3>2
      <3>4. ReroutesOne(x, y, s, Addresses, 0)
        BY <3>2, <3>3, RemoveReroutes
      <3> QED
        BY <3>1, <3>4
    <2>8. \A i \in 0..Len(selectors) : h[i] \in Tables
      BY <2>6 DEF Reached
    <2>9. PICK b, from : b = 0 /\ from = Addresses
      OBVIOUS
    <2>10. Rerouted(h[0], h[Len(selectors)], ToSet(selectors), from, b)
      <3>1. b \notin from
        BY <1>1, <2>9
      <3>2. h[Len(selectors)].ok
        BY <2>6
      <3> QED
        BY <2>7, <2>8, <2>9, <3>1, <3>2, LoopReroutes
    <2> QED
      BY <2>3, <2>6, <2>9, <2>10
  <1> QED
    BY <1>2, <1>3

StagesFrom(h, n, seq) == \A i \in 1..n : h[i] = ApplyCut(h[i - 1], seq[i])

\* The stages of a transaction are fixed by where it starts.
LEMMA SameStages ==
    ASSUME NEW n \in Nat, NEW h, NEW g, NEW seq, h[0] = g[0],
           StagesFrom(h, n, seq), StagesFrom(g, n, seq)
    PROVE  h[n] = g[n]
  <1> DEFINE N == {i \in Nat : i <= n => h[i] = g[i]}
  <1>1. 0 \in N
    OBVIOUS
  <1>2. ASSUME NEW i \in Nat, i \in N
        PROVE  i + 1 \in N
    <2> SUFFICES ASSUME i + 1 <= n PROVE h[i + 1] = g[i + 1]
      OBVIOUS
    <2>1. PICK j \in 1..n : j = i + 1 /\ j - 1 = i
      OBVIOUS
    <2>2. h[i] = g[i]
      BY <1>2
    <2>3. h[j] = ApplyCut(h[j - 1], seq[j]) /\ g[j] = ApplyCut(g[j - 1], seq[j])
      BY DEF StagesFrom
    <2> QED
      BY <2>1, <2>2, <2>3
  <1>3. n \in N
    <2> HIDE DEF N
    <2> QED
      BY <1>1, <1>2, NatSetInd
  <1> QED
    BY <1>3

\* One transaction of the cuts of two.
LEMMA CutsJoined ==
    ASSUME NEW t \in Reached(0), NEW p \in Seq(Cut), NEW q \in Seq(Cut)
    PROVE  diamondCut(t, p \o q) = diamondCut(diamondCut(t, p), q)
  <1>1. PICK D, E, base, r, mid : /\ D = Reached(0) /\ E = Cut /\ base = t /\ r = p \o q
                                  /\ mid = diamondCut(t, p)
    OBVIOUS
  <1>2. (\A d \in D, e \in E : ApplyCut(d, e) \in D) /\ base \in D /\ mid \in D
    BY <1>1, CutKeeps, diamondCutKeeps
  <1>3. PICK n, m : n = Len(p) /\ m = Len(q) /\ n \in Nat /\ m \in Nat
    BY LenProperties
  <1>4. /\ r \in Seq(E) /\ Len(r) = n + m
        /\ \A i \in 1..(n + m) : r[i] = IF i <= n THEN p[i] ELSE q[i - n]
    BY <1>1, <1>3, ConcatProperties
  <1>5. CutStages(base, r, D) /\ CutStages(base, p, D) /\ CutStages(mid, q, D)
    <2>1. p \in Seq(E) /\ q \in Seq(E) /\ r \in Seq(E)
      BY <1>1, <1>4
    <2>2. \A b \in D, seq \in Seq(E) : CutStages(b, seq, D)
      BY ONLY <1>2, CutFold
    <2> QED
      BY <1>2, <2>1, <2>2
  <1>6. PICK h : /\ h[0] = base /\ h[n + m] = diamondCut(base, r)
                 /\ \A i \in 1..(n + m) : h[i] = ApplyCut(h[i - 1], r[i])
    BY <1>4, <1>5 DEF CutStages
  <1>7. PICK g : /\ g[0] = base /\ g[n] = diamondCut(base, p)
                 /\ \A i \in 1..n : g[i] = ApplyCut(g[i - 1], p[i])
    BY <1>3, <1>5 DEF CutStages
  <1>8. PICK f : /\ f[0] = mid /\ f[m] = diamondCut(mid, q)
                 /\ \A i \in 1..m : f[i] = ApplyCut(f[i - 1], q[i])
    BY <1>3, <1>5 DEF CutStages
  <1>9. h[n] = mid
    <2>1. \A i \in 1..n : h[i] = ApplyCut(h[i - 1], p[i])
      BY <1>3, <1>4, <1>6
    <2>2. StagesFrom(h, n, p) /\ StagesFrom(g, n, p) /\ h[0] = g[0]
      BY <1>6, <1>7, <2>1 DEF StagesFrom
    <2>3. h[n] = g[n]
      BY <1>3, <2>2, SameStages
    <2> QED
      BY <1>1, <1>7, <2>3
  <1>10. PICK late : late = [i \in 0..m |-> h[n + i]]
    OBVIOUS
  <1>11. late[0] = mid /\ late[m] = h[n + m]
    BY <1>3, <1>9, <1>10
  <1>12. \A i \in 1..m : late[i] = ApplyCut(late[i - 1], q[i])
    <2> TAKE i \in 1..m
    <2>1. PICK j \in 1..(n + m) : j = n + i /\ j - 1 = n + (i - 1) /\ ~(j <= n) /\ j - n = i
      BY <1>3
    <2>2. h[j] = ApplyCut(h[j - 1], r[j]) /\ r[j] = q[j - n]
      BY <1>4, <1>6, <2>1
    <2>3. late[i] = h[n + i] /\ late[i - 1] = h[n + (i - 1)]
      BY <1>3, <1>10
    <2> QED
      BY <2>1, <2>2, <2>3
  <1>13. late[m] = f[m]
    <2>1. StagesFrom(late, m, q) /\ StagesFrom(f, m, q) /\ late[0] = f[0]
      BY <1>8, <1>11, <1>12 DEF StagesFrom
    <2> QED
      BY <1>3, <2>1, SameStages
  <1> QED
    BY <1>1, <1>6, <1>8, <1>11, <1>13

\* A list with one more entry.
LEMMA AppendedSet ==
    ASSUME NEW list \in Seq(Selectors), NEW s \in Selectors
    PROVE  ToSet(Append(list, s)) = ToSet(list) \cup {s}
  <1>1. PICK n, new : n = Len(list) /\ n \in Nat /\ new = Append(list, s)
    BY LenProperties
  <1>2. /\ new \in Seq(Selectors) /\ Len(new) = n + 1 /\ new[n + 1] = s
        /\ \A i \in 1..n : new[i] = list[i]
    BY <1>1, AppendProperties
  <1>3. /\ DOMAIN list = 1..n /\ DOMAIN new = 1..(n + 1)
    BY <1>1, <1>2, LenProperties
  <1>4. \A i : i \in 1..(n + 1) <=> i \in 1..n \/ i = n + 1
    BY <1>1
  <1>5. ToSet(new) = ToSet(list) \cup {s}
    BY <1>2, <1>3, <1>4 DEF ToSet
  <1> QED
    BY <1>1, <1>5

\* What a list keeps of the selectors are those in the set.
LEMMA KeptIn ==
    ASSUME NEW selectors \in Seq(Selectors), NEW set
    PROVE  ToSet(OnlyIn(selectors, set)) = ToSet(selectors) \cap set
  <1>1. PICK D, seq : D = Seq(Selectors) /\ seq = selectors
    OBVIOUS
  <1>2. /\ \A d \in D, e \in Selectors : KeepIn(d, e, set) \in D
        /\ <<>> \in D /\ seq \in Seq(Selectors)
    <2>1. \A d \in Seq(Selectors), e \in Selectors : KeepIn(d, e, set) \in Seq(Selectors)
      BY AppendProperties DEF KeepIn
    <2> QED
      BY <1>1, <2>1, EmptySeq
  <1>3. KeepStages(set, seq, D)
    BY ONLY <1>2, KeepFold
  <1>4. PICK n \in Nat : n = Len(seq)
    BY <1>2, LenProperties
  <1>5. PICK h : /\ h[0] = <<>> /\ h[n] = OnlyIn(seq, set)
                 /\ \A i \in 0..n : h[i] \in Seq(Selectors)
                 /\ \A i \in 1..n : h[i] = KeepIn(h[i - 1], seq[i], set)
    BY <1>1, <1>3, <1>4 DEF KeepStages
  <1>6. \A i \in 1..n : seq[i] \in Selectors
    BY <1>2, <1>4, ElementOfSeq
  <1> DEFINE UpTo(k) == {seq[i] : i \in 1..k}
             N == {k \in Nat : k <= n => ToSet(h[k]) = UpTo(k) \cap set}
  <1>7. 0 \in N
    <2>1. UpTo(0) = {}
      OBVIOUS
    <2>2. ToSet(<<>>) = {}
      BY DEF ToSet
    <2> HIDE DEF UpTo
    <2> QED
      BY <1>5, <2>1, <2>2
  <1>8. ASSUME NEW k \in Nat, k \in N
        PROVE  k + 1 \in N
    <2> SUFFICES ASSUME k + 1 <= n PROVE ToSet(h[k + 1]) = UpTo(k + 1) \cap set
      OBVIOUS
    <2>1. PICK j \in 1..n : j = k + 1 /\ j - 1 = k
      OBVIOUS
    <2>2. UpTo(j) = UpTo(k) \cup {seq[j]}
      <3>1. \A i : i \in 1..j <=> i \in 1..k \/ i = j
        BY <2>1
      <3> QED
        BY <3>1
    <2>3. ToSet(h[k]) = UpTo(k) \cap set
      BY <1>8
    <2> HIDE DEF UpTo
    <2>4. PICK old, new, s : old = h[k] /\ new = h[j] /\ s = seq[j]
      OBVIOUS
    <2>5. s \in Selectors /\ old \in Seq(Selectors) /\ new = KeepIn(old, s, set)
      <3>1. k \in 0..n
        BY <2>1
      <3> QED
        BY <1>5, <1>6, <2>1, <2>4, <3>1
    <2>6. ToSet(new) = IF s \in set THEN ToSet(old) \cup {s} ELSE ToSet(old)
      BY <2>5, AppendedSet DEF KeepIn
    <2>7. ToSet(new) = UpTo(j) \cap set
      BY <2>2, <2>3, <2>4, <2>6
    <2> QED
      BY <2>1, <2>4, <2>7
  <1>9. n \in N
    <2> HIDE DEF N
    <2> QED
      BY <1>7, <1>8, NatSetInd
  <1>10. ToSet(seq) = UpTo(n)
    BY <1>2, <1>4, LenProperties DEF ToSet
  <1> QED
    BY <1>1, <1>5, <1>9, <1>10

\* What a list leaves out are those in the set.
LEMMA LeftOut ==
    ASSUME NEW selectors \in Seq(Selectors), NEW set
    PROVE  ToSet(NotIn(selectors, set)) = ToSet(selectors) \ set
  <1>1. PICK others : others = ToSet(selectors) \ set
    OBVIOUS
  <1>2. ToSet(OnlyIn(selectors, others)) = ToSet(selectors) \cap others
    BY KeptIn
  <1>3. NotIn(selectors, set) = OnlyIn(selectors, others)
    BY <1>1 DEF NotIn
  <1> QED
    BY <1>1, <1>2, <1>3

-----------------------------------------------------------------------------
(* What putting a contract in the place of another does.                   *)

\* Functions change their facet only to facet a or to none, and only those that
\* had none or were at an old one.
Moves(t, u, a, old) ==
    /\ t.ok
    /\ \A s \in Selectors : u.facetOf[s] \in {0, a, t.facetOf[s]}
    /\ \A s \in Selectors : u.facetOf[s] # t.facetOf[s] => t.facetOf[s] \in {0, old}

\* A function that is then at facet a is in the set, one that then is nowhere is
\* among those dropped.
Brings(t, u, a, set, dropped) ==
    /\ \A s \in Selectors : u.facetOf[s] = a => s \in set
    /\ \A s \in Selectors : u.facetOf[s] = 0 => t.facetOf[s] = 0 \/ s \in dropped

\* The functions of facet a are those of a set.
Lands(u, a, set) == \A s \in Selectors : u.facetOf[s] = a <=> s \in set

LEMMA DeployMoves ==
    ASSUME NEW t \in Reached(0), NEW a \in Addresses, NEW selectors \in Seq(Selectors), NEW old,
           t.ok => \A s \in Selectors : t.facetOf[s] # a,
           NEW u, u = diamondCut(t, CutOf("Add", a, selectors)), u.ok
    PROVE  Moves(t, u, a, old) /\ Lands(u, a, ToSet(selectors)) /\ Brings(t, u, a, ToSet(selectors), {})
  <1>1. t.ok /\ Rerouted(t, u, ToSet(selectors), {0}, a)
    BY AddRoutes
  <1>2. \A s \in ToSet(selectors) : s \in Selectors
    BY EntryOf
  <1>3. PICK set : set = ToSet(selectors)
    OBVIOUS
  <1>4. a # 0
    BY AddressesAreNat
  <1> QED
    BY <1>1, <1>2, <1>3, <1>4 DEF Rerouted, Moves, Lands, Brings

\* The functions that the new code of a facet adds, takes over and drops.
Differs(add, replace, remove, new, old) ==
    /\ add \in Seq(Selectors) /\ replace \in Seq(Selectors) /\ remove \in Seq(Selectors)
    /\ new \subseteq Selectors /\ old \subseteq Selectors
    /\ ToSet(add) = new \ old /\ ToSet(replace) = new \cap old /\ ToSet(remove) = old \ new

LEMMA UpgradeMoves ==
    ASSUME NEW t \in Reached(0), NEW a \in Addresses, NEW b, NEW mode \in Modes \cup {"V2"},
           NEW add, NEW replace, NEW remove, NEW new, NEW old, Differs(add, replace, remove, new, old),
           t.ok => /\ \A s \in Selectors : t.facetOf[s] # a
                   /\ \A s \in old : t.facetOf[s] = b,
           NEW u, u.ok,
           u = diamondCut(t, UpgradeCuts([add |-> add, replace |-> replace, remove |-> remove], a, mode))
    PROVE  Moves(t, u, a, b) /\ (mode # "ADD_NEW" => Lands(u, a, new)) /\ Brings(t, u, a, new, old \ new)
  <1>0. /\ add \in Seq(Selectors) /\ replace \in Seq(Selectors) /\ remove \in Seq(Selectors)
        /\ new \subseteq Selectors /\ old \subseteq Selectors
        /\ ToSet(add) = new \ old /\ ToSet(replace) = new \cap old /\ ToSet(remove) = old \ new
    BY DEF Differs
  <1>1. a \in 0..MaxAddress /\ 0 \in 0..MaxAddress /\ a # 0
    BY AddressesAreNat
  <1>2. PICK A, R, D : A = CutOf("Add", a, add) /\ R = CutOf("Replace", a, replace)
                       /\ D = CutOf("Remove", 0, remove)
    OBVIOUS
  <1>3. A \in Seq(Cut) /\ R \in Seq(Cut) /\ D \in Seq(Cut)
    BY <1>0, <1>1, <1>2, OneCut
  <1>4. R \o A \in Seq(Cut) /\ D \o R \in Seq(Cut)
    BY <1>3, Joined
  <1>5. \A x \in Reached(0) : \A p \in {A, R, D, R \o A, D \o R} : diamondCut(x, p) \in Reached(0)
    BY <1>3, <1>4, diamondCutKeeps
  <1>6. \A x \in Reached(0) : /\ diamondCut(x, R \o A) = diamondCut(diamondCut(x, R), A)
                              /\ diamondCut(x, D \o R) = diamondCut(diamondCut(x, D), R)
    BY <1>3, CutsJoined
  <1>7. /\ diamondCut(t, (D \o R) \o A) = diamondCut(diamondCut(t, D \o R), A)
        /\ diamondCut(t, (R \o A) \o D) = diamondCut(diamondCut(t, R \o A), D)
    BY <1>3, <1>4, CutsJoined
  <1>8. /\ \A x \in Reached(0) : diamondCut(x, A).ok =>
              x.ok /\ Rerouted(x, diamondCut(x, A), new \ old, {0}, a)
        /\ \A x \in Reached(0) : diamondCut(x, R).ok =>
              x.ok /\ Rerouted(x, diamondCut(x, R), new \cap old, Addresses \ {a}, a)
        /\ \A x \in Reached(0) : diamondCut(x, D).ok =>
              x.ok /\ Rerouted(x, diamondCut(x, D), old \ new, Addresses, 0)
    <2>1. ASSUME NEW x \in Reached(0), diamondCut(x, A).ok
          PROVE  x.ok /\ Rerouted(x, diamondCut(x, A), new \ old, {0}, a)
      <3>1. PICK y : y = diamondCut(x, CutOf("Add", a, add)) /\ y.ok
        BY <1>2, <2>1
      <3>2. x \in Reached(0) /\ a \in Addresses /\ add \in Seq(Selectors)
        BY <1>0
      <3>3. x.ok /\ Rerouted(x, y, ToSet(add), {0}, a)
        BY ONLY <3>1, <3>2, AddRoutes
      <3> QED
        BY <1>0, <1>2, <3>1, <3>3
    <2>2. ASSUME NEW x \in Reached(0), diamondCut(x, R).ok
          PROVE  x.ok /\ Rerouted(x, diamondCut(x, R), new \cap old, Addresses \ {a}, a)
      <3>1. PICK y : y = diamondCut(x, CutOf("Replace", a, replace)) /\ y.ok
        BY <1>2, <2>2
      <3>2. x \in Reached(0) /\ a \in Addresses /\ replace \in Seq(Selectors)
        BY <1>0
      <3>3. x.ok /\ Rerouted(x, y, ToSet(replace), Addresses \ {a}, a)
        BY ONLY <3>1, <3>2, ReplaceRoutes
      <3> QED
        BY <1>0, <1>2, <3>1, <3>3
    <2>3. ASSUME NEW x \in Reached(0), diamondCut(x, D).ok
          PROVE  x.ok /\ Rerouted(x, diamondCut(x, D), old \ new, Addresses, 0)
      <3>1. PICK y : y = diamondCut(x, CutOf("Remove", 0, remove)) /\ y.ok
        BY <1>2, <2>3
      <3>2. x \in Reached(0) /\ a \in Addresses /\ remove \in Seq(Selectors)
        BY <1>0
      <3>3. x.ok /\ Rerouted(x, y, ToSet(remove), Addresses, 0)
        BY ONLY <3>1, <3>2, RemoveRoutes
      <3> QED
        BY <1>0, <1>2, <3>1, <3>3
    <2> QED
      BY <2>1, <2>2, <2>3
  <1>9. CASE mode = "ADD_NEW"
    <2>1. u = diamondCut(t, A)
      BY <1>2, <1>9 DEF UpgradeCuts
    <2>2. t.ok /\ Rerouted(t, u, new \ old, {0}, a)
      BY <1>8, <2>1
    <2> QED
      BY <1>0, <1>1, <1>9, <2>2 DEF Rerouted, Moves, Brings
  <1>10. CASE mode = "REPLACE"
    <2>1. PICK x : x = diamondCut(t, R)
      OBVIOUS
    <2>2. u = diamondCut(x, A) /\ x \in Reached(0)
      BY <1>2, <1>5, <1>6, <1>10, <2>1 DEF UpgradeCuts
    <2>3. x.ok /\ Rerouted(x, u, new \ old, {0}, a)
      BY <1>8, <2>2
    <2>4. t.ok /\ Rerouted(t, x, new \cap old, Addresses \ {a}, a)
      BY <1>8, <2>1, <2>3
    <2> QED
      BY <1>0, <1>1, <2>3, <2>4 DEF Rerouted, Moves, Lands, Brings
  <1>11. CASE mode = "FULL"
    <2>1. PICK x, y : x = diamondCut(t, D) /\ y = diamondCut(x, R)
      OBVIOUS
    <2>2. u = diamondCut(y, A) /\ x \in Reached(0) /\ y \in Reached(0)
      <3>1. u = diamondCut(t, (D \o R) \o A)
        BY <1>2, <1>11 DEF UpgradeCuts
      <3> QED
        BY <1>5, <1>6, <1>7, <2>1, <3>1
    <2>3. y.ok /\ Rerouted(y, u, new \ old, {0}, a)
      BY <1>8, <2>2
    <2>4. x.ok /\ Rerouted(x, y, new \cap old, Addresses \ {a}, a)
      BY <1>8, <2>1, <2>2, <2>3
    <2>5. t.ok /\ Rerouted(t, x, old \ new, Addresses, 0)
      BY <1>8, <2>1, <2>4
    <2> QED
      BY <1>0, <1>1, <2>3, <2>4, <2>5 DEF Rerouted, Moves, Lands, Brings
  <1>12. CASE mode = "V2"
    <2>1. PICK x, y : x = diamondCut(t, R) /\ y = diamondCut(x, A)
      OBVIOUS
    <2>2. u = diamondCut(y, D) /\ x \in Reached(0) /\ y \in Reached(0)
      <3>1. u = diamondCut(t, (R \o A) \o D)
        BY <1>2, <1>12 DEF UpgradeCuts
      <3> QED
        BY <1>5, <1>6, <1>7, <2>1, <3>1
    <2>3. y.ok /\ Rerouted(y, u, old \ new, Addresses, 0)
      BY <1>8, <2>2
    <2>4. x.ok /\ Rerouted(x, y, new \ old, {0}, a)
      BY <1>8, <2>1, <2>2, <2>3
    <2>5. t.ok /\ Rerouted(t, x, new \cap old, Addresses \ {a}, a)
      BY <1>8, <2>1, <2>4
    <2> QED
      BY <1>0, <1>1, <2>3, <2>4, <2>5 DEF Rerouted, Moves, Lands, Brings
  <1> QED
    BY <1>9, <1>10, <1>11, <1>12 DEF Modes

-----------------------------------------------------------------------------
(* What the manifests record, and what the diamond serves.                 *)

\* The recorded contracts are among the first k, each is recorded once.
Apart(M, k) ==
    /\ \A n \in Facets : M.facets[n].address <= k
    /\ \A n \in Facets : M.facets[n].address = 0 => M.facets[n].selectors = {}
    /\ \A n, m \in Facets :
          n # m /\ M.facets[n].address # 0 => M.facets[n].address # M.facets[m].address

Blank(M) == \A n \in Facets : M.facets[n] = Unrecorded

\* Functions are routed to the first k contracts only.
Within(t, k) == \A s \in Selectors : t.facetOf[s] <= k

\* Of the functions at recorded contracts none has left.
KeptOf(t, u, M) ==
    \A n \in Facets : M.facets[n].address # 0 =>
        \A s \in Selectors : t.facetOf[s] = M.facets[n].address => u.facetOf[s] = M.facets[n].address

\* The record of each facet says what is served from it.
TrueOf(t, M) ==
    \A n \in Facets : M.facets[n].address # 0 =>
        \A s \in Selectors : s \in M.facets[n].selectors <=> t.facetOf[s] = M.facets[n].address

LEMMA RecordsTyped ==
    /\ \A M \in Manifests, n \in Facets : /\ M.facets[n].address \in Nat
                                          /\ M.facets[n].address \in 0..MaxAddress
                                          /\ M.facets[n].selectors \subseteq Selectors
    /\ \A t \in Tables, s \in Selectors : t.facetOf[s] \in Nat /\ t.facetOf[s] \in 0..MaxAddress
  <1>1. \A x \in 0..MaxAddress : x \in Nat
    BY AddressesAreNat
  <1>2. ASSUME NEW M \in Manifests, NEW n \in Facets
        PROVE  M.facets[n].address \in 0..MaxAddress /\ M.facets[n].selectors \subseteq Selectors
    BY DEF Manifests
  <1>3. ASSUME NEW t \in Tables, NEW s \in Selectors
        PROVE  t.facetOf[s] \in 0..MaxAddress
    BY DEF Tables
  <1> QED
    BY <1>1, <1>2, <1>3

\* More contracts take nothing from what is said of the first ones.
LEMMA MoreContracts ==
    ASSUME NEW k \in Nat, NEW j \in Nat, k <= j
    PROVE  /\ \A M \in Manifests : Apart(M, k) => Apart(M, j)
           /\ \A t \in Tables : Within(t, k) => Within(t, j)
  <1>1. ASSUME NEW M \in Manifests, Apart(M, k) PROVE Apart(M, j)
    <2>1. ASSUME NEW n \in Facets PROVE M.facets[n].address <= j
      <3>1. M.facets[n].address \in Nat /\ M.facets[n].address <= k
        BY <1>1, RecordsTyped DEF Apart
      <3> QED
        BY <3>1
    <2> QED
      BY <1>1, <2>1 DEF Apart
  <1>2. ASSUME NEW t \in Tables, Within(t, k) PROVE Within(t, j)
    <2>1. ASSUME NEW s \in Selectors PROVE t.facetOf[s] <= j
      <3>1. t.facetOf[s] \in Nat /\ t.facetOf[s] <= k
        BY <1>2, RecordsTyped DEF Within
      <3> QED
        BY <3>1
    <2> QED
      BY <2>1 DEF Within
  <1> QED
    BY <1>1, <1>2

\* A facet's record is replaced by that of a new contract.
Recording(M, N, n, a, set) ==
    N.facets = [M.facets EXCEPT ![n] = [address |-> a, selectors |-> set]]

LEMMA RecordingApart ==
    ASSUME NEW M \in Manifests, NEW N, NEW n \in Facets, NEW k \in Nat, NEW set,
           Recording(M, N, n, k + 1, set), Apart(M, k)
    PROVE  /\ Apart(N, k + 1)
           /\ N.facets[n].address = k + 1 /\ N.facets[n].selectors = set
           /\ \A m \in Facets : m # n => N.facets[m] = M.facets[m] /\ N.facets[m].address <= k
  <1>1. M.facets \in [Facets -> [address : 0..MaxAddress, selectors : SUBSET Selectors]]
    BY DEF Manifests
  <1>2. PICK a : a = k + 1
    OBVIOUS
  <1>3. N.facets[n].address = a /\ N.facets[n].selectors = set
    BY <1>1, <1>2 DEF Recording
  <1>4. \A m \in Facets : m # n => N.facets[m] = M.facets[m]
    BY <1>1 DEF Recording
  <1>5. \A m \in Facets : M.facets[m].address \in Nat /\ M.facets[m].address <= k
    BY RecordsTyped DEF Apart
  <1>6. a \in Nat /\ a # 0 /\ \A x \in Nat : x <= k => x <= a /\ x # a
    BY <1>2
  <1>7. \A m \in Facets : N.facets[m].address <= a
    BY <1>3, <1>4, <1>5, <1>6
  <1>8. \A m \in Facets : N.facets[m].address = 0 => N.facets[m].selectors = {}
    BY <1>3, <1>4, <1>6 DEF Apart
  <1>9. \A m, o \in Facets :
           m # o /\ N.facets[m].address # 0 => N.facets[m].address # N.facets[o].address
    BY <1>3, <1>4, <1>5, <1>6 DEF Apart
  <1> QED
    BY <1>2, <1>3, <1>4, <1>5, <1>7, <1>8, <1>9 DEF Apart

LEMMA RecordingKeeps ==
    ASSUME NEW base \in Tables, NEW t \in Tables, NEW u \in Tables,
           NEW M \in Manifests, NEW N, NEW n \in Facets, NEW k \in Nat, NEW set,
           Recording(M, N, n, k + 1, set), Apart(M, k),
           Within(base, k), Within(t, k), KeptOf(base, t, M),
           Moves(t, u, k + 1, M.facets[n].address)
    PROVE  /\ Within(u, k + 1) /\ KeptOf(base, u, N)
           /\ TrueOf(t, M) /\ Lands(u, k + 1, set) => TrueOf(u, N)
  <1>1. PICK a : a = k + 1
    OBVIOUS
  <1>2. a \in Nat /\ a # 0 /\ \A x \in Nat : x <= k => x <= a /\ x # a
    BY <1>1
  <1>3. /\ N.facets[n].address = a /\ N.facets[n].selectors = set
        /\ \A m \in Facets : m # n => N.facets[m] = M.facets[m]
    BY <1>1, RecordingApart
  <1>4. /\ \A s \in Selectors : u.facetOf[s] \in {0, a, t.facetOf[s]}
        /\ \A s \in Selectors : u.facetOf[s] # t.facetOf[s] =>
              t.facetOf[s] \in {0, M.facets[n].address}
    BY <1>1 DEF Moves
  <1>5. \A s \in Selectors : /\ base.facetOf[s] \in Nat /\ base.facetOf[s] <= k
                             /\ t.facetOf[s] \in Nat /\ t.facetOf[s] <= k
    BY RecordsTyped DEF Within
  <1>6. Within(u, a)
    <2> SUFFICES ASSUME NEW s \in Selectors PROVE u.facetOf[s] <= a
      BY DEF Within
    <2>1. t.facetOf[s] <= a /\ 0 <= a /\ a <= a
      BY <1>2, <1>5
    <2> QED
      BY <1>4, <2>1
  \* Functions at another recorded contract stay there.
  <1>7. ASSUME NEW m \in Facets, m # n, M.facets[m].address # 0, NEW s \in Selectors
        PROVE  t.facetOf[s] = M.facets[m].address <=> u.facetOf[s] = M.facets[m].address
    <2>1. M.facets[m].address # M.facets[n].address
      BY <1>7 DEF Apart
    <2>2. M.facets[m].address # a
      <3>1. M.facets[m].address \in Nat /\ M.facets[m].address <= k
        BY RecordsTyped DEF Apart
      <3> QED
        BY <1>2, <3>1
    <2> QED
      BY <1>4, <1>7, <2>1, <2>2
  <1>8. KeptOf(base, u, N)
    <2> SUFFICES ASSUME NEW m \in Facets, N.facets[m].address # 0, NEW s \in Selectors,
                        base.facetOf[s] = N.facets[m].address
                 PROVE  u.facetOf[s] = N.facets[m].address
      BY DEF KeptOf
    <2>1. m # n
      BY <1>2, <1>3, <1>5
    <2>2. t.facetOf[s] = M.facets[m].address
      BY <1>3, <2>1 DEF KeptOf
    <2> QED
      BY <1>3, <1>7, <2>1, <2>2
  <1>9. ASSUME TrueOf(t, M), Lands(u, a, set) PROVE TrueOf(u, N)
    <2> SUFFICES ASSUME NEW m \in Facets, N.facets[m].address # 0, NEW s \in Selectors
                 PROVE  s \in N.facets[m].selectors <=> u.facetOf[s] = N.facets[m].address
      BY DEF TrueOf
    <2>1. CASE m = n
      BY <1>3, <1>9, <2>1 DEF Lands
    <2>2. CASE m # n
      BY <1>3, <1>7, <1>9, <2>2 DEF TrueOf
    <2> QED
      BY <2>1, <2>2
  <1> QED
    BY <1>1, <1>6, <1>8, <1>9

-----------------------------------------------------------------------------
(* The order of the effects: no contract is on record before its cut.      *)

IsDeploy(e) == e.do \in {"facet", "upgrade"}

\* A cut comes before the manifest is written.
CutComes(r) ==
    \E l \in 1..Len(r) : r[l].do = "cut" /\ \A j \in 1..Len(r) : j < l => r[j].do # "save"

\* After each contract a cut comes before the manifest is written.
Clean(r) ==
    \A i \in 1..Len(r) : IsDeploy(r[i]) =>
        \E l \in 1..Len(r) : /\ i < l /\ r[l].do = "cut"
                             /\ \A j \in 1..Len(r) : i < j /\ j < l => r[j].do # "save"

\* The last effect is not a cut.
Ends(r) == \A l \in 1..Len(r) : r[l].do = "cut" => l < Len(r)

\* Programs without contracts are clean, and so are those that end in a cut and
\* write no manifest, and one clean program after another.
LEMMA NoDeployClean ==
    ASSUME NEW r \in Seq(Effects), \A i \in 1..Len(r) : ~IsDeploy(r[i])
    PROVE  Clean(r)
  BY DEF Clean

LEMMA NoSaveClean ==
    ASSUME NEW p \in Seq(Effects), \A i \in 1..Len(p) : p[i].do # "save"
    PROVE  Clean(p \o SendCuts)
  <1>1. PICK n \in Nat : n = Len(p)
    BY LenProperties
  <1>2. PICK c : c = Do("cut")
    OBVIOUS
  <1>3. c \in Effects /\ c.do = "cut" /\ SendCuts = <<c>>
    BY <1>2, EffectsPlanned DEF Do, SendCuts, Setup
  <1>4. PICK r : r = p \o SendCuts
    OBVIOUS
  <1>5. Len(r) = n + 1 /\ r[n + 1] = c /\ \A i \in 1..n : r[i] = p[i]
    <2>0. PICK q : q = <<c>>
      OBVIOUS
    <2>1. q \in Seq(Effects) /\ q = SendCuts /\ Len(q) = 1 /\ q[1] = c
      BY <1>3, <2>0
    <2>2. r = p \o q /\ Len(r) = n + 1
          /\ \A i \in 1..(n + 1) : r[i] = IF i <= n THEN p[i] ELSE q[i - n]
      BY <1>1, <1>4, <2>1, ConcatProperties
    <2>3. n + 1 \in 1..(n + 1) /\ ~(n + 1 <= n) /\ (n + 1) - n = 1
      OBVIOUS
    <2> QED
      BY <2>1, <2>2, <2>3
  <1>6. ASSUME NEW i \in 1..Len(r), IsDeploy(r[i])
        PROVE  \E l \in 1..Len(r) : /\ i < l /\ r[l].do = "cut"
                                    /\ \A j \in 1..Len(r) : i < j /\ j < l => r[j].do # "save"
    <2>1. PICK l \in 1..Len(r) : l = n + 1
      BY <1>5
    <2>2. i # l
      BY <1>3, <1>5, <1>6, <2>1 DEF IsDeploy
    <2>3. i < l /\ r[l].do = "cut"
      BY <1>3, <1>5, <2>1, <2>2
    <2>4. \A j \in 1..Len(r) : j < l => r[j].do # "save"
      BY <1>1, <1>5, <2>1
    <2> QED
      BY <2>3, <2>4
  <1>7. Clean(r)
    BY ONLY <1>6 DEF Clean
  <1> QED
    BY ONLY <1>4, <1>7

LEMMA CleanJoined ==
    ASSUME NEW p \in Seq(Effects), NEW q \in Seq(Effects), Clean(p), Clean(q)
    PROVE  Clean(p \o q)
  <1>1. PICK n, m : n = Len(p) /\ m = Len(q) /\ n \in Nat /\ m \in Nat
    BY LenProperties
  <1>2. PICK r : r = p \o q
    OBVIOUS
  <1>3. Len(r) = n + m /\ \A i \in 1..(n + m) : r[i] = IF i <= n THEN p[i] ELSE q[i - n]
    BY <1>1, <1>2, ConcatProperties
  <1>4. \A i \in 1..n : i \in 1..(n + m) /\ r[i] = p[i]
    BY <1>1, <1>3
  <1>5. \A i \in 1..m : n + i \in 1..(n + m) /\ r[n + i] = q[i]
    <2> TAKE i \in 1..m
    <2>1. n + i \in 1..(n + m) /\ ~(n + i <= n) /\ (n + i) - n = i
      BY <1>1
    <2> QED
      BY <1>3, <2>1
  <1>6. ASSUME NEW i \in 1..(n + m), IsDeploy(r[i])
        PROVE  \E l \in 1..(n + m) : /\ i < l /\ r[l].do = "cut"
                                     /\ \A j \in 1..(n + m) : i < j /\ j < l => r[j].do # "save"
    <2>1. CASE i <= n
      <3>1. i \in 1..n /\ IsDeploy(p[i])
        BY <1>1, <1>4, <1>6, <2>1
      <3>2. PICK l \in 1..n : /\ i < l /\ p[l].do = "cut"
                              /\ \A j \in 1..n : i < j /\ j < l => p[j].do # "save"
        BY <1>1, <3>1 DEF Clean
      <3>3. l \in 1..(n + m) /\ r[l].do = "cut"
        BY <1>4, <3>2
      <3>4. \A j \in 1..(n + m) : i < j /\ j < l => r[j].do # "save"
        <4> TAKE j \in 1..(n + m)
        <4>1. j < l => j \in 1..n
          BY <1>1
        <4> QED
          BY <1>4, <3>2, <4>1
      <3> QED
        BY <3>2, <3>3, <3>4
    <2>2. CASE ~(i <= n)
      <3>1. PICK x \in 1..m : i = n + x
        <4>1. i - n \in 1..m /\ i = n + (i - n)
          BY <1>1, <2>2
        <4> QED
          BY <4>1
      <3>2. PICK l \in 1..m : /\ x < l /\ q[l].do = "cut"
                              /\ \A j \in 1..m : x < j /\ j < l => q[j].do # "save"
        BY <1>1, <1>5, <1>6, <3>1 DEF Clean
      <3>3. n + l \in 1..(n + m) /\ i < n + l /\ r[n + l].do = "cut"
        <4>1. i < n + l
          BY <1>1, <3>1, <3>2
        <4>2. n + l \in 1..(n + m) /\ r[n + l] = q[l]
          BY <1>5
        <4> QED
          BY <3>2, <4>1, <4>2
      <3>4. \A j \in 1..(n + m) : i < j /\ j < n + l => r[j].do # "save"
        <4> SUFFICES ASSUME NEW j \in 1..(n + m), i < j, j < n + l PROVE r[j].do # "save"
          OBVIOUS
        <4>1. PICK y \in 1..m : j = n + y /\ x < y /\ y < l
          BY <1>1, <3>1, <3>2
        <4> QED
          BY <1>5, <3>2, <4>1
      <3> QED
        BY <3>3, <3>4
    <2> QED
      BY <2>1, <2>2
  <1>7. PICK len : len = n + m
    OBVIOUS
  <1>8. Clean(r)
    BY <1>3, <1>6, <1>7 DEF Clean
  <1> QED
    BY <1>2, <1>8

\* An effect that is not a cut ends a program.
LEMMA EndsJoined ==
    ASSUME NEW p \in Seq(Effects), NEW e \in Effects, e.do # "cut"
    PROVE  Ends(p \o <<e>>)
  <1>1. PICK n \in Nat : n = Len(p)
    BY LenProperties
  <1>0. PICK q : q = <<e>>
    OBVIOUS
  <1>2. q \in Seq(Effects) /\ q = <<e>> /\ Len(q) = 1 /\ q[1] = e
    BY <1>0
  <1>3. PICK r : r = p \o q
    OBVIOUS
  <1>4. Len(r) = n + 1 /\ \A i \in 1..(n + 1) : r[i] = IF i <= n THEN p[i] ELSE q[i - n]
    BY <1>1, <1>2, <1>3, ConcatProperties
  <1>5. r[n + 1] = e
    <2>1. n + 1 \in 1..(n + 1) /\ ~(n + 1 <= n) /\ (n + 1) - n = 1
      OBVIOUS
    <2> QED
      BY <1>2, <1>4, <2>1
  <1>6. \A l \in 1..(n + 1) : l # n + 1 => l < n + 1
    OBVIOUS
  <1> QED
    BY <1>2, <1>3, <1>4, <1>5, <1>6 DEF Ends

\* The rest of a program that goes on.
LEMMA OrderOfRest ==
    ASSUME NEW r \in Seq(Effects), r # <<>>
    PROVE  /\ Clean(r) => Clean(Tail(r)) /\ (IsDeploy(Head(r)) => CutComes(Tail(r)))
           /\ Ends(r) => Ends(Tail(r)) /\ (Head(r).do = "cut" => Len(r) # 1)
           /\ CutComes(r) => Head(r).do # "save" /\ (Head(r).do # "cut" => CutComes(Tail(r)))
  <1>1. PICK n, t, e : n = Len(r) /\ t = Tail(r) /\ e = Head(r)
    OBVIOUS
  <1>2. /\ n \in Nat \ {0} /\ Len(t) = n - 1 /\ e = r[1]
        /\ \A i \in 1..(n - 1) : t[i] = r[i + 1]
    BY <1>1, TailInPlace
  <1>3. ASSUME NEW l \in 2..n
        PROVE  /\ l \in 1..n /\ l - 1 \in 1..(n - 1) /\ t[l - 1] = r[l]
               /\ (\A j \in 1..n : 1 < j /\ j < l => r[j].do # "save") =>
                     \A j \in 1..(n - 1) : j < l - 1 => t[j].do # "save"
    <2>1. l \in 1..n /\ l - 1 \in 1..(n - 1) /\ (l - 1) + 1 = l
      BY <1>2
    <2>2. t[l - 1] = r[l]
      BY <1>2, <2>1
    <2>3. ASSUME \A j \in 1..n : 1 < j /\ j < l => r[j].do # "save",
                 NEW j \in 1..(n - 1), j < l - 1
          PROVE  t[j].do # "save"
      <3>1. PICK x \in 1..n : x = j + 1 /\ 1 < x /\ x < l
        BY <1>2, <2>3
      <3> QED
        BY <1>2, <2>3, <3>1
    <2> QED
      BY <2>1, <2>2, <2>3
  <1>4. ASSUME Clean(r), IsDeploy(e) PROVE CutComes(t)
    <2>1. 1 \in 1..n
      BY <1>2
    <2>2. PICK l \in 1..n : /\ 1 < l /\ r[l].do = "cut"
                            /\ \A j \in 1..n : 1 < j /\ j < l => r[j].do # "save"
      BY <1>1, <1>2, <1>4, <2>1 DEF Clean
    <2>3. l \in 2..n
      BY <1>2, <2>2
    <2> QED
      BY <1>2, <1>3, <2>2, <2>3 DEF CutComes
  <1>5. ASSUME Clean(r) PROVE Clean(t)
    <2> SUFFICES ASSUME NEW i \in 1..(n - 1), IsDeploy(t[i])
                 PROVE  \E l \in 1..(n - 1) :
                           /\ i < l /\ t[l].do = "cut"
                           /\ \A j \in 1..(n - 1) : i < j /\ j < l => t[j].do # "save"
      BY <1>2 DEF Clean
    <2>1. PICK x \in 1..n : x = i + 1 /\ IsDeploy(r[x])
      BY <1>2
    <2>2. PICK l \in 1..n : /\ x < l /\ r[l].do = "cut"
                            /\ \A j \in 1..n : x < j /\ j < l => r[j].do # "save"
      BY <1>1, <1>5, <2>1 DEF Clean
    <2>3. PICK y \in 1..(n - 1) : y = l - 1 /\ y + 1 = l /\ i < y
      BY <1>2, <2>1, <2>2
    <2>4. \A j \in 1..(n - 1) : i < j /\ j < y => t[j].do # "save"
      <3> SUFFICES ASSUME NEW j \in 1..(n - 1), i < j, j < y PROVE t[j].do # "save"
        OBVIOUS
      <3>1. PICK z \in 1..n : z = j + 1 /\ x < z /\ z < l
        BY <1>2, <2>1, <2>3
      <3> QED
        BY <1>2, <2>2, <3>1
    <2> QED
      BY <1>2, <2>2, <2>3, <2>4
  <1>6. ASSUME Ends(r) PROVE Ends(t) /\ (e.do = "cut" => n # 1)
    <2>1. 1 \in 1..n
      BY <1>2
    <2>2. e.do = "cut" => 1 < n
      BY <1>1, <1>2, <1>6, <2>1 DEF Ends
    <2>3. ASSUME NEW l \in 1..(n - 1), t[l].do = "cut" PROVE l < n - 1
      <3>1. PICK x \in 1..n : x = l + 1 /\ r[x].do = "cut"
        BY <1>2, <2>3
      <3>2. x < n
        BY <1>1, <1>6, <3>1 DEF Ends
      <3> QED
        BY <1>2, <3>1, <3>2
    <2> QED
      BY <1>2, <2>2, <2>3 DEF Ends
  <1>7. ASSUME CutComes(r) PROVE e.do # "save" /\ (e.do # "cut" => CutComes(t))
    <2>1. PICK l \in 1..n : r[l].do = "cut" /\ \A j \in 1..n : j < l => r[j].do # "save"
      BY <1>1, <1>7 DEF CutComes
    <2>2. CASE l = 1
      BY <1>2, <2>1, <2>2
    <2>3. CASE l # 1
      <3>1. l \in 2..n /\ 1 \in 1..n /\ 1 < l
        BY <1>2, <2>3
      <3>2. e.do # "save"
        BY <1>2, <2>1, <3>1
      <3>3. CutComes(t)
        BY <1>2, <1>3, <2>1, <3>1 DEF CutComes
      <3> QED
        BY <3>2, <3>3
    <2> QED
      BY <2>2, <2>3
  <1> QED
    BY <1>1, <1>4, <1>5, <1>6, <1>7

Saveless == {e \in Effects : e.do # "save"}
Plain == {e \in Effects : ~IsDeploy(e)}
Orderly(p) == p \in Seq(Effects) /\ Clean(p) /\ Ends(p)

LEMMA PartsInOrder ==
    /\ \A p \in Seq(Plain) : p \in Seq(Effects) /\ Clean(p)
    /\ \A p \in Seq(Saveless) : p \in Seq(Effects) /\ p \o SendCuts \in Seq(Effects)
                                /\ Clean(p \o SendCuts)
    /\ \A p, q \in Seq(Effects) : Clean(p) /\ Clean(q) => p \o q \in Seq(Effects) /\ Clean(p \o q)
  <1>1. ASSUME NEW p \in Seq(Plain) PROVE p \in Seq(Effects) /\ Clean(p)
    <2>1. p \in Seq(Effects)
      BY SeqMonotonic DEF Plain
    <2>2. \A i \in 1..Len(p) : p[i] \in Plain
      BY ElementOfSeq
    <2> QED
      BY <2>1, <2>2, NoDeployClean DEF Plain
  <1>2. ASSUME NEW p \in Seq(Saveless)
        PROVE  p \in Seq(Effects) /\ p \o SendCuts \in Seq(Effects) /\ Clean(p \o SendCuts)
    <2>1. p \in Seq(Effects)
      BY SeqMonotonic DEF Saveless
    <2>2. \A i \in 1..Len(p) : p[i] \in Saveless
      BY ElementOfSeq
    <2>3. SendCuts \in Seq(Effects)
      <3>1. SendCuts \in Seq(Setup)
        BY DoIsPlanned DEF SendCuts
      <3> QED
        BY <3>1, EffectsPlanned, SeqMonotonic
    <2>4. p \o SendCuts \in Seq(Effects)
      BY <2>1, <2>3, Joined
    <2> QED
      BY <2>1, <2>2, <2>4, NoSaveClean DEF Saveless
  <1>3. ASSUME NEW p \in Seq(Effects), NEW q \in Seq(Effects), Clean(p), Clean(q)
        PROVE  p \o q \in Seq(Effects) /\ Clean(p \o q)
    BY <1>3, Joined, CleanJoined
  <1> QED
    BY <1>1, <1>2, <1>3

LEMMA DeploysInOrder ==
    /\ \A names, which : FacetList(names) /\ which \in {"all", "unrouted", "unknown"} =>
          DeployFacets(names, which) \in Seq(Saveless)
    /\ \A names, mode : FacetList(names) /\ mode \in Modes \cup {"V2"} =>
          Upgrades(names, mode) \in Seq(Saveless)
    /\ SendCuts \in Seq(Saveless)
    /\ <<Do("diamond")>> \in Seq(Saveless)
  <1>1. ASSUME NEW names, NEW which, FacetList(names), which \in {"all", "unrouted", "unknown"}
        PROVE  DeployFacets(names, which) \in Seq(Saveless)
    <2>1. PICK f : f = DeployFacets(names, which)
      OBVIOUS
    <2>2. f \in Seq(Setup)
      BY <1>1, <2>1, DeploysArePlanned
    <2>3. f = [i \in 1..Len(names) |-> [do |-> "facet", facet |-> names[i], which |-> which]]
      BY <2>1 DEF DeployFacets
    <2>4. Len(f) \in Nat /\ DOMAIN f = 1..Len(f) /\ \A i \in 1..Len(f) : f[i] \in Setup
      BY <2>2, LenProperties, ElementOfSeq
    <2>5. \A i \in 1..Len(f) : f[i].do = "facet"
      BY <2>3, <2>4
    <2>6. \A i \in 1..Len(f) : f[i] \in Saveless
      BY <2>4, <2>5, EffectsPlanned DEF Saveless
    <2> QED
      BY <2>1, <2>2, <2>6, SeqByElements
  <1>2. ASSUME NEW names, NEW mode, FacetList(names), mode \in Modes \cup {"V2"}
        PROVE  Upgrades(names, mode) \in Seq(Saveless)
    <2>1. PICK f : f = Upgrades(names, mode)
      OBVIOUS
    <2>2. f \in Seq(Setup)
      BY <1>2, <2>1, UpgradesArePlanned
    <2>3. f = [i \in 1..Len(names) |-> [do |-> "upgrade", facet |-> names[i], mode |-> mode]]
      BY <2>1 DEF Upgrades
    <2>4. Len(f) \in Nat /\ DOMAIN f = 1..Len(f) /\ \A i \in 1..Len(f) : f[i] \in Setup
      BY <2>2, LenProperties, ElementOfSeq
    <2>5. \A i \in 1..Len(f) : f[i].do = "upgrade"
      BY <2>3, <2>4
    <2>6. \A i \in 1..Len(f) : f[i] \in Saveless
      BY <2>4, <2>5, EffectsPlanned DEF Saveless
    <2> QED
      BY <2>1, <2>2, <2>6, SeqByElements
  <1>3. \A e \in Saveless : <<e>> \in Seq(Saveless)
    OBVIOUS
  <1>4. Do("cut") \in Saveless /\ Do("diamond") \in Saveless
    BY DEF Do, Saveless, Effects, Planned, Setup, First
  <1> QED
    BY <1>1, <1>2, <1>3, <1>4 DEF SendCuts

LEMMA SingleIsPlain == \A e \in Plain : <<e>> \in Seq(Plain)
  OBVIOUS

LEMMA OthersInOrder ==
    /\ \A effect \in {"save", "verify", "check roles", "post a test price", "ask the explorer"} :
          /\ Do(effect) \in Effects /\ Do(effect).do # "cut"
          /\ <<Do(effect)>> \in Seq(Plain)
    /\ \A what \in {"roles", "fees", "staleness", "robustness"} : Set(what) \in Plain
    /\ \A x \in {"UserVault", "TradingAccount"} : [do |-> "impl", impl |-> x] \in Plain
    /\ \A how \in {"or go on", "or die"} : Markets(InitialMarkets, how) \in Seq(Plain)
    /\ Markets(NewMarkets, "and list") \in Seq(Plain)
    /\ \A effect \in {"accept", "fund"} : Each(effect) \in Seq(Plain)
  <1>1. ASSUME NEW effect \in {"save", "verify", "check roles", "post a test price", "ask the explorer"}
        PROVE  Do(effect) \in Effects /\ Do(effect).do # "cut" /\ <<Do(effect)>> \in Seq(Plain)
    <2>1. PICK e : e = Do(effect)
      OBVIOUS
    <2>2. e \in Setup /\ e.do = effect
      BY <2>1 DEF Do, Setup
    <2>3. e \in Effects /\ e \in Plain
      BY <2>2, EffectsPlanned DEF Plain, IsDeploy
    <2>4. <<e>> \in Seq(Plain)
      BY <2>3, SingleIsPlain
    <2> QED
      BY <2>1, <2>2, <2>3, <2>4
  <1>2. ASSUME NEW what \in {"roles", "fees", "staleness", "robustness"} PROVE Set(what) \in Plain
    BY DoIsPlanned, EffectsPlanned DEF Set, Plain, IsDeploy
  <1>3. ASSUME NEW x \in {"UserVault", "TradingAccount"} PROVE [do |-> "impl", impl |-> x] \in Plain
    BY DoIsPlanned, EffectsPlanned DEF Plain, IsDeploy
  <1>4. ASSUME NEW symbols, NEW how, Markets(symbols, how) \in Seq(Planned)
        PROVE  Markets(symbols, how) \in Seq(Plain)
    <2>1. PICK f : f = Markets(symbols, how)
      OBVIOUS
    <2>2. f = [i \in 1..Len(symbols) |-> [do |-> "market", symbol |-> symbols[i], how |-> how]]
      BY <2>1 DEF Markets
    <2>3. Len(f) \in Nat /\ DOMAIN f = 1..Len(f) /\ \A i \in 1..Len(f) : f[i] \in Planned
      BY <1>4, <2>1, LenProperties, ElementOfSeq
    <2>4. \A i \in 1..Len(f) : f[i].do = "market"
      BY <2>2, <2>3
    <2>5. \A i \in 1..Len(f) : f[i] \in Plain
      BY <2>3, <2>4, EffectsPlanned DEF Plain, IsDeploy
    <2> QED
      BY <1>4, <2>1, <2>5, SeqByElements
  <1>5. /\ \A how \in {"or go on", "or die"} : Markets(InitialMarkets, how) \in Seq(Planned)
        /\ Markets(NewMarkets, "and list") \in Seq(Planned)
    BY MarketsArePlanned, EffectsPlanned, SeqMonotonic
  <1>6. ASSUME NEW effect \in {"accept", "fund"} PROVE Each(effect) \in Seq(Plain)
    <2>1. PICK f : f = Each(effect)
      OBVIOUS
    <2>2. f \in Seq(Setup)
      BY <2>1, EachIsPlanned
    <2>3. f = [i \in 1..Len(Tokens) |-> [do |-> effect, token |-> Tokens[i]]]
      BY <2>1 DEF Each
    <2>4. Len(f) \in Nat /\ DOMAIN f = 1..Len(f) /\ \A i \in 1..Len(f) : f[i] \in Setup
      BY <2>2, LenProperties, ElementOfSeq
    <2>5. \A i \in 1..Len(f) : f[i].do = effect
      BY <2>3, <2>4
    <2>6. \A i \in 1..Len(f) : f[i] \in Plain
      BY <2>4, <2>5, EffectsPlanned DEF Plain, IsDeploy
    <2> QED
      BY <2>1, <2>2, <2>6, SeqByElements
  <1> QED
    BY <1>1, <1>2, <1>3, <1>4, <1>5, <1>6

\* A clean program that then writes the manifest, or verifies.
LEMMA Finished ==
    ASSUME NEW p \in Seq(Effects), Clean(p)
    PROVE  Orderly(p \o Save) /\ Orderly(p \o Verify)
  <1>1. \A e \in {Do("save"), Do("verify")} : Orderly(p \o <<e>>)
    <2> TAKE e \in {Do("save"), Do("verify")}
    <2>1. e \in Effects /\ e.do # "cut" /\ <<e>> \in Seq(Plain)
      BY OthersInOrder
    <2>2. <<e>> \in Seq(Effects) /\ Clean(<<e>>)
      BY <2>1, PartsInOrder
    <2>3. p \o <<e>> \in Seq(Effects) /\ Clean(p \o <<e>>)
      BY <2>2, PartsInOrder
    <2> QED
      BY <2>1, <2>3, EndsJoined DEF Orderly
  <1> QED
    BY <1>1 DEF Save, Verify

LEMMA DeploymentStepsOrderly ==
    Orderly(Step01) /\ Orderly(Step02) /\ Orderly(Step03) /\ Orderly(Step04) /\ Orderly(DeployAll)
  <1>1. \A names \in {CoreFacets, TradingFacets, PricingFacets, SupportFacets}, which \in {"all", "unrouted", "unknown"} :
           DeployFacets(names, which) \in Seq(Saveless)
    BY FacetLists, DeploysInOrder
  <1>2. SendCuts \in Seq(Saveless) /\ <<Do("diamond")>> \in Seq(Saveless)
    BY DeploysInOrder
  <1>3. Orderly(Step02) /\ Orderly(Step03) /\ Orderly(Step04)
    BY <1>1, PartsInOrder, Finished DEF Step02, Step03, Step04
  <1>4. PICK core : core = (<<Do("diamond")>> \o DeployFacets(CoreFacets, "all")) \o SendCuts
    OBVIOUS
  <1>5. core \in Seq(Effects) /\ Clean(core)
    BY <1>1, <1>2, <1>4, Joined, PartsInOrder
  <1>6. Orderly(Step01)
    BY <1>4, <1>5, Finished DEF Step01
  <1>7. DeployAllFacets("unknown") \in Seq(Effects) /\ Clean(DeployAllFacets("unknown"))
    <2>1. PICK T, P, S : /\ T = DeployFacets(TradingFacets, "unknown")
                         /\ P = DeployFacets(PricingFacets, "unknown")
                         /\ S = DeployFacets(SupportFacets, "unknown")
      OBVIOUS
    <2>2. T \in Seq(Saveless) /\ P \in Seq(Saveless) /\ S \in Seq(Saveless)
      BY <1>1, <2>1
    <2>3. DeployAllFacets("unknown") = ((((T \o SendCuts) \o P) \o SendCuts) \o S) \o SendCuts
      BY <2>1 DEF DeployAllFacets
    <2>4. (((T \o SendCuts) \o P) \o SendCuts) \o S \in Seq(Saveless)
      BY <1>2, <2>2, Joined
    <2> QED
      BY <2>3, <2>4, PartsInOrder
  <1>8. DeployAllSetup \in Seq(Effects) /\ Clean(DeployAllSetup)
    <2>1. <<[do |-> "impl", impl |-> "UserVault"], Set("roles"), Set("fees"), Set("staleness")>> \in Seq(Plain)
      <3>1. [do |-> "impl", impl |-> "UserVault"] \in Plain /\ Set("roles") \in Plain
            /\ Set("fees") \in Plain /\ Set("staleness") \in Plain
        BY OthersInOrder
      <3> QED
        BY <3>1
    <2>2. DeployAllSetup \in Seq(Plain)
      BY <2>1, OthersInOrder, Joined DEF DeployAllSetup
    <2> QED
      BY <2>2, PartsInOrder
  <1>9. Verify \in Seq(Effects) /\ Clean(Verify)
    BY OthersInOrder, PartsInOrder DEF Verify
  <1>10. Orderly(DeployAll)
    <2>1. ((core \o DeployAllFacets("unknown")) \o DeployAllSetup) \o Verify \in Seq(Effects)
          /\ Clean(((core \o DeployAllFacets("unknown")) \o DeployAllSetup) \o Verify)
      BY <1>5, <1>7, <1>8, <1>9, PartsInOrder
    <2> QED
      BY <1>4, <2>1, Finished DEF DeployAll
  <1> QED
    BY <1>3, <1>6, <1>10

LEMMA OperationStepsOrderly ==
    /\ Orderly(Step05) /\ Orderly(Step06) /\ Orderly(Step07) /\ Orderly(Step08) /\ Orderly(Step09)
    /\ Orderly(DiagnoseOracle) /\ Orderly(VerifyContracts)
  <1>1. \A p \in Seq(Plain) : Orderly(p \o Save)
    BY PartsInOrder, Finished
  <1>2. Orderly(Step05)
    <2>1. <<[do |-> "impl", impl |-> "UserVault"]>> \in Seq(Plain)
      BY OthersInOrder, SingleIsPlain
    <2> QED
      BY <1>1, <2>1 DEF Step05
  <1>3. Orderly(Step06)
    <2>1. <<Set("roles"), Set("fees"), Set("staleness")>> \in Seq(Plain)
      <3>1. Set("roles") \in Plain /\ Set("fees") \in Plain /\ Set("staleness") \in Plain
        BY OthersInOrder
      <3> QED
        BY <3>1
    <2>2. Verify \in Seq(Plain)
      BY OthersInOrder DEF Verify
    <2> QED
      BY <1>1, <2>1, <2>2, OthersInOrder, Joined DEF Step06
  <1>4. Orderly(Step07)
    BY <1>1, OthersInOrder DEF Step07
  <1>5. Orderly(Step08) /\ Orderly(Step09)
    <2>1. <<Do("check roles")>> \in Seq(Plain)
      BY OthersInOrder
    <2> QED
      BY <1>1, <2>1, OthersInOrder, Joined DEF Step08, Step09
  <1>6. Orderly(VerifyContracts)
    BY <1>1, OthersInOrder DEF VerifyContracts
  <1>7. Orderly(DiagnoseOracle)
    <2>1. PICK e : e = Do("post a test price")
      OBVIOUS
    <2>2. e \in Effects /\ e.do # "cut" /\ <<e>> \in Seq(Plain)
      BY <2>1, OthersInOrder
    <2>3. <<>> \in Seq(Effects) /\ <<>> \o <<e>> = <<e>>
      BY <2>2, EmptySeq, ConcatEmptySeq
    <2>4. Ends(<<e>>)
      BY <2>2, <2>3, EndsJoined
    <2> QED
      BY <2>1, <2>2, <2>4, PartsInOrder DEF DiagnoseOracle, Orderly
  <1> QED
    BY <1>2, <1>3, <1>4, <1>5, <1>6, <1>7

LEMMA UpgradesOrderly ==
    (\A n \in Facets, mode \in Modes : Orderly(UpgradeFacet(n, mode))) /\ Orderly(UpgradeV2)
  <1>1. ASSUME NEW n \in Facets, NEW mode \in Modes
        PROVE  Orderly(UpgradeFacet(n, mode))
    <2>1. FacetList(<<n>>)
      BY DEF FacetList
    <2>2. Upgrades(<<n>>, mode) \in Seq(Saveless)
      BY <2>1, DeploysInOrder
    <2> QED
      BY <2>2, PartsInOrder, Finished DEF UpgradeFacet
  <1>2. Orderly(UpgradeV2)
    <2>1. Upgrades(UpdatedFacets, "V2") \o DeployFacets(NewFacets, "unrouted") \in Seq(Saveless)
      BY FacetLists, DeploysInOrder, Joined
    <2>2. PICK first : first = (Upgrades(UpdatedFacets, "V2") \o DeployFacets(NewFacets, "unrouted"))
                                  \o SendCuts
      OBVIOUS
    <2>3. first \in Seq(Effects) /\ Clean(first)
      BY <2>1, <2>2, PartsInOrder
    <2>4. UpgradeV2Setup \in Seq(Plain)
      <3>1. [do |-> "impl", impl |-> "TradingAccount"] \in Plain /\ Set("robustness") \in Plain
        BY OthersInOrder
      <3> QED
        BY <3>1 DEF UpgradeV2Setup
    <2>5. Save \in Seq(Plain)
      BY OthersInOrder DEF Save
    <2>6. (first \o UpgradeV2Setup) \o Save \in Seq(Effects) /\ Clean((first \o UpgradeV2Setup) \o Save)
      BY <2>3, <2>4, <2>5, PartsInOrder
    <2> QED
      BY <2>2, <2>6, Finished DEF UpgradeV2
  <1> QED
    BY <1>1, <1>2

LEMMA ProgramsOrderly ==
    ASSUME NEW run \in Runs
    PROVE  Orderly(Program(run))
  <1>1. run \in [script : Names] \cup [script : {"upgrade-facet"}, facet : Facets, mode : Modes]
    BY DeploymentAssumption
  <1>2. CASE run.script = "upgrade-facet"
    <2>1. run.facet \in Facets /\ run.mode \in Modes
      BY <1>1, <1>2 DEF Names
    <2>2. Program(run) = UpgradeFacet(run.facet, run.mode)
      BY <1>2 DEF Program
    <2> QED
      BY <2>1, <2>2, UpgradesOrderly
  <1>3. CASE run.script \in Names
    <2>1. Program(run) \in {Step01, Step02, Step03, Step04, Step05, Step06, Step07, Step08, Step09,
                            DeployAll, UpgradeV2, DiagnoseOracle, VerifyContracts}
      BY <1>3 DEF Program, Names
    <2> QED
      BY <2>1, DeploymentStepsOrderly, OperationStepsOrderly, UpgradesOrderly
  <1> QED
    BY <1>1, <1>2, <1>3

-----------------------------------------------------------------------------
(* The invariant of the records.                                           *)

\* Contracts of the diamond on record; without one there is nothing on record.
OnRecord(M, k) == Apart(M, k) /\ (~M.diamond => Blank(M))

\* What the routes will be when the cuts a script has gathered are made.
Staged(t, s) == diamondCut(t, s.cuts)

\* Cuts are gathered only for a diamond, and made before the manifest is written.
PlanSound(s) ==
    /\ Orderly(s.todo)
    /\ s.cuts # <<>> => CutComes(s.todo)
    /\ ~s.mem.diamond => s.cuts = <<>> /\ (s.todo # <<>> => Head(s.todo).do = "diamond")

StageSound(t, s, k) == Staged(t, s).ok => Within(Staged(t, s), k) /\ KeptOf(t, Staged(t, s), s.mem)

\* The script's copy of the manifest is true of the routes it works towards.
CopyTrue(t, s, lost) ==
    s.mem.diamond /\ ~lost /\ "ADD_NEW" \notin s.mem.upgrades /\ Staged(t, s).ok =>
        TrueOf(Staged(t, s), s.mem)

\* The manifest on disk is true until a script has sent a cut.
FileTrue(t, saved, s, lost) ==
    saved.diamond /\ ~lost /\ ~s.sent /\ "ADD_NEW" \notin saved.upgrades => TrueOf(t, saved)

ScriptTrue(t, s, k, lost) ==
    OnRecord(s.mem, k) /\ PlanSound(s) /\ StageSound(t, s, k) /\ CopyTrue(t, s, lost)

RecordInv ==
    /\ Within(ds, Len(contracts)) /\ OnRecord(file, Len(contracts))
    /\ FileTrue(ds, file, script, torn)
    /\ ScriptTrue(ds, script, Len(contracts), torn)

LEMMA BlankOnRecord ==
    ASSUME NEW M, NEW k \in Nat, Blank(M)
    PROVE  OnRecord(M, k)
  <1>1. \A n \in Facets : M.facets[n].address = 0 /\ M.facets[n].selectors = {}
    BY DEF Blank, Unrecorded
  <1>2. 0 <= k
    OBVIOUS
  <1> QED
    BY <1>1, <1>2 DEF OnRecord, Apart

LEMMA NoCuts == \A t \in Reached(0) : diamondCut(t, <<>>) = t
  <1> TAKE t \in Reached(0)
  <1>1. <<>> \in Seq(Selectors) /\ 0 \in 0..MaxAddress
    BY EmptySeq, AddressesAreNat
  <1> QED
    BY <1>1, CutsOfOne

\* A script that gathered no cuts works on the routes as they are.
LEMMA NothingStaged ==
    ASSUME NEW t \in Reached(0), t.ok, NEW k, Within(t, k), NEW s, s.cuts = <<>>
    PROVE  Staged(t, s) = t /\ StageSound(t, s, k)
  <1>1. Staged(t, s) = t
    BY NoCuts DEF Staged
  <1> QED
    BY <1>1 DEF StageSound, KeptOf

LEMMA IdleTrue ==
    ASSUME NEW t \in Reached(0), t.ok, NEW k \in Nat, Within(t, k)
    PROVE  \A lost : ScriptTrue(t, Idle, k, lost)
  <1>1. Idle.mem = NoManifest /\ Idle.cuts = <<>> /\ Idle.todo = <<>> /\ ~Idle.mem.diamond
    BY DEF Idle, NoManifest
  <1>2. Blank(NoManifest)
    BY DEF Blank, NoManifest
  <1>3. Orderly(<<>>)
    <2>1. <<>> \in Seq(Effects) /\ Len(<<>>) = 0
      BY EmptySeq
    <2>2. 1..0 = {}
      OBVIOUS
    <2> QED
      BY <2>1, <2>2 DEF Orderly, Clean, Ends
  <1>4. PlanSound(Idle)
    BY <1>1, <1>3 DEF PlanSound
  <1>5. StageSound(t, Idle, k)
    BY <1>1, NothingStaged
  <1>6. OnRecord(Idle.mem, k)
    BY <1>1, <1>2, BlankOnRecord
  <1> QED
    BY <1>1, <1>4, <1>5, <1>6 DEF ScriptTrue, CopyTrue

\* A script goes on to its next effect.
LEMMA AfterTrue ==
    ASSUME NEW t \in Reached(0), t.ok, NEW k \in Nat, Within(t, k), NEW lost,
           NEW s \in ScriptStates, s.todo # <<>>, s.mem.diamond, Orderly(s.todo),
           s.cuts # <<>> => CutComes(Tail(s.todo)),
           OnRecord(s.mem, k), StageSound(t, s, k), CopyTrue(t, s, lost)
    PROVE  ScriptTrue(t, After(s), k, lost)
  <1>1. CASE Len(s.todo) = 1
    BY <1>1, IdleTrue DEF After
  <1>2. CASE Len(s.todo) # 1
    <2>1. PICK rest, u : rest = Tail(s.todo) /\ u = [s EXCEPT !.todo = rest]
      OBVIOUS
    <2>2. u.todo = rest /\ u.mem = s.mem /\ u.cuts = s.cuts /\ After(s) = u
      BY <1>2, <2>1 DEF After, ScriptStates
    <2>3. Orderly(rest)
      <3>1. s.todo \in Seq(Effects) /\ Clean(s.todo) /\ Ends(s.todo)
        BY DEF Orderly
      <3> QED
        BY <2>1, <3>1, OrderOfRest, TailInPlace DEF Orderly
    <2>4. PlanSound(u)
      BY <2>1, <2>2, <2>3 DEF PlanSound
    <2>5. Staged(t, u) = Staged(t, s)
      BY <2>2 DEF Staged
    <2> QED
      BY <2>2, <2>4, <2>5 DEF ScriptTrue, StageSound, CopyTrue
  <1> QED
    BY <1>1, <1>2

\* What the invariants say of a running script.
LEMMA RunningTrue ==
    ASSUME DeploymentInv, RecordInv
    PROVE  /\ ds \in Reached(0) /\ ds \in Tables /\ ds.ok /\ script \in ScriptStates
           /\ script.mem \in Manifests /\ file \in Manifests /\ script.cuts \in Seq(Cut)
           /\ Staged(ds, script) \in Reached(0) /\ Staged(ds, script) \in Tables
           /\ Len(contracts) \in Nat
           /\ script.todo \in Seq(Effects)
           /\ script.todo # <<>> /\ Head(script.todo).do # "diamond" => script.mem.diamond
           /\ script.todo # <<>> /\ Head(script.todo).do # "cut" =>
                 (script.cuts # <<>> => CutComes(Tail(script.todo)))
  <1>1. ds \in Reached(0) /\ ds.ok /\ contracts \in Seq(Facets) /\ script \in ScriptStates
        /\ file \in Manifests
    BY DEF DeploymentInv, ScriptSound
  <1>2. script.mem \in Manifests /\ script.cuts \in Seq(Cut) /\ script.todo \in Seq(Effects)
    BY <1>1 DEF ScriptStates
  <1>3. Staged(ds, script) \in Reached(0)
    BY <1>1, <1>2, diamondCutKeeps DEF Staged
  <1>4. Len(contracts) \in Nat
    BY <1>1, LenProperties
  <1>5. PlanSound(script)
    BY DEF RecordInv, ScriptTrue
  <1>6. script.mem.diamond \in BOOLEAN
    BY <1>2 DEF Manifests
  <1>7. script.todo # <<>> /\ Head(script.todo).do # "cut" =>
           (script.cuts # <<>> => CutComes(Tail(script.todo)))
    BY <1>2, <1>5, OrderOfRest DEF PlanSound
  <1> QED
    BY <1>1, <1>2, <1>3, <1>4, <1>5, <1>6, <1>7 DEF PlanSound, Reached

\* A script that stops after it sent a cut tears the manifest from the diamond.
LEMMA FileStaysTrue ==
    ASSUME FileTrue(ds, file, script, torn), Tears, UNCHANGED <<ds, file>>,
           script' = Idle \/ script'.sent = script.sent
    PROVE  FileTrue(ds', file', script', torn')
  <1>1. torn' = (torn \/ (script.sent /\ file.diamond /\ script' = Idle))
    BY DEF Tears
  <1> QED
    BY <1>1 DEF FileTrue

\* Two copies of the manifest that record the same contracts.
SameRecords(M, N) == N.facets = M.facets /\ N.diamond = M.diamond /\ N.upgrades = M.upgrades

\* Effects that touch neither routes, contracts nor records.
LEMMA ElsewhereTrue ==
    ASSUME DeploymentInv, RecordInv, script.todo # <<>>,
           Head(script.todo).do \notin {"diamond", "cut"},
           NEW s \in ScriptStates, s.todo = script.todo, s.cuts = script.cuts, s.sent = script.sent,
           SameRecords(script.mem, s.mem),
           script' = After(s) \/ script' = Idle, Tears,
           UNCHANGED <<ds, contracts, file>>
    PROVE  RecordInv'
  <1>1. /\ ds \in Reached(0) /\ ds.ok /\ Len(contracts) \in Nat /\ script.mem.diamond
        /\ script.cuts # <<>> => CutComes(Tail(script.todo))
    BY RunningTrue
  <1>2. PICK k, t, lost : k = Len(contracts) /\ t = ds /\ lost = torn'
    OBVIOUS
  <1>3. Within(t, k) /\ OnRecord(file, k) /\ FileTrue(t, file, script, torn)
        /\ OnRecord(script.mem, k) /\ PlanSound(script) /\ StageSound(t, script, k)
        /\ CopyTrue(t, script, torn)
    BY <1>2 DEF RecordInv, ScriptTrue
  <1>4. lost = (torn \/ (script.sent /\ file.diamond /\ script' = Idle))
    BY <1>2 DEF Tears
  <1>5. s.mem.diamond /\ OnRecord(s.mem, k) /\ StageSound(t, s, k) /\ CopyTrue(t, s, lost)
    <2>1. Staged(t, s) = Staged(t, script)
      BY DEF Staged
    <2>2. /\ OnRecord(s.mem, k) <=> OnRecord(script.mem, k)
          /\ \A x, y : KeptOf(x, y, s.mem) <=> KeptOf(x, y, script.mem)
          /\ \A x : TrueOf(x, s.mem) <=> TrueOf(x, script.mem)
      BY DEF SameRecords, OnRecord, Apart, Blank, KeptOf, TrueOf
    <2> QED
      BY <1>1, <1>3, <1>4, <2>1, <2>2 DEF SameRecords, StageSound, CopyTrue
  <1>6. ScriptTrue(t, After(s), k, lost) /\ ScriptTrue(t, Idle, k, lost)
    <2>1. Orderly(s.todo)
      BY <1>3 DEF PlanSound
    <2> QED
      BY <1>1, <1>2, <1>3, <1>5, <2>1, AfterTrue, IdleTrue
  <1>7. script' = Idle \/ script'.sent = script.sent
    <2>1. After(s) = Idle \/ After(s) = [s EXCEPT !.todo = Tail(@)]
      BY DEF After
    <2>2. [s EXCEPT !.todo = Tail(@)].sent = s.sent
      BY DEF ScriptStates
    <2> QED
      BY <2>1, <2>2
  <1>8. FileTrue(ds', file', script', torn')
    BY <1>2, <1>3, <1>7, FileStaysTrue
  <1> QED
    BY <1>2, <1>3, <1>6, <1>8 DEF RecordInv

\* An effect that is neither a contract, a cut nor a save, in front of the others.
LEMMA InFrontOrderly ==
    ASSUME NEW e \in Listing, NEW rest \in Seq(Effects), Orderly(rest)
    PROVE  /\ Orderly(<<e>> \o rest)
           /\ CutComes(rest) => CutComes(<<e>> \o rest)
  <1>1. e \in Effects /\ e.do \notin {"facet", "upgrade", "cut", "save"}
    BY DEF Effects, Listing
  <1>2. PICK n, one : n = Len(rest) /\ n \in Nat /\ one = <<e>>
    BY LenProperties
  <1>3. one \in Seq(Effects) /\ Len(one) = 1 /\ one[1] = e
    BY <1>1, <1>2
  <1>4. PICK all : all = one \o rest
    OBVIOUS
  <1>5. /\ all \in Seq(Effects) /\ Len(all) = n + 1
        /\ \A i \in 1..(1 + n) : all[i] = IF i <= 1 THEN one[i] ELSE rest[i - 1]
    BY <1>2, <1>3, <1>4, ConcatProperties
  <1>6. all[1] = e /\ \A i \in 1..n : i + 1 \in 1..(n + 1) /\ all[i + 1] = rest[i]
    <2>1. 1 \in 1..(1 + n) /\ \A i \in 1..n : i + 1 \in 1..(1 + n) /\ ~(i + 1 <= 1) /\ (i + 1) - 1 = i
      BY <1>2
    <2> QED
      BY <1>2, <1>3, <1>5, <2>1
  <1>7. Clean(all)
    <2>1. \A i \in 1..Len(one) : ~IsDeploy(one[i])
      BY <1>1, <1>3 DEF IsDeploy
    <2> QED
      BY <1>3, <1>4, <2>1, NoDeployClean, CleanJoined DEF Orderly
  <1>8. Ends(all)
    <2> SUFFICES ASSUME NEW l \in 1..(n + 1), all[l].do = "cut" PROVE l < n + 1
      BY <1>5 DEF Ends
    <2>1. l # 1
      BY <1>1, <1>6
    <2>2. PICK i \in 1..n : i = l - 1 /\ l = i + 1
      <3>1. l - 1 \in 1..n /\ l = (l - 1) + 1
        BY <1>2, <2>1
      <3> QED
        BY <3>1
    <2>3. i < n
      BY <1>2, <1>6, <2>2 DEF Orderly, Ends
    <2> QED
      BY <1>2, <2>2, <2>3
  <1>9. ASSUME CutComes(rest) PROVE CutComes(all)
    <2>1. PICK l \in 1..n : rest[l].do = "cut" /\ \A j \in 1..n : j < l => rest[j].do # "save"
      BY <1>2, <1>9 DEF CutComes
    <2>2. PICK m \in 1..(n + 1) : m = l + 1 /\ all[m].do = "cut"
      BY <1>6, <2>1
    <2>3. \A j \in 1..(n + 1) : j < m => all[j].do # "save"
      <3> SUFFICES ASSUME NEW j \in 1..(n + 1), j < m PROVE all[j].do # "save"
        OBVIOUS
      <3>1. CASE j = 1
        BY <1>1, <1>6, <3>1
      <3>2. CASE j # 1
        <4>1. PICK i \in 1..n : i = j - 1 /\ j = i + 1
          <5>1. j - 1 \in 1..n /\ j = (j - 1) + 1
            BY <1>2, <3>2
          <5> QED
            BY <5>1
        <4>2. i < l
          BY <2>2, <4>1
        <4> QED
          BY <1>6, <2>1, <4>1, <4>2
      <3> QED
        BY <3>1, <3>2
    <2> QED
      BY <1>5, <2>2, <2>3 DEF CutComes
  <1> QED
    BY <1>2, <1>4, <1>5, <1>7, <1>8, <1>9 DEF Orderly

\* A script goes on with a market to be listed.
LEMMA ListingTrue ==
    ASSUME DeploymentInv, RecordInv, script.todo # <<>>,
           Head(script.todo).do \notin {"diamond", "cut"}, NEW e \in Listing,
           script' = [script EXCEPT !.todo = <<e>> \o Tail(script.todo)], Tears,
           UNCHANGED <<ds, contracts, file>>
    PROVE  RecordInv'
  <1>1. /\ ds \in Reached(0) /\ ds.ok /\ Len(contracts) \in Nat /\ script.mem.diamond
        /\ script.todo \in Seq(Effects) /\ script \in ScriptStates
        /\ script.cuts # <<>> => CutComes(Tail(script.todo))
    BY RunningTrue
  <1>2. PICK k, t, s, rest : k = Len(contracts) /\ t = ds /\ s = script' /\ rest = Tail(script.todo)
    OBVIOUS
  <1>3. Within(t, k) /\ OnRecord(file, k) /\ FileTrue(t, file, script, torn)
        /\ OnRecord(script.mem, k) /\ PlanSound(script) /\ StageSound(t, script, k)
        /\ CopyTrue(t, script, torn)
    BY <1>2 DEF RecordInv, ScriptTrue
  <1>4. rest \in Seq(Effects) /\ Orderly(rest)
    BY <1>1, <1>2, <1>3, TailInPlace, OrderOfRest DEF PlanSound, Orderly
  <1>5. PICK todo : todo = <<e>> \o rest
    OBVIOUS
  <1>6. Orderly(todo) /\ (CutComes(rest) => CutComes(todo)) /\ todo # <<>>
    <2>1. e \in Effects
      BY DEF Effects
    <2> QED
      BY <1>4, <1>5, <2>1, InFrontOrderly, PutInFront
  <1>7. s.todo = todo /\ s.cuts = script.cuts /\ s.mem = script.mem /\ s.sent = script.sent
    <2>1. s = [script EXCEPT !.todo = todo]
      BY <1>2, <1>5
    <2> QED
      BY <1>1, <2>1 DEF ScriptStates
  <1>8. ~torn' => ~torn
    BY DEF Tears
  <1>9. Staged(t, s) = Staged(t, script)
    BY <1>7 DEF Staged
  <1>10. PlanSound(s)
    BY <1>1, <1>2, <1>6, <1>7 DEF PlanSound
  <1>11. PICK lost : lost = torn'
    OBVIOUS
  <1>12. ScriptTrue(t, s, k, lost)
    BY <1>3, <1>7, <1>8, <1>9, <1>10, <1>11 DEF ScriptTrue, StageSound, CopyTrue
  <1>13. FileTrue(ds', file', script', torn')
    BY <1>2, <1>3, <1>7, FileStaysTrue
  <1> QED
    BY <1>2, <1>3, <1>11, <1>12, <1>13 DEF RecordInv

\* The script goes on as planned, or ends.
Elsewhere ==
    /\ script.todo # <<>> /\ Head(script.todo).do \notin {"diamond", "cut"}
    /\ script' = After(script) \/ script' = Idle
    /\ Tears /\ UNCHANGED <<ds, contracts, file, release>>

LEMMA ConfiguringElsewhere ==
    ASSUME SetImplementation \/ Configure \/ CheckRoles \/ VerifyDiamondState
             \/ AcceptCollateral \/ FundVault \/ PostTestPrice
    PROVE  Elsewhere
  <1>1. ASSUME SetImplementation \/ Configure PROVE Elsewhere
    BY <1>1 DEF Elsewhere, SetImplementation, Configure, At, Abort, Quiet
  <1>2. ASSUME CheckRoles \/ VerifyDiamondState PROVE Elsewhere
    BY <1>2 DEF Elsewhere, CheckRoles, VerifyDiamondState, At, Abort, Quiet, chain
  <1>3. ASSUME AcceptCollateral \/ FundVault \/ PostTestPrice PROVE Elsewhere
    BY <1>3 DEF Elsewhere, AcceptCollateral, FundVault, PostTestPrice, At, Rest
  <1> QED
    BY <1>1, <1>2, <1>3

LEMMA ConfiguringTrue ==
    ASSUME DeploymentInv, RecordInv, Elsewhere
    PROVE  RecordInv'
  <1>1. script \in ScriptStates /\ SameRecords(script.mem, script.mem)
    BY RunningTrue DEF SameRecords
  <1> QED
    BY <1>1, ElsewhereTrue DEF Elsewhere

\* The script goes on with a market to be listed.
Lists ==
    /\ script.todo # <<>> /\ Head(script.todo).do \notin {"diamond", "cut"}
    /\ \E e \in Listing : script' = [script EXCEPT !.todo = <<e>> \o Tail(script.todo)]
    /\ Tears /\ UNCHANGED <<ds, contracts, file, release>>

LEMMA ListingGoesOn ==
    ASSUME DeploymentInv, CreateMarket \/ PostPrice
    PROVE  Elsewhere \/ Lists
  <1>1. script.todo # <<>> /\ Head(script.todo).do \notin {"diamond", "cut"}
        /\ Tears /\ UNCHANGED <<ds, contracts, file, release>>
    BY DEF CreateMarket, PostPrice, At, Rest
  <1>2. Head(script.todo) \in Effects
    BY <1>1, Running DEF DeploymentInv
  <1>3. ASSUME script' = After(script) \/ script' = Idle PROVE Elsewhere
    BY <1>1, <1>3 DEF Elsewhere
  <1>4. ASSUME NEW e \in Listing, script' = [script EXCEPT !.todo = <<e>> \o Tail(script.todo)]
        PROVE  Lists
    BY <1>1, <1>4 DEF Lists
  <1>5. CASE CreateMarket
    <2>1. PICK m : m = Head(script.todo)
      OBVIOUS
    <2>2. m \in Effects /\ m.symbol \in Symbols
      BY <1>2, <1>5, <2>1, EffectsTyped DEF CreateMarket, At
    <2>3. PICK created : created = Append(markets, NewMarket(m.symbol))
      OBVIOUS
    <2>4. Len(created) \in Nat \ {0}
      BY <2>2, <2>3, Created DEF DeploymentInv
    <2>5. PICK e : e = [do |-> "price", id |-> Len(created), symbol |-> m.symbol]
      OBVIOUS
    <2>6. e \in Listing
      BY <2>2, <2>4, <2>5 DEF Listing
    <2>7. \/ script' = After(script) \/ script' = Idle
          \/ script' = OnToPrice(Len(created))
      BY <1>5, <2>1, <2>3 DEF CreateMarket, Abort
    <2>8. OnToPrice(Len(created)) = [script EXCEPT !.todo = <<e>> \o Tail(script.todo)]
      BY <2>1, <2>5 DEF OnToPrice
    <2> QED
      BY <1>3, <1>4, <2>6, <2>7, <2>8
  <1>6. CASE PostPrice
    <2>1. PICK e : e = Head(script.todo)
      OBVIOUS
    <2>2. e \in Listing
      BY <1>6, <2>1, ListingThere DEF PostPrice, At
    <2>3. PICK p : p = [e EXCEPT !.do = "pool"]
      OBVIOUS
    <2>4. p \in Listing
      BY <2>2, <2>3 DEF Listing
    <2>5. script' = After(script) \/ script' = OnToPool
      BY <1>6 DEF PostPrice
    <2>6. OnToPool = [script EXCEPT !.todo = <<p>> \o Tail(script.todo)]
      BY <2>1, <2>3 DEF OnToPool
    <2> QED
      BY <1>3, <1>4, <2>4, <2>5, <2>6
  <1> QED
    BY <1>5, <1>6

\* The script's copy of the manifest notes something beside the records.
Notes ==
    \E s \in ScriptStates :
        /\ script.todo # <<>> /\ Head(script.todo).do \notin {"diamond", "cut"}
        /\ s.todo = script.todo /\ s.cuts = script.cuts /\ s.sent = script.sent
        /\ SameRecords(script.mem, s.mem)
        /\ script' = After(s)
        /\ Tears /\ UNCHANGED <<ds, contracts, file, release>>

LEMMA NotingNotes ==
    ASSUME DeploymentInv, InitializePool \/ AskExplorer
    PROVE  Notes
  <1>1. script.todo # <<>> /\ Head(script.todo).do \notin {"diamond", "cut"}
        /\ Tears /\ UNCHANGED <<ds, contracts, file, release>>
    BY DEF InitializePool, AskExplorer, At, Rest, chain
  <1>2. script \in ScriptStates /\ script.mem \in Manifests /\ SameRecords(script.mem, script.mem)
    BY <1>1, Running DEF SameRecords, DeploymentInv, ScriptStates
  <1>3. ASSUME NEW mem \in Manifests, SameRecords(script.mem, mem),
               script' = After([script EXCEPT !.mem = mem])
        PROVE  Notes
    <2>1. PICK s : s = [script EXCEPT !.mem = mem]
      OBVIOUS
    <2>2. /\ s \in ScriptStates /\ s.todo = script.todo /\ s.cuts = script.cuts
          /\ s.sent = script.sent /\ s.mem = mem
      BY <1>2, <2>1 DEF ScriptStates
    <2>3. script' = After(s) /\ SameRecords(script.mem, s.mem)
      BY <1>3, <2>1, <2>2
    <2> QED
      BY <1>1, <2>2, <2>3 DEF Notes
  <1>4. CASE InitializePool
    <2>1. PICK e : e = Head(script.todo)
      OBVIOUS
    <2>2. e.id \in Nat
      BY <1>4, <2>1, ListingThere DEF InitializePool, At, Listing
    <2>3. PICK listed : listed = script.mem.markets \cup {e.id}
      OBVIOUS
    <2>4. PICK mem : mem = [script.mem EXCEPT !.markets = listed]
      OBVIOUS
    <2>5. mem \in Manifests /\ SameRecords(script.mem, mem)
      BY <1>2, <2>2, <2>3, <2>4 DEF Manifests, SameRecords
    <2>6. [script EXCEPT !.mem = mem] = [script EXCEPT !.mem.markets = @ \cup {e.id}]
      BY <1>2, <2>3, <2>4 DEF ScriptStates
    <2>7. \/ script' = After([script EXCEPT !.mem.markets = @ \cup {e.id}])
          \/ script' = After(script)
      BY <1>4, <2>1 DEF InitializePool
    <2>8. CASE script' = After(script)
      BY <1>1, <1>2, <2>8 DEF Notes
    <2> QED
      BY <1>3, <2>5, <2>6, <2>7, <2>8
  <1>5. CASE AskExplorer
    <2>1. PICK names \in SUBSET Facets :
             script' = After([script EXCEPT !.mem.verified = {script.mem.facets[n].address : n \in names}])
      <3>1. PICK recorded : recorded = {n \in Explored : script.mem.facets[n].address # 0}
        OBVIOUS
      <3>2. recorded \in SUBSET Facets
        BY <3>1, DeploymentAssumption
      <3>3. \A n \in recorded : recorded \ {n} \in SUBSET Facets
        BY <3>2
      <3> QED
        BY <1>5, <3>1, <3>2, <3>3 DEF AskExplorer
    <2>2. PICK asked : asked = {script.mem.facets[n].address : n \in names}
      OBVIOUS
    <2>3. asked \in SUBSET (0..MaxAddress)
      BY <1>2, <2>2, RecordsTyped
    <2>4. PICK mem : mem = [script.mem EXCEPT !.verified = asked]
      OBVIOUS
    <2>5. mem \in Manifests /\ SameRecords(script.mem, mem)
      BY <1>2, <2>3, <2>4 DEF Manifests, SameRecords
    <2>6. [script EXCEPT !.mem = mem] = [script EXCEPT !.mem.verified = asked]
      BY <1>2, <2>4 DEF ScriptStates
    <2>7. script' = After([script EXCEPT !.mem = mem])
      BY <2>1, <2>2, <2>6
    <2> QED
      BY <1>3, <2>5, <2>7
  <1> QED
    BY <1>4, <1>5

\* All the effects that touch neither routes, contracts nor records.
Besides ==
    \/ SetImplementation \/ Configure \/ CheckRoles \/ VerifyDiamondState
    \/ AcceptCollateral \/ FundVault \/ PostTestPrice
    \/ CreateMarket \/ PostPrice \/ InitializePool \/ AskExplorer

LEMMA BesidesGoesOn ==
    ASSUME DeploymentInv, Besides
    PROVE  Elsewhere \/ Lists \/ Notes
  BY ConfiguringElsewhere, ListingGoesOn, NotingNotes DEF Besides

LEMMA BesidesTrue ==
    ASSUME DeploymentInv, RecordInv, Besides
    PROVE  RecordInv'
  <1>1. CASE Elsewhere
    BY <1>1, ConfiguringTrue
  <1>2. CASE Lists
    BY <1>2, ListingTrue DEF Lists
  <1>3. CASE Notes
    BY <1>3, ElsewhereTrue DEF Notes
  <1> QED
    BY <1>1, <1>2, <1>3, BesidesGoesOn

\* A script that ends where it is, the last contract perhaps left behind.
LEMMA AbortTrue ==
    ASSUME DeploymentInv, RecordInv, script' = Idle, Tears, UNCHANGED <<ds, file>>,
           Len(contracts') \in Nat, Len(contracts) <= Len(contracts')
    PROVE  RecordInv'
  <1>1. ds \in Reached(0) /\ ds \in Tables /\ ds.ok /\ file \in Manifests /\ Len(contracts) \in Nat
    BY RunningTrue
  <1>2. PICK k, j, t, saved : k = Len(contracts) /\ j = Len(contracts') /\ t = ds /\ saved = file
    OBVIOUS
  <1>3. Within(t, k) /\ OnRecord(saved, k) /\ FileTrue(ds, file, script, torn)
    BY <1>2 DEF RecordInv
  <1>4. k \in Nat /\ j \in Nat /\ k <= j
    BY <1>1, <1>2
  <1>5. Within(t, j) /\ (Apart(saved, k) => Apart(saved, j))
    BY <1>1, <1>2, <1>3, <1>4, MoreContracts
  <1>6. OnRecord(saved, j)
    BY <1>3, <1>5 DEF OnRecord
  <1>7. \A lost : ScriptTrue(t, Idle, j, lost)
    BY <1>1, <1>2, <1>4, <1>5, IdleTrue
  <1>8. FileTrue(ds', file', script', torn')
    BY <1>3, FileStaysTrue
  <1> QED
    BY <1>2, <1>5, <1>6, <1>7, <1>8 DEF RecordInv

\* The functions at an address, as the loupe lists them.
ServedAt(t, b) == {s \in Selectors : b # 0 /\ t.facetOf[s] = b}

\* A contract of facet n at address a is recorded, and cuts are gathered for it.
Deploying(s, n, a, set, more) ==
    /\ script.todo # <<>> /\ IsDeploy(Head(script.todo))
    /\ n \in Facets /\ a = Len(contracts) + 1 /\ more \in Seq(Cut)
    /\ s \in ScriptStates /\ s.todo = script.todo /\ s.sent = script.sent
    /\ s.cuts = script.cuts \o more /\ s.mem.diamond = script.mem.diamond
    /\ script.mem.upgrades \subseteq s.mem.upgrades
    /\ Recording(script.mem, s.mem, n, a, set)
    /\ Tears /\ contracts' = Append(contracts, n) /\ UNCHANGED <<ds, file, release>>

\* What the gathered cuts do, when they are not refused.
DeployEffect(s, n, a, set) ==
    Staged(ds, s).ok =>
        /\ Moves(Staged(ds, script), Staged(ds, s), a, script.mem.facets[n].address)
        /\ "ADD_NEW" \notin s.mem.upgrades => Lands(Staged(ds, s), a, set)
        /\ Brings(Staged(ds, script), Staged(ds, s), a, ToSet(SelectorsOf(n)),
                  ServedAt(ds, script.mem.facets[n].address) \ ToSet(SelectorsOf(n)))

LEMMA DeployingCounts ==
    ASSUME DeploymentInv, NEW s, NEW n, NEW a, NEW set, NEW more, Deploying(s, n, a, set, more)
    PROVE  Len(contracts') = a
  BY AppendProperties DEF Deploying, DeploymentInv

LEMMA RecordedTrue ==
    ASSUME DeploymentInv, RecordInv, NEW s, NEW n, NEW a, NEW set, NEW more,
           Deploying(s, n, a, set, more), DeployEffect(s, n, a, set), script' = After(s)
    PROVE  RecordInv'
  <1>0. /\ script.todo # <<>> /\ IsDeploy(Head(script.todo))
        /\ n \in Facets /\ a = Len(contracts) + 1 /\ more \in Seq(Cut)
        /\ s \in ScriptStates /\ s.todo = script.todo /\ s.sent = script.sent
        /\ s.cuts = script.cuts \o more /\ s.mem.diamond = script.mem.diamond
        /\ script.mem.upgrades \subseteq s.mem.upgrades
        /\ Recording(script.mem, s.mem, n, a, set)
        /\ Tears /\ Len(contracts') = a /\ UNCHANGED <<ds, file>>
        /\ Staged(ds, s).ok =>
               /\ Moves(Staged(ds, script), Staged(ds, s), a, script.mem.facets[n].address)
               /\ "ADD_NEW" \notin s.mem.upgrades => Lands(Staged(ds, s), a, set)
    BY DeployingCounts DEF Deploying, DeployEffect
  <1>1. /\ ds \in Reached(0) /\ ds \in Tables /\ ds.ok /\ Len(contracts) \in Nat
        /\ script.mem \in Manifests /\ file \in Manifests /\ script.cuts \in Seq(Cut)
        /\ script.todo \in Seq(Effects) /\ script.mem.diamond
        /\ Staged(ds, script) \in Tables
    BY <1>0, RunningTrue DEF IsDeploy
  <1>2. PICK k, t, d, u, M, N, lost, saved :
           /\ k = Len(contracts) /\ t = ds /\ d = Staged(ds, script) /\ u = Staged(ds, s)
           /\ M = script.mem /\ N = s.mem /\ lost = torn' /\ saved = file
    OBVIOUS
  <1>3. /\ k \in Nat /\ a = k + 1 /\ a \in Nat /\ k <= a
        /\ t \in Tables /\ d \in Tables /\ M \in Manifests
    BY <1>0, <1>1, <1>2
  <1>4. u \in Tables
    <2>1. s.cuts \in Seq(Cut)
      BY <1>0 DEF ScriptStates
    <2> QED
      BY <1>1, <1>2, <2>1, diamondCutKeeps DEF Staged, Reached
  <1>5. /\ Within(t, k) /\ OnRecord(saved, k) /\ FileTrue(ds, file, script, torn)
        /\ OnRecord(M, k) /\ PlanSound(script)
        /\ d.ok => Within(d, k) /\ KeptOf(t, d, M)
        /\ M.diamond /\ ~torn /\ "ADD_NEW" \notin M.upgrades /\ d.ok => TrueOf(d, M)
    BY <1>2 DEF RecordInv, ScriptTrue, StageSound, CopyTrue
  <1>6. ~lost => ~torn
    BY <1>0, <1>2 DEF Tears
  <1>7. Recording(M, N, n, k + 1, set) /\ Apart(M, k)
    BY <1>0, <1>2, <1>3, <1>5 DEF OnRecord
  <1>8. Apart(N, a)
    <2>1. M \in Manifests /\ k \in Nat /\ n \in Facets
      BY <1>0, <1>3
    <2>2. Apart(N, k + 1)
      BY ONLY <1>7, <2>1, RecordingApart
    <2> QED
      BY <1>3, <2>2
  <1>9. N.diamond /\ OnRecord(N, a)
    BY <1>0, <1>1, <1>2, <1>8 DEF OnRecord
  <1>10. ASSUME u.ok
         PROVE  /\ d.ok /\ Within(u, a) /\ KeptOf(t, u, N)
                /\ TrueOf(d, M) /\ Lands(u, a, set) => TrueOf(u, N)
    <2>1. Moves(d, u, k + 1, M.facets[n].address)
      BY <1>0, <1>2, <1>3, <1>10
    <2>2. d.ok
      BY <2>1 DEF Moves
    <2>3. Within(d, k) /\ KeptOf(t, d, M)
      BY <1>5, <2>2
    <2>4. /\ Within(u, k + 1) /\ KeptOf(t, u, N)
          /\ TrueOf(d, M) /\ Lands(u, k + 1, set) => TrueOf(u, N)
      BY <1>0, <1>3, <1>4, <1>5, <1>7, <2>1, <2>3, RecordingKeeps
    <2> QED
      BY <1>3, <2>2, <2>4
  <1>11. StageSound(t, s, a)
    BY <1>2, <1>10 DEF StageSound
  <1>12. CopyTrue(t, s, lost)
    <2> SUFFICES ASSUME ~lost, "ADD_NEW" \notin N.upgrades, u.ok PROVE TrueOf(u, N)
      BY <1>2 DEF CopyTrue
    <2>1. d.ok /\ "ADD_NEW" \notin M.upgrades /\ M.diamond
      BY <1>0, <1>1, <1>2, <1>10
    <2>2. TrueOf(d, M)
      BY <1>5, <1>6, <2>1
    <2>3. Lands(u, a, set)
      BY <1>0, <1>2
    <2> QED
      BY <1>10, <2>2, <2>3
  <1>13. Within(t, a) /\ (Apart(saved, k) => Apart(saved, a))
    BY <1>1, <1>2, <1>3, <1>5, MoreContracts
  <1>14. OnRecord(saved, a)
    BY <1>5, <1>13 DEF OnRecord
  <1>15. Orderly(s.todo) /\ CutComes(Tail(s.todo))
    BY <1>0, <1>1, <1>5, OrderOfRest DEF PlanSound, Orderly
  <1>16. ScriptTrue(t, After(s), a, lost)
    <2>1. t \in Reached(0) /\ t.ok /\ s.todo # <<>> /\ s.mem.diamond /\ OnRecord(s.mem, a)
      BY <1>0, <1>1, <1>2, <1>9
    <2>2. s \in ScriptStates
      BY <1>0
    <2> QED
      BY ONLY <1>3, <1>11, <1>12, <1>13, <1>15, <2>1, <2>2, AfterTrue
  <1>17. script' = Idle \/ script'.sent = script.sent
    <2>1. After(s) = Idle \/ After(s) = [s EXCEPT !.todo = Tail(@)]
      BY DEF After
    <2>2. [s EXCEPT !.todo = Tail(@)].sent = s.sent
      BY <1>0 DEF ScriptStates
    <2> QED
      BY <1>0, <2>1, <2>2
  <1>18. FileTrue(ds', file', script', torn')
    BY <1>0, <1>5, <1>17, FileStaysTrue
  <1> QED
    BY <1>0, <1>2, <1>13, <1>14, <1>16, <1>18 DEF RecordInv

\* The routes a script works towards when it has gathered more cuts.
LEMMA MoreStaged ==
    ASSUME DeploymentInv, RecordInv, NEW more \in Seq(Cut), NEW s, s.cuts = script.cuts \o more
    PROVE  Staged(ds, s) = diamondCut(Staged(ds, script), more)
  <1>1. ds \in Reached(0) /\ script.cuts \in Seq(Cut)
    BY RunningTrue
  <1> QED
    BY <1>1, CutsJoined DEF Staged

\* No function is routed to a contract that is not there yet.
LEMMA NextUnrouted ==
    ASSUME DeploymentInv, RecordInv
    PROVE  Staged(ds, script).ok => \A s \in Selectors : Staged(ds, script).facetOf[s] # Len(contracts) + 1
  <1>1. PICK k, d : k = Len(contracts) /\ d = Staged(ds, script)
    OBVIOUS
  <1>2. k \in Nat /\ d \in Tables
    BY <1>1, RunningTrue
  <1>3. d.ok => Within(d, k)
    BY <1>1 DEF RecordInv, ScriptTrue, StageSound
  <1>4. ASSUME d.ok, NEW s \in Selectors PROVE d.facetOf[s] # k + 1
    <2>1. d.facetOf[s] \in Nat /\ d.facetOf[s] <= k
      BY <1>2, <1>3, <1>4, RecordsTyped DEF Within
    <2> QED
      BY <1>2, <2>1
  <1> QED
    BY <1>1, <1>4

LEMMA DeployFacetDeploys ==
    ASSUME DeploymentInv, RecordInv, DeployFacet
    PROVE  \E s, n, a, set, more :
              Deploying(s, n, a, set, more) /\ DeployEffect(s, n, a, set) /\ script' = After(s)
  <1>1. script.todo # <<>> /\ Head(script.todo).do = "facet" /\ NextAddress \in Addresses
    BY DEF DeployFacet, At
  <1>2. script \in ScriptStates /\ Head(script.todo) \in Effects
    BY <1>1, Running DEF DeploymentInv
  <1>3. PICK n, which : n = Head(script.todo).facet /\ which = Head(script.todo).which
    OBVIOUS
  <1>4. n \in Facets /\ which \in {"all", "unrouted", "unknown"}
    BY <1>1, <1>2, <1>3, EffectsTyped
  <1>5. PICK selectors : selectors = Filtered(SelectorsOf(n), which)
    OBVIOUS
  <1>6. selectors \in Seq(Selectors)
    <2>1. SelectorsOf(n) \in Seq(Selectors)
      BY <1>4, CodeIsSelectors DEF DeploymentInv
    <2> QED
      BY <1>4, <1>5, <2>1, KeptSelectors DEF Filtered
  <1>7. PICK a \in Addresses : a = NextAddress
    BY <1>1
  <1>8. a \in 0..MaxAddress /\ a = Len(contracts) + 1
    BY <1>7, AddressesAreNat DEF NextAddress
  <1>9. PICK more : more = CutOf("Add", a, selectors)
    OBVIOUS
  <1>10. PICK mem, known, cuts :
           /\ mem = recordFacet(script.mem, n, a, selectors)
           /\ known = script.known \cup ToSet(selectors)
           /\ cuts = script.cuts \o more
    OBVIOUS
  <1>11. script.mem \in Manifests
    BY <1>2 DEF ScriptStates
  <1>12. /\ mem \in Manifests /\ mem.diamond = script.mem.diamond
         /\ mem.upgrades = script.mem.upgrades
         /\ Recording(script.mem, mem, n, a, ToSet(selectors))
    <2>1. mem.facets = [script.mem.facets EXCEPT ![n] = [address |-> a, selectors |-> ToSet(selectors)]]
      BY <1>10, <1>11 DEF recordFacet, Manifests
    <2> QED
      BY <1>4, <1>6, <1>8, <1>10, <1>11, <2>1, Recorded DEF Recording
  <1>13. known \in SUBSET Selectors
    BY <1>2, <1>6, <1>10, EntryOf DEF ScriptStates
  <1>14. more \in Seq(Cut) /\ cuts \in Seq(Cut)
    <2>1. more \in Seq(Cut)
      BY <1>6, <1>8, <1>9, OneCut
    <2> QED
      BY <1>2, <1>10, <2>1, Joined DEF ScriptStates
  <1>15. PICK s : s = [[[script EXCEPT !.mem = mem] EXCEPT !.known = known] EXCEPT !.cuts = cuts]
    OBVIOUS
  <1>16. s \in ScriptStates /\ s.todo = script.todo /\ s.mem = mem /\ s.cuts = cuts
         /\ s.sent = script.sent
    BY <1>2, <1>12, <1>13, <1>14, <1>15 DEF ScriptStates
  <1>17. script' = After(s)
    <2>1. script' = After([script EXCEPT
                  !.mem = recordFacet(@, n, NextAddress, selectors),
                  !.known = @ \cup ToSet(selectors),
                  !.cuts = @ \o CutOf("Add", NextAddress, selectors)])
      BY <1>3, <1>5 DEF DeployFacet
    <2>2. s = [script EXCEPT
                  !.mem = recordFacet(@, n, NextAddress, selectors),
                  !.known = @ \cup ToSet(selectors),
                  !.cuts = @ \o CutOf("Add", NextAddress, selectors)]
      BY <1>2, <1>7, <1>9, <1>10, <1>15 DEF ScriptStates
    <2> QED
      BY <2>1, <2>2
  <1>18. PICK d, u, set, old, code :
            /\ d = Staged(ds, script) /\ u = Staged(ds, s) /\ set = ToSet(selectors)
            /\ old = script.mem.facets[n].address /\ code = ToSet(SelectorsOf(n))
    OBVIOUS
  <1>19. set \subseteq code
    <2>1. \A x : ToSet(NotIn(SelectorsOf(n), x)) = ToSet(SelectorsOf(n)) \ x
      BY <1>4, CodeIsSelectors, LeftOut DEF DeploymentInv
    <2> QED
      BY <1>4, <1>5, <1>18, <2>1 DEF Filtered
  <1>20. ASSUME u.ok
         PROVE  Moves(d, u, a, old) /\ Lands(u, a, set) /\ \A x : Brings(d, u, a, code, x)
    <2>1. d \in Reached(0) /\ (d.ok => \A x \in Selectors : d.facetOf[x] # a)
      BY <1>8, <1>18, RunningTrue, NextUnrouted
    <2>2. u = diamondCut(d, CutOf("Add", a, selectors))
      BY <1>9, <1>10, <1>14, <1>16, <1>18, MoreStaged
    <2>3. a \in Addresses
      OBVIOUS
    <2>4. /\ Moves(d, u, a, old) /\ Lands(u, a, ToSet(selectors))
          /\ Brings(d, u, a, ToSet(selectors), {})
      BY ONLY <1>6, <1>20, <2>1, <2>2, <2>3, DeployMoves
    <2> QED
      BY <1>18, <1>19, <2>4 DEF Brings
  <1>21. contracts' = Append(contracts, n) /\ Tears /\ UNCHANGED <<ds, file, release>>
    BY <1>3 DEF DeployFacet, Quiet
  <1>22. IsDeploy(Head(script.todo))
    BY <1>1 DEF IsDeploy
  <1>23. Recording(script.mem, s.mem, n, a, set)
    BY <1>12, <1>16, <1>18
  <1>24. Deploying(s, n, a, set, more)
    BY <1>1, <1>4, <1>8, <1>10, <1>12, <1>14, <1>16, <1>21, <1>22, <1>23 DEF Deploying
  <1>25. DeployEffect(s, n, a, set)
    BY <1>18, <1>20 DEF DeployEffect
  <1> QED
    BY <1>17, <1>24, <1>25

LEMMA ServedList ==
    ASSUME NEW t \in Reached(0), t.ok, NEW b \in 0..MaxAddress
    PROVE  /\ facetFunctionSelectors(t, b) \in Seq(Selectors)
           /\ ToSet(facetFunctionSelectors(t, b)) = ServedAt(t, b)
  <1>1. t \in Tables /\ Listed(t)
    BY DEF Reached, Midway
  <1>2. CASE b = 0
    <2>1. facetFunctionSelectors(t, b) = <<>>
      BY <1>2 DEF facetFunctionSelectors
    <2>2. ToSet(<<>>) = {} /\ <<>> \in Seq(Selectors)
      BY EmptySeq DEF ToSet
    <2> QED
      BY <1>2, <2>1, <2>2 DEF ServedAt
  <1>3. CASE b # 0
    <2>1. b \in Addresses
      BY <1>3, AddressesAreNat
    <2>2. facetFunctionSelectors(t, b) = t.list[b] /\ t.list[b] \in Seq(Selectors)
      BY <1>1, <1>3, <2>1 DEF facetFunctionSelectors, Tables
    <2>3. ToSet(t.list[b]) = {s \in Selectors : t.facetOf[s] = b}
      BY <1>1, <2>1 DEF Listed
    <2> QED
      BY <1>3, <2>2, <2>3 DEF ServedAt
  <1> QED
    BY <1>2, <1>3

\* What an upgrade adds, takes over and drops.
LEMMA DiffDiffers ==
    ASSUME DeploymentInv, script.mem \in Manifests, NEW n \in Facets
    PROVE  \E add, replace, remove \in Seq(Selectors) :
              /\ SelectorDiff(n) = [add |-> add, replace |-> replace, remove |-> remove]
              /\ Differs(add, replace, remove, ToSet(SelectorsOf(n)),
                         ServedAt(ds, script.mem.facets[n].address))
  <1>1. PICK old, new, b : /\ b = script.mem.facets[n].address
                           /\ old = facetFunctionSelectors(ds, b)
                           /\ new = SelectorsOf(n)
    OBVIOUS
  <1>2. new \in Seq(Selectors)
    BY <1>1, CodeIsSelectors DEF DeploymentInv
  <1>3. old \in Seq(Selectors) /\ ToSet(old) = ServedAt(ds, b)
    <2>1. b \in 0..MaxAddress /\ ds \in Reached(0) /\ ds.ok
      BY <1>1, RecordsTyped DEF DeploymentInv
    <2> QED
      BY <1>1, <2>1, ServedList
  <1>4. PICK x, y : x = ToSet(new) /\ y = ToSet(old)
    OBVIOUS
  <1>5. PICK add, replace, remove :
           add = NotIn(new, y) /\ replace = OnlyIn(new, y) /\ remove = NotIn(old, x)
    OBVIOUS
  <1>6. /\ add \in Seq(Selectors) /\ replace \in Seq(Selectors) /\ remove \in Seq(Selectors)
        /\ ToSet(add) = x \ y /\ ToSet(replace) = x \cap y /\ ToSet(remove) = y \ x
    BY <1>2, <1>3, <1>4, <1>5, KeptSelectors, KeptIn, LeftOut
  <1>7. x \subseteq Selectors /\ y \subseteq Selectors
    BY <1>2, <1>3, <1>4, EntryOf
  <1>8. Differs(add, replace, remove, x, y)
    BY <1>6, <1>7 DEF Differs
  <1>9. SelectorDiff(n) = [add |-> add, replace |-> replace, remove |-> remove]
    BY <1>1, <1>4, <1>5 DEF SelectorDiff
  <1> QED
    BY <1>1, <1>3, <1>4, <1>6, <1>8, <1>9

LEMMA SelectAndDeployDeploys ==
    ASSUME DeploymentInv, RecordInv, SelectAndDeploy
    PROVE  \E s, n, a, set, more :
              /\ Deploying(s, n, a, set, more) /\ DeployEffect(s, n, a, set)
              /\ script' = After(s) \/ script' = Idle
  <1>1. script.todo # <<>> /\ Head(script.todo).do = "upgrade" /\ NextAddress \in Addresses
    BY DEF SelectAndDeploy, At
  <1>2. script \in ScriptStates /\ Head(script.todo) \in Effects /\ script.mem \in Manifests
    BY <1>1, Running DEF DeploymentInv, ScriptStates
  <1>3. PICK n, mode : n = Head(script.todo).facet /\ mode = Head(script.todo).mode
    OBVIOUS
  <1>4. n \in Facets /\ mode \in Modes \cup {"V2"}
    BY <1>1, <1>2, <1>3, EffectsTyped
  <1>5. PICK diff : diff = SelectorDiff(n)
    OBVIOUS
  <1>6. PICK a \in Addresses : a = NextAddress
    BY <1>1
  <1>7. a \in 0..MaxAddress /\ a = Len(contracts) + 1
    BY <1>6, AddressesAreNat DEF NextAddress
  <1>8. PICK code, set, old, b : /\ code = SelectorsOf(n) /\ set = ToSet(code)
                                 /\ b = script.mem.facets[n].address /\ old = ServedAt(ds, b)
    OBVIOUS
  <1>9. PICK add, replace, remove \in Seq(Selectors) :
           /\ diff = [add |-> add, replace |-> replace, remove |-> remove]
           /\ Differs(add, replace, remove, set, old)
    BY <1>2, <1>4, <1>5, <1>8, DiffDiffers
  <1>10. PICK more : more = UpgradeCuts(diff, a, mode)
    OBVIOUS
  <1>11. more \in Seq(Cut)
    BY <1>4, <1>7, <1>9, <1>10, UpgradeCutsTyped
  <1>12. PICK recorded, mem, cuts :
           /\ recorded = recordFacet(script.mem, n, a, code)
           /\ mem = recordUpgrade(script.mem, n, a, mode)
           /\ cuts = script.cuts \o more
    OBVIOUS
  <1>13. /\ mem \in Manifests /\ mem.diamond = script.mem.diamond
         /\ mem.upgrades = script.mem.upgrades \cup {mode}
         /\ Recording(script.mem, mem, n, a, set)
    <2>1. code \in Seq(Selectors)
      BY <1>4, <1>8, CodeIsSelectors DEF DeploymentInv
    <2>2. /\ recorded \in Manifests /\ recorded.diamond = script.mem.diamond
          /\ recorded.upgrades = script.mem.upgrades
      BY <1>2, <1>4, <1>7, <1>12, <2>1, Recorded
    <2>3. recorded.facets = [script.mem.facets EXCEPT ![n] = [address |-> a, selectors |-> set]]
      BY <1>2, <1>8, <1>12 DEF recordFacet, Manifests
    <2>4. PICK upgrades : upgrades = recorded.upgrades \cup {mode}
      OBVIOUS
    <2>5. upgrades \in SUBSET (Modes \cup {"V2"})
      BY <1>4, <2>2, <2>4 DEF Manifests
    <2>6. mem = [recorded EXCEPT !.upgrades = upgrades]
      BY <1>8, <1>12, <2>4 DEF recordUpgrade
    <2>7. /\ mem \in Manifests /\ mem.diamond = recorded.diamond
          /\ mem.upgrades = upgrades /\ mem.facets = recorded.facets
      BY <2>2, <2>5, <2>6 DEF Manifests
    <2> QED
      BY <2>2, <2>3, <2>4, <2>7 DEF Recording
  <1>14. cuts \in Seq(Cut)
    BY <1>2, <1>11, <1>12, Joined DEF ScriptStates
  <1>15. PICK s : s = [[script EXCEPT !.mem = mem] EXCEPT !.cuts = cuts]
    OBVIOUS
  <1>16. s \in ScriptStates /\ s.todo = script.todo /\ s.mem = mem /\ s.cuts = cuts
         /\ s.sent = script.sent
    BY <1>2, <1>13, <1>14, <1>15 DEF ScriptStates
  <1>17. script' = After(s) \/ script' = Idle
    <2>1. \/ script' = Idle
          \/ script' = After([script EXCEPT
                !.mem = recordUpgrade(@, n, NextAddress, mode),
                !.cuts = @ \o UpgradeCuts(diff, NextAddress, mode)])
      BY <1>3, <1>5 DEF SelectAndDeploy, Abort
    <2>2. s = [script EXCEPT
                !.mem = recordUpgrade(@, n, NextAddress, mode),
                !.cuts = @ \o UpgradeCuts(diff, NextAddress, mode)]
      BY <1>2, <1>6, <1>10, <1>12, <1>15 DEF ScriptStates
    <2> QED
      BY <2>1, <2>2
  <1>18. PICK d, u : d = Staged(ds, script) /\ u = Staged(ds, s)
    OBVIOUS
  <1>19. ASSUME u.ok
         PROVE  Moves(d, u, a, b) /\ (mode # "ADD_NEW" => Lands(u, a, set))
                /\ Brings(d, u, a, set, old \ set)
    <2>1. d \in Reached(0) /\ (d.ok => \A x \in Selectors : d.facetOf[x] # a)
      BY <1>7, <1>18, RunningTrue, NextUnrouted
    <2>2. u = diamondCut(d, UpgradeCuts([add |-> add, replace |-> replace, remove |-> remove], a, mode))
      BY <1>9, <1>10, <1>11, <1>12, <1>16, <1>18, MoreStaged
    <2>3. d.ok => \A x \in old : d.facetOf[x] = b
      <3>1. d.ok => KeptOf(ds, d, script.mem)
        BY <1>18 DEF RecordInv, ScriptTrue, StageSound
      <3> QED
        BY <1>4, <1>8, <3>1 DEF KeptOf, ServedAt
    <2>4. d.ok => /\ \A x \in Selectors : d.facetOf[x] # a
                  /\ \A x \in old : d.facetOf[x] = b
      BY <2>1, <2>3
    <2>5. a \in Addresses /\ mode \in Modes \cup {"V2"} /\ d \in Reached(0)
      BY <1>4, <2>1
    <2>6. Differs(add, replace, remove, set, old)
      BY <1>9
    <2> QED
      BY ONLY <1>19, <2>2, <2>4, <2>5, <2>6, UpgradeMoves
  <1>20. contracts' = Append(contracts, n) /\ Tears /\ UNCHANGED <<ds, file, release>>
    BY <1>3 DEF SelectAndDeploy, Quiet
  <1>21. IsDeploy(Head(script.todo))
    BY <1>1 DEF IsDeploy
  <1>22. Deploying(s, n, a, set, more)
    <2>1. Recording(script.mem, s.mem, n, a, set)
      BY <1>13, <1>16
    <2>2. s.cuts = script.cuts \o more
      BY <1>12, <1>16
    <2>3. s.mem.diamond = script.mem.diamond /\ script.mem.upgrades \subseteq s.mem.upgrades
      BY <1>13, <1>16
    <2> QED
      BY <1>1, <1>4, <1>7, <1>11, <1>16, <1>20, <1>21, <2>1, <2>2, <2>3 DEF Deploying
  <1>23. DeployEffect(s, n, a, set)
    <2>1. "ADD_NEW" \notin s.mem.upgrades => mode # "ADD_NEW"
      BY <1>13, <1>16
    <2>2. u.ok => /\ Moves(d, u, a, b)
                  /\ "ADD_NEW" \notin s.mem.upgrades => Lands(u, a, set)
                  /\ Brings(d, u, a, set, old \ set)
      BY <1>19, <2>1
    <2> QED
      BY <1>8, <1>18, <2>2 DEF DeployEffect
  <1> QED
    BY <1>17, <1>22, <1>23

LEMMA DeployingTrue ==
    ASSUME DeploymentInv, RecordInv, DeployFacet \/ SelectAndDeploy
    PROVE  RecordInv'
  <1>1. PICK s, n, a, set, more : /\ Deploying(s, n, a, set, more) /\ DeployEffect(s, n, a, set)
                                  /\ script' = After(s) \/ script' = Idle
    BY DeployFacetDeploys, SelectAndDeployDeploys
  <1>2. CASE script' = After(s)
    BY <1>1, <1>2, RecordedTrue
  <1>3. CASE script' = Idle
    <2>1. Len(contracts) \in Nat /\ Len(contracts') = Len(contracts) + 1
      BY <1>1, RunningTrue, DeployingCounts DEF Deploying
    <2>2. Len(contracts') \in Nat /\ Len(contracts) <= Len(contracts')
      BY <2>1
    <2>3. Tears /\ UNCHANGED <<ds, file>>
      BY <1>1 DEF Deploying
    <2> QED
      BY <1>3, <2>2, <2>3, AbortTrue
  <1> QED
    BY <1>1, <1>2, <1>3

LEMMA SendCutTrue ==
    ASSUME DeploymentInv, RecordInv, SendCut
    PROVE  RecordInv'
  <1>1. script.todo # <<>> /\ Head(script.todo).do = "cut" /\ Tears /\ UNCHANGED <<contracts, file>>
    BY DEF SendCut, At, Quiet
  <1>2. /\ script \in ScriptStates /\ Len(contracts) \in Nat /\ script.mem.diamond
        /\ script.todo \in Seq(Effects) /\ ds \in Reached(0) /\ Staged(ds, script) \in Reached(0)
    BY <1>1, RunningTrue
  <1>3. PICK k, t, d, M, lost : /\ k = Len(contracts) /\ t = ds /\ d = Staged(ds, script)
                                /\ M = script.mem /\ lost = torn'
    OBVIOUS
  <1>4. /\ OnRecord(file, k) /\ FileTrue(ds, file, script, torn) /\ OnRecord(M, k)
        /\ PlanSound(script) /\ (d.ok => Within(d, k))
        /\ M.diamond /\ ~torn /\ "ADD_NEW" \notin M.upgrades /\ d.ok => TrueOf(d, M)
    BY <1>3 DEF RecordInv, ScriptTrue, StageSound, CopyTrue
  <1>5. ~lost => ~torn
    BY <1>1, <1>3 DEF Tears
  <1>6. CASE ~d.ok
    <2>1. ds' = ds /\ script' = Idle
      BY <1>3, <1>6 DEF SendCut, Staged, Abort
    <2>2. Len(contracts') = Len(contracts) /\ Len(contracts) <= Len(contracts')
      BY <1>1, <1>2
    <2> QED
      BY <1>1, <1>2, <2>1, <2>2, AbortTrue
  <1>7. CASE d.ok
    <2>1. PICK none, sent : none = <<>> /\ sent = (script.sent \/ script.cuts # <<>>)
      OBVIOUS
    <2>2. none \in Seq(Cut) /\ sent \in BOOLEAN
      BY <2>1, EmptySeq
    <2>3. PICK s : s = [[script EXCEPT !.cuts = none] EXCEPT !.sent = sent]
      OBVIOUS
    <2>4. s \in ScriptStates /\ s.todo = script.todo /\ s.mem = M /\ s.cuts = <<>> /\ s.sent = sent
      BY <1>2, <1>3, <2>1, <2>2, <2>3 DEF ScriptStates
    <2>5. ds' = d /\ script' = After(s)
      <3>1. s = [script EXCEPT !.cuts = <<>>, !.sent = @ \/ script.cuts # <<>>]
        BY <1>2, <2>1, <2>3 DEF ScriptStates
      <3> QED
        BY <1>3, <1>7, <3>1 DEF SendCut, Staged
    <2>6. d \in Reached(0) /\ Within(d, k) /\ k \in Nat
      BY <1>2, <1>3, <1>4, <1>7
    <2>7. Staged(d, s) = d /\ StageSound(d, s, k)
      BY <1>7, <2>4, <2>6, NothingStaged
    <2>8. CopyTrue(d, s, lost)
      BY <1>4, <1>5, <2>4, <2>7 DEF CopyTrue
    <2>9. ScriptTrue(d, After(s), k, lost)
      <3>1. s.todo # <<>> /\ Orderly(s.todo) /\ s.mem.diamond /\ OnRecord(s.mem, k)
        BY <1>1, <1>2, <1>3, <1>4, <2>4 DEF PlanSound
      <3> QED
        BY <1>7, <2>4, <2>6, <2>7, <2>8, <3>1, AfterTrue
    <2>10. script'.sent = sent
      <3>1. Len(s.todo) # 1
        BY <1>1, <1>2, <1>4, <2>4, OrderOfRest DEF PlanSound, Orderly
      <3>2. PICK rest : rest = Tail(s.todo)
        OBVIOUS
      <3>3. script' = [s EXCEPT !.todo = rest]
        BY <2>5, <3>1, <3>2 DEF After
      <3> QED
        BY <2>4, <3>3 DEF ScriptStates
    <2>11. FileTrue(d, file, script', lost)
      <3>1. CASE script.cuts # <<>>
        BY <2>1, <2>10, <3>1 DEF FileTrue
      <3>2. CASE script.cuts = <<>>
        <4>1. d = ds
          BY <1>2, <1>3, <3>2, NoCuts DEF Staged
        <4>2. script'.sent <=> script.sent
          BY <2>1, <2>10, <3>2
        <4> QED
          BY <1>4, <1>5, <4>1, <4>2 DEF FileTrue
      <3> QED
        BY <3>1, <3>2
    <2> QED
      BY <1>1, <1>3, <1>4, <2>5, <2>6, <2>9, <2>11 DEF RecordInv
  <1> QED
    BY <1>6, <1>7

\* When the manifest is written the cuts have been made.
LEMMA SaveTrue ==
    ASSUME DeploymentInv, RecordInv, SaveDeployment
    PROVE  RecordInv'
  <1>1. script.todo # <<>> /\ Head(script.todo).do = "save"
        /\ UNCHANGED <<ds, contracts, torn>> /\ file' = script.mem
    BY DEF SaveDeployment, At, chain
  <1>2. /\ script \in ScriptStates /\ Len(contracts) \in Nat /\ script.mem.diamond
        /\ script.todo \in Seq(Effects) /\ ds \in Reached(0) /\ ds.ok
    BY <1>1, RunningTrue
  <1>3. PICK k, M : k = Len(contracts) /\ M = script.mem
    OBVIOUS
  <1>4. /\ Within(ds, k) /\ OnRecord(M, k) /\ PlanSound(script) /\ CopyTrue(ds, script, torn)
    BY <1>3 DEF RecordInv, ScriptTrue
  <1>5. script.cuts = <<>>
    BY <1>1, <1>2, <1>4, OrderOfRest DEF PlanSound
  <1>6. Staged(ds, script) = ds
    BY <1>2, <1>5, NoCuts DEF Staged
  <1>7. PICK s : s = [script EXCEPT !.sent = FALSE]
    OBVIOUS
  <1>8. s \in ScriptStates /\ s.todo = script.todo /\ s.mem = M /\ s.cuts = <<>>
    BY <1>2, <1>3, <1>5, <1>7 DEF ScriptStates
  <1>9. k \in Nat /\ Staged(ds, s) = ds /\ StageSound(ds, s, k)
    BY <1>2, <1>3, <1>4, <1>8, NothingStaged
  <1>10. M.diamond /\ ~torn /\ "ADD_NEW" \notin M.upgrades => TrueOf(ds, M)
    BY <1>2, <1>3, <1>4, <1>6 DEF CopyTrue
  <1>11. CopyTrue(ds, s, torn)
    BY <1>8, <1>9, <1>10 DEF CopyTrue
  <1>12. ScriptTrue(ds, After(s), k, torn)
    <2>1. s.todo # <<>> /\ Orderly(s.todo) /\ s.mem.diamond /\ OnRecord(s.mem, k)
      BY <1>1, <1>2, <1>3, <1>4, <1>8 DEF PlanSound
    <2> QED
      BY <1>2, <1>4, <1>8, <1>9, <1>11, <2>1, AfterTrue
  <1>13. script' = After(s)
    BY <1>7 DEF SaveDeployment
  <1>14. FileTrue(ds, M, script', torn)
    BY <1>10 DEF FileTrue
  <1>15. RecordInv'
    BY <1>1, <1>3, <1>4, <1>12, <1>13, <1>14 DEF RecordInv
  <1> QED
    BY <1>15

\* A diamond is deployed only while none is on record.
LEMMA NewDiamondFirst ==
    ASSUME DeploymentInv, NewDiamond
    PROVE  ~script.mem.diamond /\ ~file.diamond
  <1>1. TodoSound(script, markets, file)
    BY DEF DeploymentInv, ScriptSound
  <1>2. PICK e : e = Head(script.todo) /\ e.do = "diamond" /\ script.todo # <<>>
    BY DEF NewDiamond, At
  <1>3. e \notin Planned /\ e \notin Setup /\ e \notin Listing
    BY <1>2 DEF Planned, Setup, Listing
  <1>4. e \notin Later(script)
    BY <1>3, LaterEffects
  <1> QED
    BY <1>1, <1>2, <1>4 DEF TodoSound

\* Its manifest records one function.
LEMMA NewDiamondRecords ==
    ASSUME DeploymentInv, RecordInv, NewDiamond
    PROVE  \E s \in ScriptStates :
              /\ s.todo = script.todo /\ s.cuts = script.cuts
              /\ s.mem \in Manifests /\ s.mem.diamond
              /\ Recording(script.mem, s.mem, "DiamondCutFacet", 1, ToSet(<<CutSelector>>))
              /\ script' = After(s)
  <1>1. script \in ScriptStates /\ script.mem \in Manifests
    BY RunningTrue
  <1>2. PICK M, n, a : M = script.mem /\ n = "DiamondCutFacet" /\ a = 1
    OBVIOUS
  <1>3. n \in Facets /\ a \in Addresses /\ M \in Manifests
    BY <1>1, <1>2, DeploymentAssumption DEF Addresses
  <1>4. PICK selectors, set : selectors = <<CutSelector>> /\ set = ToSet(selectors)
    OBVIOUS
  <1>5. selectors \in Seq(Selectors) /\ {CutSelector} \in SUBSET Selectors
    BY <1>4, DeploymentAssumption
  <1>6. PICK recorded, mem, known :
           /\ recorded = recordFacet(M, n, a, selectors)
           /\ mem = [recorded EXCEPT !.diamond = TRUE]
           /\ known = {CutSelector}
    OBVIOUS
  <1>7. mem \in Manifests /\ mem.diamond /\ Recording(M, mem, n, a, set)
    <2>1. recorded \in Manifests
      BY <1>3, <1>5, <1>6, AddressesAreNat, Recorded
    <2>2. recorded.facets = [M.facets EXCEPT ![n] = [address |-> a, selectors |-> set]]
      BY <1>3, <1>4, <1>6 DEF recordFacet, Manifests
    <2>3. mem \in Manifests /\ mem.diamond /\ mem.facets = recorded.facets
      BY <1>6, <2>1 DEF Manifests
    <2> QED
      BY <2>2, <2>3 DEF Recording
  <1>8. PICK s : s = [[script EXCEPT !.mem = mem] EXCEPT !.known = known]
    OBVIOUS
  <1>9. s \in ScriptStates /\ s.todo = script.todo /\ s.mem = mem /\ s.cuts = script.cuts
    BY <1>1, <1>5, <1>6, <1>7, <1>8 DEF ScriptStates
  <1>10. script' = After(s)
    <2>1. script' = After([script EXCEPT
             !.mem = [recordFacet(@, "DiamondCutFacet", 1, <<CutSelector>>) EXCEPT !.diamond = TRUE],
             !.known = {CutSelector}])
      BY DEF NewDiamond
    <2>2. s = [script EXCEPT
             !.mem = [recordFacet(@, "DiamondCutFacet", 1, <<CutSelector>>) EXCEPT !.diamond = TRUE],
             !.known = {CutSelector}]
      BY <1>1, <1>2, <1>4, <1>6, <1>8 DEF ScriptStates
    <2> QED
      BY <2>1, <2>2
  <1>11. Recording(script.mem, s.mem, "DiamondCutFacet", 1, ToSet(<<CutSelector>>))
    BY <1>2, <1>4, <1>7, <1>9
  <1> QED
    BY <1>7, <1>9, <1>10, <1>11

\* A new diamond serves one function, and its manifest records just that.
LEMMA NewDiamondTrue ==
    ASSUME DeploymentInv, RecordInv, NewDiamond
    PROVE  RecordInv'
  <1>1. script.todo # <<>> /\ Head(script.todo).do = "diamond"
    BY DEF NewDiamond, At
  <1>2. script \in ScriptStates /\ script.mem \in Manifests
    BY RunningTrue
  <1>3. ~script.mem.diamond /\ ~file.diamond
    BY NewDiamondFirst
  <1>4. PICK M, n, k, a, u : /\ M = script.mem /\ n = "DiamondCutFacet" /\ k = 0 /\ a = 1
                             /\ u = ds'
    OBVIOUS
  <1>5. k \in Nat /\ a = k + 1 /\ a \in Nat /\ n \in Facets /\ a \in Addresses /\ M \in Manifests
    BY <1>2, <1>4, DeploymentAssumption DEF Addresses
  <1>6. Blank(M) /\ Blank(file) /\ PlanSound(script) /\ script.cuts = <<>>
    BY <1>3, <1>4 DEF RecordInv, ScriptTrue, OnRecord, PlanSound
  <1>7. PICK selectors, set : selectors = <<CutSelector>> /\ set = ToSet(selectors)
    OBVIOUS
  <1>8. selectors \in Seq(Selectors) /\ {CutSelector} \in SUBSET Selectors
    BY <1>7, DeploymentAssumption
  <1>9. u = diamondCut(NoRoutes, CutOf("Add", a, selectors)) /\ u \in Reached(0) /\ u.ok
    BY <1>4, <1>7, FirstCut DEF NewDiamond
  <1>10. PICK s \in ScriptStates :
            /\ s.todo = script.todo /\ s.cuts = script.cuts
            /\ s.mem \in Manifests /\ s.mem.diamond
            /\ Recording(script.mem, s.mem, "DiamondCutFacet", 1, ToSet(<<CutSelector>>))
            /\ script' = After(s)
    BY NewDiamondRecords
  <1>11. PICK mem : mem = s.mem
    OBVIOUS
  <1>12. mem \in Manifests /\ mem.diamond /\ Recording(M, mem, n, a, set)
    BY <1>4, <1>7, <1>10, <1>11
  <1>13. s.todo = script.todo /\ s.mem = mem /\ s.cuts = <<>>
    BY <1>6, <1>10, <1>11
  <1>14. script' = After(s)
    BY <1>10
  \* The first cut, from no routes and a blank manifest.
  <1>15. PICK t : t = NoRoutes
    OBVIOUS
  <1>16. t \in Reached(0) /\ t \in Tables /\ t.ok /\ \A x \in Selectors : t.facetOf[x] = 0
    BY <1>15, NoRoutesReached DEF Reached
  <1>17. Moves(t, u, a, M.facets[n].address) /\ Lands(u, a, set)
    <2>1. t.ok => \A x \in Selectors : t.facetOf[x] # a
      BY <1>4, <1>16
    <2>2. u = diamondCut(t, CutOf("Add", a, selectors)) /\ u.ok
      BY <1>9, <1>15
    <2>3. PICK old : old = M.facets[n].address
      OBVIOUS
    <2>4. Moves(t, u, a, old) /\ Lands(u, a, ToSet(selectors))
      BY <1>5, <1>8, <1>16, <2>1, <2>2, DeployMoves
    <2> QED
      BY <1>7, <2>3, <2>4
  <1>18. Within(t, k) /\ KeptOf(t, t, M) /\ TrueOf(t, M)
    <2>1. \A m \in Facets : M.facets[m].address = 0
      BY <1>6 DEF Blank, Unrecorded
    <2> QED
      BY <1>4, <1>16, <2>1 DEF Within, KeptOf, TrueOf
  <1>19. Apart(M, k) /\ OnRecord(file, a)
    BY <1>5, <1>6, BlankOnRecord DEF OnRecord
  <1>20. u \in Tables
    BY <1>9 DEF Reached
  <1>21. Apart(mem, a)
    <2>1. Recording(M, mem, n, k + 1, set) /\ M \in Manifests /\ n \in Facets /\ k \in Nat
      BY <1>5, <1>12
    <2>2. Apart(mem, k + 1)
      BY ONLY <1>19, <2>1, RecordingApart
    <2> QED
      BY <1>5, <2>2
  <1>22. Within(u, a) /\ TrueOf(u, mem)
    <2>1. /\ Recording(M, mem, n, k + 1, set) /\ M \in Manifests /\ n \in Facets /\ k \in Nat
          /\ Moves(t, u, k + 1, M.facets[n].address) /\ Lands(u, k + 1, set)
      BY <1>5, <1>12, <1>17
    <2>2. t \in Tables
      BY <1>16
    <2>3. Within(u, k + 1) /\ TrueOf(u, mem)
      BY ONLY <1>18, <1>19, <1>20, <2>1, <2>2, RecordingKeeps
    <2> QED
      BY <1>5, <2>3
  <1>23. OnRecord(mem, a)
    BY <1>12, <1>21 DEF OnRecord
  <1>24. \A lost : ScriptTrue(u, After(s), a, lost)
    <2> TAKE lost
    <2>1. Staged(u, s) = u /\ StageSound(u, s, a)
      BY <1>5, <1>9, <1>13, <1>22, NothingStaged
    <2>2. CopyTrue(u, s, lost)
      BY <1>13, <1>22, <2>1 DEF CopyTrue
    <2>3. s.todo # <<>> /\ Orderly(s.todo) /\ s.mem.diamond /\ OnRecord(s.mem, a)
      BY <1>1, <1>6, <1>12, <1>13, <1>23 DEF PlanSound
    <2> QED
      BY <1>5, <1>9, <1>13, <1>22, <2>1, <2>2, <2>3, AfterTrue
  <1>25. file' = file /\ Len(contracts') = a
    <2>1. contracts' = <<"DiamondCutFacet">> /\ file' = file
      BY DEF NewDiamond, Quiet
    <2> QED
      BY <1>4, <2>1
  <1>26. \A saved, x, y, lost : ~saved.diamond => FileTrue(x, saved, y, lost)
    BY DEF FileTrue
  <1> QED
    BY <1>3, <1>4, <1>14, <1>19, <1>22, <1>24, <1>25, <1>26 DEF RecordInv

LEMMA BeginTrue ==
    ASSUME DeploymentInv, RecordInv, NEW run \in Runs, Begin(run)
    PROVE  RecordInv'
  <1>1. PICK p : p = Program(run)
    OBVIOUS
  <1>2. Orderly(p) /\ (run.script \in {"01", "deploy-all"} => LeadsOff(p))
    BY <1>1, ProgramsOrderly, ProgramsPlanned
  <1>3. script = Idle /\ UNCHANGED <<ds, contracts, file, torn>>
    BY DEF Begin, chain
  <1>4. script' = [name |-> run.script, todo |-> p, mem |-> file, cuts |-> <<>>, known |-> {}, sent |-> FALSE]
    BY <1>1 DEF Begin, Idle
  <1>5. PICK k, s : k = Len(contracts) /\ s = script'
    OBVIOUS
  <1>6. s.todo = p /\ s.mem = file /\ s.cuts = <<>> /\ ~s.sent /\ ~script.sent
    BY <1>3, <1>4, <1>5 DEF Idle
  <1>7. /\ ds \in Reached(0) /\ ds.ok /\ Within(ds, k) /\ OnRecord(file, k)
        /\ FileTrue(ds, file, script, torn)
    BY <1>5, RunningTrue DEF RecordInv
  <1>8. Staged(ds, s) = ds /\ StageSound(ds, s, k)
    BY <1>6, <1>7, NothingStaged
  <1>9. PlanSound(s)
    <2>1. ~file.diamond => run.script \in {"01", "deploy-all"}
      BY RunningTrue DEF Begin, Manifests
    <2>2. LeadsOff(p) => Head(p).do = "diamond"
      BY DEF LeadsOff, First
    <2> QED
      BY <1>2, <1>6, <2>1, <2>2 DEF PlanSound
  <1>10. FileTrue(ds, file, s, torn) /\ CopyTrue(ds, s, torn)
    BY <1>6, <1>7, <1>8 DEF FileTrue, CopyTrue
  <1>11. ScriptTrue(ds, s, k, torn)
    BY <1>6, <1>7, <1>8, <1>9, <1>10 DEF ScriptTrue
  <1> QED
    BY <1>3, <1>5, <1>7, <1>10, <1>11 DEF RecordInv

LEMMA OutsideTrue ==
    ASSUME DeploymentInv, RecordInv, NewRelease \/ Crash \/ UNCHANGED vars
    PROVE  RecordInv'
  <1>1. ASSUME UNCHANGED <<ds, contracts, file, script, torn>> PROVE RecordInv'
    BY <1>1 DEF RecordInv
  <1>2. ASSUME NewRelease \/ UNCHANGED vars PROVE RecordInv'
    BY <1>1, <1>2 DEF NewRelease, vars, chain
  <1>3. ASSUME Crash PROVE RecordInv'
    <2>1. script' = Idle /\ Tears /\ UNCHANGED <<ds, contracts, file>>
      BY <1>3 DEF Crash, chain, Rest
    <2>2. Len(contracts') \in Nat /\ Len(contracts) <= Len(contracts')
      BY <2>1, RunningTrue
    <2> QED
      BY <2>1, <2>2, AbortTrue
  <1> QED
    BY <1>2, <1>3

LEMMA RecordInvInit == Init => RecordInv
  <1> SUFFICES ASSUME Init PROVE RecordInv
    OBVIOUS
  <1>1. ds = NoRoutes /\ contracts = <<>> /\ file = NoManifest /\ script = Idle
    BY DEF Init
  <1>2. PICK k : k = Len(contracts)
    OBVIOUS
  <1>3. k = 0 /\ k \in Nat
    BY <1>1, <1>2, EmptySeq
  <1>4. ds \in Reached(0) /\ ds.ok /\ Within(ds, k)
    BY <1>1, <1>3, NoRoutesReached DEF Within
  <1>5. Blank(file) /\ ~file.diamond
    BY <1>1 DEF Blank, NoManifest
  <1>6. OnRecord(file, k) /\ FileTrue(ds, file, script, torn)
    BY <1>3, <1>5, BlankOnRecord DEF FileTrue
  <1>7. ScriptTrue(ds, script, k, torn)
    BY <1>1, <1>3, <1>4, IdleTrue
  <1> QED
    BY <1>2, <1>4, <1>6, <1>7 DEF RecordInv

LEMMA RecordInvStep == DeploymentInv /\ RecordInv /\ [Next]_vars => RecordInv'
  <1> SUFFICES ASSUME DeploymentInv, RecordInv, [Next]_vars PROVE RecordInv'
    OBVIOUS
  <1>1. ASSUME NEW run \in Runs, Begin(run) PROVE RecordInv'
    BY <1>1, BeginTrue
  <1>2. ASSUME NewRelease \/ Crash \/ UNCHANGED vars PROVE RecordInv'
    BY <1>2, OutsideTrue
  <1>3. ASSUME Advance PROVE RecordInv'
    <2>1. ASSUME NewDiamond PROVE RecordInv'
      BY <2>1, NewDiamondTrue
    <2>2. ASSUME DeployFacet \/ SelectAndDeploy PROVE RecordInv'
      BY <2>2, DeployingTrue
    <2>3. ASSUME SendCut PROVE RecordInv'
      BY <2>3, SendCutTrue
    <2>4. ASSUME Besides PROVE RecordInv'
      BY <2>4, BesidesTrue
    <2>5. ASSUME SaveDeployment PROVE RecordInv'
      BY <2>5, SaveTrue
    <2> QED
      BY <1>3, <2>1, <2>2, <2>3, <2>4, <2>5 DEF Advance, Besides
  <1> QED
    BY <1>1, <1>2, <1>3 DEF Next

\* Whatever scripts have run, in whatever order, and wherever one died or had its
\* cut refused: when none runs, none died between its cut and its save, and
\* ADD_NEW was never used, every facet's record in the manifest lists exactly the
\* functions the diamond serves from the recorded address (recordFacet and
\* batchDiamondCut, and what upgrade-facet.js and upgrade-v2-robustness.js cut and
\* record themselves).
THEOREM ManifestAlwaysTrue == Spec => []ManifestTrue
  <1>1. Init => DeploymentInv /\ RecordInv
    BY DeploymentInvInit, RecordInvInit
  <1>2. DeploymentInv /\ RecordInv /\ [Next]_vars => (DeploymentInv /\ RecordInv)'
    BY DeploymentInvStep, RecordInvStep
  <1>3. ASSUME DeploymentInv, RecordInv PROVE ManifestTrue
    <2> SUFFICES ASSUME script = Idle, ~torn, file.diamond, "ADD_NEW" \notin file.upgrades,
                        NEW n \in Facets
                 PROVE  /\ ToSet(facetFunctionSelectors(ds, file.facets[n].address))
                              \subseteq file.facets[n].selectors
                        /\ \A s \in file.facets[n].selectors :
                              facetAddress(ds, s) = file.facets[n].address
      BY DEF ManifestTrue
    <2>1. ds \in Reached(0) /\ ds.ok /\ file \in Manifests
      BY <1>3 DEF DeploymentInv
    <2>2. PICK b, set, list : /\ b = file.facets[n].address /\ set = file.facets[n].selectors
                              /\ list = facetFunctionSelectors(ds, b)
      OBVIOUS
    <2>3. b \in 0..MaxAddress /\ set \subseteq Selectors
      BY <2>1, <2>2, RecordsTyped
    <2>4. ToSet(list) = ServedAt(ds, b)
      BY <2>1, <2>2, <2>3, ServedList
    <2>5. b = 0 => set = {}
      BY <1>3, <2>2 DEF RecordInv, OnRecord, Apart
    <2>6. b # 0 => \A s \in Selectors : s \in set <=> ds.facetOf[s] = b
      <3>1. ~script.sent
        BY DEF Idle
      <3>2. TrueOf(ds, file)
        BY <1>3, <3>1 DEF RecordInv, FileTrue
      <3> QED
        BY <2>2, <3>2 DEF TrueOf
    <2>7. ToSet(list) \subseteq set /\ \A s \in set : ds.facetOf[s] = b
      BY <2>3, <2>4, <2>5, <2>6 DEF ServedAt
    <2> QED
      BY <2>2, <2>7 DEF facetAddress
  <1> QED
    BY <1>1, <1>2, <1>3, PTL DEF Spec

-----------------------------------------------------------------------------
(* What is in service stays in service.                                    *)

\* The functions of a facet, in one release or the other.
Codes(n) ==
    {s \in Selectors : \/ s \in ToSet(Code[n][1]) \/ s \in ToSet(Code[n][2])
                       \/ n = "DiamondCutFacet" /\ s = CutSelector}

\* A function that a release takes out of a facet is in none of its facets: it
\* has left the protocol, and not moved to another facet.
FunctionsStay ==
    \A n, m \in Facets : \A r \in 1..2 : \A s \in Selectors :
        s \in Codes(n) /\ s \in ToSet(Code[m][r]) => s \in ToSet(Code[n][r])

\* The recorded address of a facet is that of a contract of this facet.
Known(M, c) == \A n \in Facets : M.facets[n].address # 0 => c[M.facets[n].address] = n

\* Functions are routed to contracts that have them.
Coded(t, c) == \A s \in Selectors : t.facetOf[s] # 0 => s \in Codes(c[t.facetOf[s]])

\* The functions of a release that are in service stay so.
Carries(t, u, r) ==
    \A n \in Facets : \A s \in Selectors :
        s \in ToSet(Code[n][r]) /\ t.facetOf[s] # 0 => u.facetOf[s] # 0

Serviced(t, s, c, r) ==
    /\ Known(s.mem, c)
    /\ Staged(t, s).ok => Coded(Staged(t, s), c) /\ Carries(t, Staged(t, s), r)

ServiceInv ==
    /\ Coded(ds, contracts) /\ Known(file, contracts)
    /\ Serviced(ds, script, contracts, release)

\* A script that gathered no cuts keeps everything in service.
LEMMA CutlessServed ==
    ASSUME NEW t \in Reached(0), t.ok, NEW c, Coded(t, c), NEW s, s.cuts = <<>>, Known(s.mem, c)
    PROVE  \A r : Serviced(t, s, c, r)
  <1>1. Staged(t, s) = t
    BY NoCuts DEF Staged
  <1> QED
    BY <1>1 DEF Serviced, Carries

LEMMA IdleServed ==
    ASSUME NEW t \in Reached(0), t.ok, NEW c, Coded(t, c)
    PROVE  \A r : Serviced(t, Idle, c, r)
  <1>1. Idle.cuts = <<>> /\ Idle.mem = NoManifest
    BY DEF Idle
  <1>2. Known(NoManifest, c)
    BY DEF Known, NoManifest, Unrecorded
  <1> QED
    BY <1>1, <1>2, CutlessServed

\* Only the records and the cuts of a script matter.
LEMMA SameServed ==
    ASSUME NEW t, NEW c, NEW r, NEW s, NEW u, Serviced(t, s, c, r),
           u.cuts = s.cuts, u.mem.facets = s.mem.facets
    PROVE  Serviced(t, u, c, r)
  BY DEF Serviced, Known, Staged

LEMMA AfterServed ==
    ASSUME NEW t \in Reached(0), t.ok, NEW c, NEW r, Coded(t, c),
           NEW s \in ScriptStates, Serviced(t, s, c, r)
    PROVE  Serviced(t, After(s), c, r)
  <1>1. CASE Len(s.todo) = 1
    BY <1>1, IdleServed DEF After
  <1>2. CASE Len(s.todo) # 1
    <2>1. PICK rest, u : rest = Tail(s.todo) /\ u = [s EXCEPT !.todo = rest]
      OBVIOUS
    <2>2. u.mem = s.mem /\ u.cuts = s.cuts /\ After(s) = u
      BY <1>2, <2>1 DEF After, ScriptStates
    <2> QED
      BY <2>2, SameServed
  <1> QED
    BY <1>1, <1>2

\* Effects that leave routes, contracts and records alone, and the script's end.
LEMMA BesidesServed ==
    ASSUME DeploymentInv, RecordInv, ServiceInv, UNCHANGED <<ds, contracts, file, release>>,
           \/ script' = Idle
           \/ \E s \in ScriptStates : /\ s.cuts = script.cuts /\ s.mem.facets = script.mem.facets
                                      /\ script' = s \/ script' = After(s)
    PROVE  ServiceInv'
  <1>1. ds \in Reached(0) /\ ds.ok /\ Coded(ds, contracts)
        /\ Known(file, contracts) /\ Serviced(ds, script, contracts, release)
    BY RunningTrue DEF ServiceInv
  <1>2. Serviced(ds, script', contracts, release)
    <2>1. CASE script' = Idle
      BY <1>1, <2>1, IdleServed
    <2>2. ASSUME NEW s \in ScriptStates, s.cuts = script.cuts, s.mem.facets = script.mem.facets,
                 script' = s \/ script' = After(s)
          PROVE  Serviced(ds, script', contracts, release)
      <3>1. Serviced(ds, s, contracts, release)
        BY <1>1, <2>2, SameServed
      <3>2. Serviced(ds, After(s), contracts, release)
        BY <1>1, <3>1, AfterServed
      <3> QED
        BY <2>2, <3>1, <3>2
    <2> QED
      BY <2>1, <2>2
  <1> QED
    BY <1>1, <1>2 DEF ServiceInv

LEMMA AsideServed ==
    ASSUME DeploymentInv, RecordInv, ServiceInv, Besides
    PROVE  ServiceInv'
  <1>1. script \in ScriptStates
    BY RunningTrue
  <1>2. CASE Elsewhere
    BY <1>1, <1>2, BesidesServed DEF Elsewhere
  <1>3. CASE Lists
    <2>1. PICK todo : script' = [script EXCEPT !.todo = todo]
      BY <1>3 DEF Lists
    <2>2. script'.cuts = script.cuts /\ script'.mem = script.mem
      BY <1>1, <2>1 DEF ScriptStates
    <2>3. Serviced(ds, script', contracts, release)
      BY <2>2, SameServed DEF ServiceInv
    <2> QED
      BY <1>3, <2>3 DEF Lists, ServiceInv
  <1>4. CASE Notes
    <2>1. PICK s \in ScriptStates : /\ s.cuts = script.cuts /\ SameRecords(script.mem, s.mem)
                                    /\ script' = After(s)
      BY <1>4 DEF Notes
    <2>2. UNCHANGED <<ds, contracts, file, release>>
      BY <1>4 DEF Notes
    <2> QED
      BY <2>1, <2>2, BesidesServed DEF SameRecords
  <1> QED
    BY <1>2, <1>3, <1>4, BesidesGoesOn

\* One more contract takes nothing from what is said of the first ones.
LEMMA OneMoreContract ==
    ASSUME NEW c \in Seq(Facets), NEW n \in Facets
    PROVE  /\ \A M \in Manifests : Apart(M, Len(c)) /\ Known(M, c) => Known(M, Append(c, n))
           /\ \A t \in Tables : Within(t, Len(c)) /\ Coded(t, c) => Coded(t, Append(c, n))
  <1>1. PICK k, d : k = Len(c) /\ d = Append(c, n)
    OBVIOUS
  <1>2. k \in Nat /\ \A i \in Nat : i # 0 /\ i <= k => d[i] = c[i]
    BY <1>1, AppendProperties, LenProperties
  <1>3. ASSUME NEW M \in Manifests, Apart(M, k), Known(M, c) PROVE Known(M, d)
    <2> SUFFICES ASSUME NEW m \in Facets, M.facets[m].address # 0 PROVE d[M.facets[m].address] = m
      BY DEF Known
    <2>1. M.facets[m].address \in Nat /\ M.facets[m].address <= k
      BY <1>3, RecordsTyped DEF Apart
    <2> QED
      BY <1>2, <1>3, <2>1 DEF Known
  <1>4. ASSUME NEW t \in Tables, Within(t, k), Coded(t, c) PROVE Coded(t, d)
    <2> SUFFICES ASSUME NEW s \in Selectors, t.facetOf[s] # 0 PROVE s \in Codes(d[t.facetOf[s]])
      BY DEF Coded
    <2>1. t.facetOf[s] \in Nat /\ t.facetOf[s] <= k
      BY <1>4, RecordsTyped DEF Within
    <2> QED
      BY <1>2, <1>4, <2>1 DEF Coded
  <1> QED
    BY <1>1, <1>3, <1>4

\* The record of a new contract.
LEMMA RecordingKnown ==
    ASSUME NEW c \in Seq(Facets), NEW n \in Facets, NEW M \in Manifests, NEW N, NEW set,
           Recording(M, N, n, Len(c) + 1, set), Apart(M, Len(c)), Known(M, c)
    PROVE  Known(N, Append(c, n))
  <1>1. PICK a, d : a = Len(c) + 1 /\ d = Append(c, n)
    OBVIOUS
  <1>2. d[a] = n
    BY <1>1, AppendProperties
  <1>3. Known(M, d)
    BY <1>1, OneMoreContract
  <1>4. M.facets \in [Facets -> [address : 0..MaxAddress, selectors : SUBSET Selectors]]
    BY DEF Manifests
  <1>5. N.facets[n].address = a /\ \A m \in Facets : m # n => N.facets[m] = M.facets[m]
    BY <1>1, <1>4 DEF Recording
  <1>6. Known(N, d)
    BY <1>2, <1>3, <1>5 DEF Known
  <1> QED
    BY <1>1, <1>6

\* The functions moved to a new contract are its own.
LEMMA MovedCoded ==
    ASSUME NEW c \in Seq(Facets), NEW n \in Facets, NEW t \in Tables, NEW u, NEW set, NEW dropped,
           Within(t, Len(c)), Coded(t, c), NEW b,
           Moves(t, u, Len(c) + 1, b), Brings(t, u, Len(c) + 1, set, dropped), set \subseteq Codes(n)
    PROVE  Coded(u, Append(c, n))
  <1>1. PICK a, d : a = Len(c) + 1 /\ d = Append(c, n)
    OBVIOUS
  <1>2. d[a] = n
    BY <1>1, AppendProperties
  <1>3. Coded(t, d)
    BY <1>1, OneMoreContract
  <1>4. ASSUME NEW s \in Selectors, u.facetOf[s] # 0
        PROVE  s \in Codes(d[u.facetOf[s]])
    <2>1. u.facetOf[s] = a \/ u.facetOf[s] = t.facetOf[s]
      BY <1>1, <1>4 DEF Moves
    <2>2. CASE u.facetOf[s] = a
      BY <1>1, <1>2, <2>2 DEF Brings
    <2>3. CASE u.facetOf[s] = t.facetOf[s]
      BY <1>3, <1>4, <2>3 DEF Coded
    <2> QED
      BY <2>1, <2>2, <2>3
  <1>5. Coded(u, d)
    BY <1>4 DEF Coded
  <1> QED
    BY <1>1, <1>5

\* The functions dropped are served from the old contract of the facet and are
\* not in its new code: they are in no facet of the release.
LEMMA DropsCarry ==
    ASSUME FunctionsStay, NEW c, NEW n \in Facets, NEW r \in 1..2, NEW M, Known(M, c),
           NEW base, Coded(base, c), NEW t, Carries(base, t, r), NEW u, NEW a,
           Brings(t, u, a, ToSet(Code[n][r]),
                  ServedAt(base, M.facets[n].address) \ ToSet(Code[n][r]))
    PROVE  Carries(base, u, r)
  <1>1. PICK b, code : b = M.facets[n].address /\ code = ToSet(Code[n][r])
    OBVIOUS
  <1>2. SUFFICES ASSUME NEW m \in Facets, NEW s \in Selectors, s \in ToSet(Code[m][r]),
                        base.facetOf[s] # 0, u.facetOf[s] = 0
                 PROVE  FALSE
    BY DEF Carries
  <1>3. t.facetOf[s] # 0
    BY <1>2 DEF Carries
  <1>4. s \in ServedAt(base, b) /\ s \notin code
    BY <1>1, <1>2, <1>3 DEF Brings
  <1>5. b # 0 /\ base.facetOf[s] = b
    BY <1>4 DEF ServedAt
  <1>6. c[b] = n
    BY <1>1, <1>5 DEF Known
  <1>7. s \in Codes(n)
    BY <1>2, <1>5, <1>6 DEF Coded
  <1>8. s \in code
    BY <1>1, <1>2, <1>7 DEF FunctionsStay
  <1> QED
    BY <1>4, <1>8

LEMMA CodeOfRelease ==
    ASSUME NEW n \in Facets, NEW r \in 1..2
    PROVE  ToSet(Code[n][r]) \subseteq Codes(n)
  <1>1. Code[n][r] \in Seq(Selectors)
    BY DeploymentAssumption
  <1>2. ASSUME NEW s \in ToSet(Code[n][r]) PROVE s \in Codes(n)
    <2>1. s \in Selectors
      BY <1>1, EntryOf
    <2> QED
      BY <1>2, <2>1 DEF Codes
  <1> QED
    BY <1>2

LEMMA DeployedServed ==
    ASSUME FunctionsStay, DeploymentInv, RecordInv, ServiceInv,
           NEW s, NEW n, NEW a, NEW set, NEW more,
           Deploying(s, n, a, set, more), DeployEffect(s, n, a, set)
    PROVE  Serviced(ds, s, contracts', release)
  <1>1. PICK c, r, t, d, u, M, N, b :
           /\ c = contracts /\ r = release /\ t = ds /\ d = Staged(ds, script) /\ u = Staged(ds, s)
           /\ M = script.mem /\ N = s.mem /\ b = M.facets[n].address
    OBVIOUS
  <1>2. /\ n \in Facets /\ a = Len(c) + 1 /\ Recording(M, N, n, a, set)
        /\ contracts' = Append(c, n)
    BY <1>1 DEF Deploying
  <1>3. c \in Seq(Facets) /\ r \in 1..2 /\ M \in Manifests /\ d \in Tables
    BY <1>1, RunningTrue DEF DeploymentInv
  <1>4. Apart(M, Len(c)) /\ (d.ok => Within(d, Len(c)))
    BY <1>1 DEF RecordInv, ScriptTrue, OnRecord, StageSound
  <1>5. Coded(t, c) /\ Known(M, c) /\ (d.ok => Coded(d, c) /\ Carries(t, d, r))
    BY <1>1 DEF ServiceInv, Serviced
  <1>6. Known(N, Append(c, n))
    BY <1>2, <1>3, <1>4, <1>5, RecordingKnown
  <1>7. PICK code : code = ToSet(Code[n][r])
    OBVIOUS
  <1>8. u.ok => Moves(d, u, a, b) /\ Brings(d, u, a, code, ServedAt(t, b) \ code)
    BY <1>1, <1>7 DEF DeployEffect, SelectorsOf
  <1>9. ASSUME u.ok PROVE Coded(u, Append(c, n)) /\ Carries(t, u, r)
    <2>1. d.ok /\ Moves(d, u, Len(c) + 1, b) /\ Brings(d, u, Len(c) + 1, code, ServedAt(t, b) \ code)
      BY <1>2, <1>8, <1>9 DEF Moves
    <2>2. code \subseteq Codes(n)
      BY <1>2, <1>3, <1>7, CodeOfRelease
    <2>3. Coded(u, Append(c, n))
      BY <1>2, <1>3, <1>4, <1>5, <2>1, <2>2, MovedCoded
    <2>4. Brings(d, u, a, ToSet(Code[n][r]), ServedAt(t, M.facets[n].address) \ ToSet(Code[n][r]))
      BY <1>1, <1>7, <1>8, <1>9
    <2>5. Carries(t, u, r)
      BY <1>2, <1>3, <1>5, <2>1, <2>4, DropsCarry
    <2> QED
      BY <2>3, <2>5
  <1>10. Serviced(t, s, Append(c, n), r)
    BY <1>1, <1>6, <1>9 DEF Serviced
  <1> QED
    BY <1>1, <1>2, <1>10

LEMMA DeployingServed ==
    ASSUME FunctionsStay, DeploymentInv, RecordInv, ServiceInv, DeployFacet \/ SelectAndDeploy
    PROVE  ServiceInv'
  <1>1. PICK s, n, a, set, more : /\ Deploying(s, n, a, set, more) /\ DeployEffect(s, n, a, set)
                                  /\ script' = After(s) \/ script' = Idle
    BY DeployFacetDeploys, SelectAndDeployDeploys
  <1>2. /\ n \in Facets /\ s \in ScriptStates /\ contracts' = Append(contracts, n)
        /\ UNCHANGED <<ds, file, release>>
    BY <1>1 DEF Deploying
  <1>3. /\ ds \in Reached(0) /\ ds \in Tables /\ ds.ok /\ contracts \in Seq(Facets)
        /\ file \in Manifests
    BY RunningTrue DEF DeploymentInv
  <1>4. Coded(ds, contracts') /\ Known(file, contracts')
    <2>1. Within(ds, Len(contracts)) /\ Apart(file, Len(contracts))
      BY DEF RecordInv, OnRecord
    <2>2. Coded(ds, contracts) /\ Known(file, contracts)
      BY DEF ServiceInv
    <2> QED
      BY <1>2, <1>3, <2>1, <2>2, OneMoreContract
  <1>5. Serviced(ds, s, contracts', release)
    BY <1>1, DeployedServed
  <1>6. Serviced(ds, script', contracts', release)
    <2>1. PICK c, r, next : c = contracts' /\ r = release /\ next = script'
      OBVIOUS
    <2>2. Serviced(ds, After(s), c, r) /\ Serviced(ds, Idle, c, r)
      BY <1>2, <1>3, <1>4, <1>5, <2>1, AfterServed, IdleServed
    <2> QED
      BY <1>1, <2>1, <2>2
  <1> QED
    BY <1>2, <1>4, <1>6 DEF ServiceInv

LEMMA SendCutServed ==
    ASSUME DeploymentInv, RecordInv, ServiceInv, SendCut
    PROVE  ServiceInv'
  <1>1. UNCHANGED <<contracts, file, release>>
    BY DEF SendCut, Quiet
  <1>2. /\ script \in ScriptStates /\ ds \in Reached(0) /\ ds.ok
        /\ Staged(ds, script) \in Reached(0)
    BY RunningTrue
  <1>3. PICK c, r, d : c = contracts /\ r = release /\ d = Staged(ds, script)
    OBVIOUS
  <1>4. /\ Coded(ds, c) /\ Known(file, c) /\ Known(script.mem, c) /\ (d.ok => Coded(d, c))
    BY <1>3 DEF ServiceInv, Serviced
  <1>5. CASE ~d.ok
    <2>1. ds' = ds /\ script' = Idle
      BY <1>3, <1>5 DEF SendCut, Staged, Abort
    <2> QED
      BY <1>1, <2>1, BesidesServed
  <1>6. CASE d.ok
    <2>1. PICK none, sent : none = <<>> /\ sent = (script.sent \/ script.cuts # <<>>)
      OBVIOUS
    <2>2. none \in Seq(Cut) /\ sent \in BOOLEAN
      BY <2>1, EmptySeq
    <2>3. PICK s : s = [[script EXCEPT !.cuts = none] EXCEPT !.sent = sent]
      OBVIOUS
    <2>4. s \in ScriptStates /\ s.mem = script.mem /\ s.cuts = <<>>
      BY <1>2, <2>1, <2>2, <2>3 DEF ScriptStates
    <2>5. ds' = d /\ script' = After(s)
      <3>1. s = [script EXCEPT !.cuts = <<>>, !.sent = @ \/ script.cuts # <<>>]
        BY <1>2, <2>1, <2>3 DEF ScriptStates
      <3> QED
        BY <1>3, <1>6, <3>1 DEF SendCut, Staged
    <2>6. d \in Reached(0) /\ Coded(d, c) /\ Known(s.mem, c)
      BY <1>2, <1>3, <1>4, <1>6, <2>4
    <2>7. Serviced(d, s, c, r)
      BY <1>6, <2>4, <2>6, CutlessServed
    <2>8. Serviced(d, After(s), c, r)
      BY <1>6, <2>4, <2>6, <2>7, AfterServed
    <2> QED
      BY <1>1, <1>3, <1>4, <2>5, <2>6, <2>8 DEF ServiceInv
  <1> QED
    BY <1>5, <1>6

LEMMA SaveServed ==
    ASSUME DeploymentInv, RecordInv, ServiceInv, SaveDeployment
    PROVE  ServiceInv'
  <1>1. UNCHANGED <<ds, contracts, release>> /\ file' = script.mem
    BY DEF SaveDeployment, chain
  <1>2. script \in ScriptStates /\ ds \in Reached(0) /\ ds.ok
    BY RunningTrue
  <1>3. PICK s : s = [script EXCEPT !.sent = FALSE]
    OBVIOUS
  <1>4. s \in ScriptStates /\ s.mem = script.mem /\ s.cuts = script.cuts
    BY <1>2, <1>3 DEF ScriptStates
  <1>5. script' = After(s)
    BY <1>3 DEF SaveDeployment
  <1>6. Coded(ds, contracts) /\ Serviced(ds, script, contracts, release)
    BY DEF ServiceInv
  <1>7. Serviced(ds, s, contracts, release)
    BY <1>4, <1>6, SameServed
  <1>8. Serviced(ds, After(s), contracts, release)
    BY <1>2, <1>4, <1>6, <1>7, AfterServed
  <1> QED
    BY <1>1, <1>5, <1>6, <1>8 DEF ServiceInv, Serviced

\* A diamond is deployed only while none is on record.
LEMMA NewDiamondServed ==
    ASSUME DeploymentInv, RecordInv, NewDiamond
    PROVE  ServiceInv'
  <1>1. RecordInv'
    BY NewDiamondTrue
  <1>2. ~script.mem.diamond /\ ~file.diamond
    BY NewDiamondFirst
  <1>3. Blank(script.mem) /\ Blank(file) /\ script.cuts = <<>>
    BY <1>2 DEF RecordInv, ScriptTrue, OnRecord, PlanSound
  <1>4. PICK n, a, selectors : n = "DiamondCutFacet" /\ a = 1 /\ selectors = <<CutSelector>>
    OBVIOUS
  <1>5. n \in Facets /\ a \in Addresses /\ selectors \in Seq(Selectors) /\ CutSelector \in Selectors
    BY <1>4, DeploymentAssumption DEF Addresses
  <1>6. PICK t, u : t = NoRoutes /\ u = ds'
    OBVIOUS
  <1>7. u = diamondCut(t, CutOf("Add", a, selectors)) /\ u \in Reached(0) /\ u.ok
    BY <1>4, <1>6, FirstCut DEF NewDiamond
  <1>8. t \in Reached(0) /\ \A x \in Selectors : t.facetOf[x] = 0
    BY <1>6, NoRoutesReached
  <1>9. \A s \in Selectors : u.facetOf[s] # 0 => u.facetOf[s] = a /\ s = CutSelector
    <2>1. Rerouted(t, u, ToSet(selectors), {0}, a)
      BY <1>5, <1>7, <1>8, AddRoutes
    <2>2. ToSet(selectors) = {CutSelector}
      BY <1>4 DEF ToSet
    <2> QED
      BY <1>8, <2>1, <2>2 DEF Rerouted
  <1>10. PICK c : c = contracts'
    OBVIOUS
  <1>11. c = <<"DiamondCutFacet">> /\ c[a] = n
    BY <1>4, <1>10 DEF NewDiamond
  <1>12. Coded(u, c)
    <2>1. CutSelector \in Codes(n)
      BY <1>4, <1>5 DEF Codes
    <2> QED
      BY <1>9, <1>11, <2>1 DEF Coded
  <1>13. Known(file, c)
    BY <1>3 DEF Known, Blank, Unrecorded
  <1>14. PICK s \in ScriptStates :
            /\ s.cuts = script.cuts /\ script' = After(s)
            /\ Recording(script.mem, s.mem, "DiamondCutFacet", 1, ToSet(<<CutSelector>>))
    BY NewDiamondRecords
  <1>15. s.cuts = <<>> /\ Known(s.mem, c)
    <2>1. script.mem.facets \in [Facets -> [address : 0..MaxAddress, selectors : SUBSET Selectors]]
      BY RunningTrue DEF Manifests
    <2>2. PICK M, N, set : /\ M = script.mem /\ N = s.mem /\ set = ToSet(<<CutSelector>>)
      OBVIOUS
    <2>3. N.facets = [M.facets EXCEPT ![n] = [address |-> a, selectors |-> set]]
      BY <1>4, <1>14, <2>2 DEF Recording
    <2>4. \A m \in Facets : m # n => N.facets[m].address = 0
      BY <1>3, <2>1, <2>2, <2>3 DEF Blank, Unrecorded
    <2>5. N.facets[n].address = a
      BY <1>5, <2>1, <2>2, <2>3
    <2> QED
      BY <1>3, <1>11, <1>14, <2>2, <2>4, <2>5 DEF Known
  <1>16. \A r : Serviced(u, After(s), c, r)
    <2>1. \A r : Serviced(u, s, c, r)
      BY <1>7, <1>12, <1>14, <1>15, CutlessServed
    <2> QED
      BY <1>7, <1>12, <1>14, <2>1, AfterServed
  <1>17. file' = file
    BY DEF NewDiamond, Quiet
  <1> QED
    BY <1>6, <1>10, <1>12, <1>13, <1>14, <1>16, <1>17 DEF ServiceInv

LEMMA BeginServed ==
    ASSUME DeploymentInv, RecordInv, ServiceInv, NEW run \in Runs, Begin(run)
    PROVE  ServiceInv'
  <1>1. UNCHANGED <<ds, contracts, release, file>>
    BY DEF Begin, chain
  <1>2. PICK s, p : s = script' /\ p = Program(run)
    OBVIOUS
  <1>3. s = [name |-> run.script, todo |-> p, mem |-> file, cuts |-> <<>>, known |-> {}, sent |-> FALSE]
    BY <1>2 DEF Begin, Idle
  <1>4. s.mem = file /\ s.cuts = <<>>
    BY <1>3
  <1>5. ds \in Reached(0) /\ ds.ok /\ Coded(ds, contracts) /\ Known(file, contracts)
    BY RunningTrue DEF ServiceInv
  <1>6. Serviced(ds, s, contracts, release)
    BY <1>4, <1>5, CutlessServed
  <1> QED
    BY <1>1, <1>2, <1>5, <1>6 DEF ServiceInv

LEMMA OutsideServed ==
    ASSUME DeploymentInv, RecordInv, ServiceInv, NewRelease \/ Crash \/ UNCHANGED vars
    PROVE  ServiceInv'
  <1>1. ds \in Reached(0) /\ ds.ok /\ Coded(ds, contracts) /\ Known(file, contracts)
    BY RunningTrue DEF ServiceInv
  <1>2. ASSUME NewRelease PROVE ServiceInv'
    <2>1. script' = Idle /\ UNCHANGED <<ds, contracts, file>>
      BY <1>2 DEF NewRelease, chain
    <2>2. PICK r : r = release'
      OBVIOUS
    <2>3. Serviced(ds, Idle, contracts, r)
      BY <1>1, IdleServed
    <2> QED
      BY <1>1, <2>1, <2>2, <2>3 DEF ServiceInv
  <1>3. ASSUME Crash PROVE ServiceInv'
    <2>1. script' = Idle /\ UNCHANGED <<ds, contracts, file, release>>
      BY <1>3 DEF Crash, chain, Rest
    <2> QED
      BY <2>1, BesidesServed
  <1>4. ASSUME UNCHANGED vars PROVE ServiceInv'
    BY <1>4 DEF ServiceInv, vars, chain
  <1> QED
    BY <1>2, <1>3, <1>4

LEMMA ServiceInvInit == Init => ServiceInv
  <1> SUFFICES ASSUME Init PROVE ServiceInv
    OBVIOUS
  <1>1. ds = NoRoutes /\ file = NoManifest /\ script = Idle
    BY DEF Init
  <1>2. ds \in Reached(0) /\ ds.ok /\ Coded(ds, contracts)
    BY <1>1, NoRoutesReached DEF Coded
  <1>3. Known(file, contracts)
    BY <1>1 DEF Known, NoManifest, Unrecorded
  <1>4. Serviced(ds, script, contracts, release)
    BY <1>1, <1>2, IdleServed
  <1> QED
    BY <1>2, <1>3, <1>4 DEF ServiceInv

LEMMA ServiceInvStep ==
    FunctionsStay /\ DeploymentInv /\ RecordInv /\ ServiceInv /\ [Next]_vars => ServiceInv'
  <1> SUFFICES ASSUME FunctionsStay, DeploymentInv, RecordInv, ServiceInv, [Next]_vars
               PROVE  ServiceInv'
    OBVIOUS
  <1>1. ASSUME NEW run \in Runs, Begin(run) PROVE ServiceInv'
    BY <1>1, BeginServed
  <1>2. ASSUME NewRelease \/ Crash \/ UNCHANGED vars PROVE ServiceInv'
    BY <1>2, OutsideServed
  <1>3. ASSUME Advance PROVE ServiceInv'
    <2>1. ASSUME NewDiamond PROVE ServiceInv'
      BY <2>1, NewDiamondServed
    <2>2. ASSUME DeployFacet \/ SelectAndDeploy PROVE ServiceInv'
      BY <2>2, DeployingServed
    <2>3. ASSUME SendCut PROVE ServiceInv'
      BY <2>3, SendCutServed
    <2>4. ASSUME Besides PROVE ServiceInv'
      BY <2>4, AsideServed
    <2>5. ASSUME SaveDeployment PROVE ServiceInv'
      BY <2>5, SaveServed
    <2> QED
      BY <1>3, <2>1, <2>2, <2>3, <2>4, <2>5 DEF Advance, Besides
  <1> QED
    BY <1>1, <1>2, <1>3 DEF Next

\* The routes change by the script's gathered cuts only, or with a new diamond.
LEMMA RoutesChange ==
    ASSUME DeploymentInv, RecordInv, [Next]_vars, file.diamond
    PROVE  ds' = ds \/ (Staged(ds, script).ok /\ ds' = Staged(ds, script))
  <1>1. ASSUME NEW run \in Runs, Begin(run) PROVE ds' = ds
    BY <1>1 DEF Begin, chain
  <1>2. ASSUME NewRelease \/ Crash \/ UNCHANGED vars PROVE ds' = ds
    BY <1>2 DEF NewRelease, Crash, vars, chain
  <1>3. ~NewDiamond
    BY NewDiamondFirst
  <1>4. ASSUME DeployFacet \/ SelectAndDeploy \/ SaveDeployment PROVE ds' = ds
    BY <1>4 DEF DeployFacet, SelectAndDeploy, SaveDeployment, chain
  <1>5. ASSUME Besides PROVE ds' = ds
    BY <1>5, BesidesGoesOn DEF Elsewhere, Lists, Notes
  <1>6. ASSUME SendCut PROVE ds' = ds \/ (Staged(ds, script).ok /\ ds' = Staged(ds, script))
    BY <1>6 DEF SendCut, Staged
  <1> QED
    BY <1>1, <1>2, <1>3, <1>4, <1>5, <1>6 DEF Next, Advance, Besides

\* When no release moves a function from one facet to another, then wherever a
\* script stops and whatever cut is refused, a function in service that is in the
\* release the scripts are run from stays in service (upgrade-facet.js and
\* upgrade-v2-robustness.js take their diff from the recorded contract of the
\* facet, and remove, replace and add in one diamondCut).
THEOREM ServiceAlwaysKept == FunctionsStay => (Spec => ServiceKept)
  <1> SUFFICES ASSUME FunctionsStay
               PROVE  Spec => ServiceKept
    OBVIOUS
  <1>1. Init => DeploymentInv /\ RecordInv /\ ServiceInv
    BY DeploymentInvInit, RecordInvInit, ServiceInvInit
  <1>2. DeploymentInv /\ RecordInv /\ ServiceInv /\ [Next]_vars
           => (DeploymentInv /\ RecordInv /\ ServiceInv)'
    BY DeploymentInvStep, RecordInvStep, ServiceInvStep
  <1>3. DeploymentInv /\ RecordInv /\ ServiceInv /\ [Next]_vars
           => [file.diamond => \A n \in Facets : \A s \in ToSet(SelectorsOf(n)) :
                  facetAddress(ds, s) # 0 => facetAddress(ds', s) # 0]_vars
    <2> SUFFICES ASSUME DeploymentInv, RecordInv, ServiceInv, [Next]_vars, file.diamond,
                        NEW n \in Facets, NEW s \in ToSet(SelectorsOf(n)), ds.facetOf[s] # 0
                 PROVE  ds'.facetOf[s] # 0
      BY DEF facetAddress
    <2>1. s \in Selectors
      BY CodeIsSelectors, EntryOf DEF DeploymentInv
    <2>2. Staged(ds, script).ok => Carries(ds, Staged(ds, script), release)
      BY DEF ServiceInv, Serviced
    <2>3. Staged(ds, script).ok => Staged(ds, script).facetOf[s] # 0
      BY <2>1, <2>2 DEF Carries, SelectorsOf
    <2> QED
      BY <2>3, RoutesChange
  <1> QED
    BY <1>1, <1>2, <1>3, PTL DEF Spec, ServiceKept

=============================================================================
