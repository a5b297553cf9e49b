-------------------------- MODULE PerpTradingProofs --------------------------
(***************************************************************************)
(* Theorems about PerpTrading, for every set of users, markets and tokens, *)
(* every precision, fee, price, amount and bound its assumptions allow:    *)
(* type correctness, the backing of what the vault tracks, net mode, the   *)
(* finality of closed positions, the funding indices, the pause and open   *)
(* interest, that PerpTrading implements PositionLifecycle, and, with the  *)
(* hypotheses they name, what checkLiquidatable sees and that nobody gains *)
(* at a constant price.                                                    *)
(***************************************************************************)
EXTENDS PerpTrading, Functions, SequenceTheorems, FiniteSetTheorems,
        WellFoundedInduction, TLAPS

-----------------------------------------------------------------------------
(* What the arithmetic of the facets returns, for every precision, every   *)
(* number of decimals and every fee: results that are unsigned in the code *)
(* are natural numbers, and a fraction never exceeds its whole.  At the    *)
(* end, sums over finite sets: induction is done on the set of numbers     *)
(* that have a property, which the provers can instantiate.                *)

\* A quotient of naturals is a natural, and no larger than the dividend.
LEMMA DivNat ==
    ASSUME NEW a \in Nat, NEW b \in Nat \ {0}
    PROVE  a \div b \in Nat /\ a \div b <= a
  OBVIOUS

\* A quotient of an integer by a positive number is an integer.
LEMMA DivInt ==
    ASSUME NEW a \in Int, NEW b \in Nat \ {0}
    PROVE  a \div b \in Int
  OBVIOUS

\* Naturals are closed under multiplication: non-linear, so a lemma of its own.
LEMMA MulNat ==
    ASSUME NEW a \in Nat, NEW b \in Nat
    PROVE  a * b \in Nat
  OBVIOUS

\* Integers are closed under multiplication.
LEMMA MulInt ==
    ASSUME NEW a \in Int, NEW b \in Int
    PROVE  a * b \in Int
  OBVIOUS

\* Division rounds down and is monotone.
LEMMA DivMonotone ==
    ASSUME NEW a \in Int, NEW b \in Int, NEW n \in Nat \ {0}, a <= b
    PROVE  a \div n <= b \div n
  OBVIOUS

\* Scaling up and then down again loses nothing.
LEMMA DivExact ==
    ASSUME NEW a \in Nat, NEW n \in Nat \ {0}
    PROVE  (a * n) \div n = a
  OBVIOUS

\* Multiplication by a natural is monotone.
LEMMA MulMonotone ==
    ASSUME NEW a \in Nat, NEW b \in Nat, NEW c \in Nat, b <= c
    PROVE  a * b <= a * c
  OBVIOUS

-----------------------------------------------------------------------------
\* LibMath on unsigned operands.
LEMMA mulFpNat ==
    ASSUME NEW a \in Nat, NEW b \in Nat
    PROVE  mulFp(a, b) \in Nat
  <1>1. a * b \in Nat
    BY MulNat
  <1> QED
    BY <1>1, DivNat, ONEAssumption DEF mulFp

\* LibMath.divFp by something positive is unsigned.
LEMMA divFpNat ==
    ASSUME NEW a \in Nat, NEW b \in Nat \ {0}
    PROVE  divFp(a, b) \in Nat
  <1>1. a * ONE \in Nat
    BY MulNat, ONEAssumption
  <1> QED
    BY <1>1, DivNat DEF divFp

\* Signed operands: the magnitude is divided, the sign put back.
LEMMA TruncDivInt ==
    ASSUME NEW a \in Int, NEW b \in Nat \ {0}
    PROVE  /\ TruncDiv(a, b) \in Int
           /\ a >= 0 => TruncDiv(a, b) >= 0
  <1>1. CASE a >= 0
    BY <1>1, DivNat DEF TruncDiv
  <1>2. CASE ~(a >= 0)
    <2>1. -a \in Nat
      BY <1>2
    <2>2. (-a) \div b \in Nat
      BY <2>1, DivNat
    <2> QED
      BY <1>2, <2>2 DEF TruncDiv
  <1> QED
    BY <1>1, <1>2

\* LibMath.mulFpSigned, which is not negative when neither factor is.
LEMMA mulFpSignedInt ==
    ASSUME NEW a \in Int, NEW b \in Int
    PROVE  /\ mulFpSigned(a, b) \in Int
           /\ a >= 0 /\ b >= 0 => mulFpSigned(a, b) >= 0
  <1>1. a * b \in Int
    BY MulInt
  <1>2. a >= 0 /\ b >= 0 => a * b >= 0
    BY MulNat
  <1> QED
    BY <1>1, <1>2, TruncDivInt, ONEAssumption DEF mulFpSigned

\* LibMath.divFpSigned by something positive.
LEMMA divFpSignedInt ==
    ASSUME NEW a \in Int, NEW b \in Nat \ {0}
    PROVE  divFpSigned(a, b) \in Int
  <1>1. a * ONE \in Int
    BY MulInt, ONEAssumption
  <1> QED
    BY <1>1, TruncDivInt DEF divFpSigned

\* The saturating subtraction of the facets never exceeds what it starts from.
LEMMA SatSubNat ==
    ASSUME NEW a \in Nat, NEW b \in Nat
    PROVE  SatSub(a, b) \in Nat /\ SatSub(a, b) <= a
  BY DEF SatSub

\* The fraction a partial close or a deleveraging takes is at most one, so
\* what it releases is at most what is there.
LEMMA FractionNat ==
    ASSUME NEW part \in Nat, NEW whole \in Nat \ {0}, part <= whole
    PROVE  divFp(part, whole) \in Nat /\ divFp(part, whole) <= ONE
  <1>1. divFp(part, whole) \in Nat
    BY divFpNat
  <1>2. ONE \in Nat /\ part * ONE \in Nat /\ ONE * whole \in Nat
    BY MulNat, ONEAssumption
  <1>3. ONE * part <= ONE * whole
    BY <1>2, MulMonotone
  <1>4. part * ONE = ONE * part
    BY <1>2
  <1>5. (part * ONE) \div whole <= (ONE * whole) \div whole
    BY <1>2, <1>3, <1>4, DivMonotone
  <1>6. (ONE * whole) \div whole = ONE
    BY <1>2, DivExact
  <1> QED
    BY <1>1, <1>5, <1>6 DEF divFp

\* What a fraction of at most one releases is at most what is there, so the
\* unsigned subtractions of partialClose and autoDeleverage do not underflow.
LEMMA ReleasedNat ==
    ASSUME NEW amount \in Nat, NEW fraction \in Nat, fraction <= ONE
    PROVE  mulFp(amount, fraction) \in Nat /\ mulFp(amount, fraction) <= amount
  <1>1. mulFp(amount, fraction) \in Nat
    BY mulFpNat
  <1>2. ONE \in Nat \ {0}
    BY ONEAssumption
  <1>3. amount * fraction \in Nat /\ amount * ONE \in Nat
    BY <1>2, MulNat
  <1>4. amount * fraction <= amount * ONE
    BY <1>2, MulMonotone
  <1>5. (amount * fraction) \div ONE <= (amount * ONE) \div ONE
    BY <1>2, <1>3, <1>4, DivMonotone
  <1> QED
    BY <1>1, <1>2, <1>5, DivExact DEF mulFp

-----------------------------------------------------------------------------
\* LibPosition and LibFee.
LEMMA calculatePnlInt ==
    ASSUME NEW pos, NEW price \in Int,
           pos.sizeUsd \in Nat, pos.entryPrice \in Nat
    PROVE  calculatePnl(pos, price) \in Int
  <1>1. CASE pos.sizeUsd = 0 \/ pos.entryPrice = 0
    BY <1>1 DEF calculatePnl
  <1>2. CASE ~(pos.sizeUsd = 0 \/ pos.entryPrice = 0)
    <2> DEFINE delta == IF pos.isLong THEN price - pos.entryPrice
                                      ELSE pos.entryPrice - price
    <2>1. delta \in Int
      OBVIOUS
    <2>2. divFpSigned(delta, pos.entryPrice) \in Int
      BY <1>2, <2>1, divFpSignedInt
    <2>3. mulFpSigned(pos.sizeUsd, divFpSigned(delta, pos.entryPrice)) \in Int
      <3> DEFINE ratio == divFpSigned(delta, pos.entryPrice)
      <3>1. ratio \in Int /\ pos.sizeUsd \in Int
        BY <2>2
      <3> HIDE DEF ratio
      <3>2. mulFpSigned(pos.sizeUsd, ratio) \in Int
        BY <3>1, mulFpSignedInt
      <3> QED
        BY <3>2 DEF ratio
    <2> QED
      BY <1>2, <2>3 DEF calculatePnl
  <1> QED
    BY <1>1, <1>2

\* Neither conversion between tokens and USD divides by zero.
LEMMA ScaleNat ==
    ASSUME NEW t \in DOMAIN UsdScale
    PROVE  UsdScale[t].mul \in Nat \ {0} /\ UsdScale[t].div \in Nat \ {0}
  BY UsdScaleAssumption

\* An amount of tokens has an unsigned value in USD.
LEMMA normalizeToUsdNat ==
    ASSUME NEW t \in DOMAIN UsdScale, NEW amount \in Nat
    PROVE  normalizeToUsd(t, amount) \in Nat
  <1>1. amount * UsdScale[t].mul \in Nat
    BY ScaleNat, MulNat
  <1> QED
    BY <1>1, ScaleNat, DivNat DEF normalizeToUsd

\* An amount of USD is an unsigned amount of tokens.
LEMMA usdToTokensNat ==
    ASSUME NEW t \in DOMAIN UsdScale, NEW usd \in Nat
    PROVE  usdToTokens(t, usd) \in Nat
  <1>1. usd * UsdScale[t].div \in Nat
    BY ScaleNat, MulNat
  <1> QED
    BY <1>1, ScaleNat, DivNat DEF usdToTokens

\* The trading fee is unsigned.
LEMMA calculateTradingFeeNat ==
    ASSUME NEW size \in Nat, NEW bps \in Nat
    PROVE  calculateTradingFee(size, bps) \in Nat
  <1>1. size * bps + 9999 \in Nat
    BY MulNat
  <1> QED
    BY <1>1, DivNat DEF calculateTradingFee, BPS

\* The share of a fee that goes to insurance is unsigned.
LEMMA calculateInsuranceContributionNat ==
    ASSUME NEW fee \in Nat
    PROVE  calculateInsuranceContribution(fee) \in Nat
  <1>1. fee * InsuranceFeeBps \in Nat
    BY MulNat, FeeAssumption DEF BPS
  <1> QED
    BY <1>1, DivNat DEF calculateInsuranceContribution, BPS

\* The keeper's reward is part of the penalty, so the insurance portion,
\* an unsigned subtraction in the code, does not underflow.
LEMMA LiquidationSplit ==
    ASSUME NEW remaining \in Nat
    PROVE  /\ LiquidationPenalty(remaining) \in Nat
           /\ KeeperReward(remaining) \in Nat
           /\ InsurancePortion(remaining) \in Nat
  <1> DEFINE penalty == LiquidationPenalty(remaining)
  <1>1. penalty \in Nat
    <2>1. remaining * LiquidationFeeBps \in Nat
      BY MulNat, FeeAssumption
    <2> QED
      BY <2>1, DivNat DEF LiquidationPenalty, BPS
  <1>2. KeeperReward(remaining) \in Nat /\ KeeperReward(remaining) <= penalty
    <2> HIDE DEF penalty
    <2>1. (penalty * 6000) \div 10000 \in Nat
      BY <1>1
    <2>2. (penalty * 6000) \div 10000 <= penalty
      BY <1>1
    <2> QED
      BY <2>1, <2>2 DEF KeeperReward, BPS, penalty
  <1> QED
    BY <1>1, <1>2 DEF InsurancePortion

\* Whatever was lost and whatever the fee, a payout is not negative.
LEMMA PayoutNat ==
    ASSUME NEW t \in DOMAIN UsdScale, NEW collateral \in Nat,
           NEW pnl \in Int, NEW fee \in Nat
    PROVE  Payout(t, collateral, pnl, fee) \in Nat
  <1>1. GrossPayout(t, collateral, pnl) \in Nat
    <2>1. CASE pnl >= 0
      <3>1. usdToTokens(t, pnl) \in Nat
        BY <2>1, usdToTokensNat
      <3> QED
        BY <2>1, <3>1 DEF GrossPayout
    <2>2. CASE ~(pnl >= 0)
      <3>1. -pnl \in Nat
        BY <2>2
      <3>2. usdToTokens(t, -pnl) \in Nat
        BY <3>1, usdToTokensNat
      <3>3. SatSub(collateral, usdToTokens(t, -pnl)) \in Nat
        BY <3>2, SatSubNat
      <3> QED
        BY <2>2, <3>3 DEF GrossPayout
    <2> QED
      BY <2>1, <2>2
  <1> QED
    BY <1>1, SatSubNat DEF Payout

\* The averaged entry price is unsigned, and 0 when there is no size.
LEMMA calculateAverageEntryPriceNat ==
    ASSUME NEW size \in Nat, NEW entry \in Nat,
           NEW addedSize \in Nat, NEW addedPrice \in Nat
    PROVE  calculateAverageEntryPrice(size, entry, addedSize, addedPrice) \in Nat
  <1>1. CASE size + addedSize = 0
    BY <1>1 DEF calculateAverageEntryPrice
  <1>2. CASE size + addedSize # 0
    <2> DEFINE value == mulFp(size, entry) + mulFp(addedSize, addedPrice)
               q == value \div (size + addedSize)
    <2>1. value \in Nat
      BY mulFpNat
    <2>2. size + addedSize \in Nat \ {0}
      BY <1>2
    <2>3. q \in Nat
      <3> HIDE DEF value
      <3> QED
        BY <2>1, <2>2, DivNat
    <2>4. q * ONE \in Nat
      <3> HIDE DEF q
      <3> QED
        BY <2>3, MulNat, ONEAssumption
    <2> QED
      BY <1>2, <2>4 DEF calculateAverageEntryPrice
  <1> QED
    BY <1>1, <1>2

-----------------------------------------------------------------------------
\* VirtualPool: reserves stay natural numbers whatever trade is applied, so
\* no subtraction of the code underflows.
LEMMA ApplyVirtualTradeNat ==
    ASSUME NEW pool \in [base : Nat, quote : Nat], NEW size \in Nat,
           NEW isBuy \in BOOLEAN
    PROVE  ApplyVirtualTrade(pool, size, isBuy) \in [base : Nat, quote : Nat]
  <1> DEFINE k == mulFp(pool.base, pool.quote)
             quote == IF isBuy THEN pool.quote + size
                      ELSE IF pool.quote > size THEN pool.quote - size
                      ELSE 1
  <1>1. k \in Nat
    BY mulFpNat
  <1>2. quote \in Nat
    OBVIOUS
  <1>3. quote > 0 => divFp(k, quote) \in Nat
    <2> HIDE DEF k, quote
    <2> QED
      BY <1>1, <1>2, divFpNat
  <1>4. ApplyVirtualTrade(pool, size, isBuy) =
          IF pool.base = 0 THEN pool
          ELSE [base |-> IF quote > 0 THEN divFp(k, quote) ELSE pool.base,
                quote |-> quote]
    BY DEF ApplyVirtualTrade
  <1> HIDE DEF k, quote
  <1> QED
    BY <1>2, <1>3, <1>4

\* Moving the quote reserve toward the oracle keeps it unsigned.
LEMMA SyncedPoolNat ==
    ASSUME NEW pool \in [base : Nat, quote : Nat], NEW price \in Nat
    PROVE  SyncedPool(pool, price) \in [base : Nat, quote : Nat]
  <1> DEFINE target == mulFp(pool.base, price)
  <1>1. target \in Nat
    BY mulFpNat
  <1> HIDE DEF target
  <1>2. ASSUME NEW gap \in Nat
        PROVE  /\ (gap * DampingFactor) \div 10000 \in Nat
               /\ (gap * DampingFactor) \div 10000 <= gap
    <2>1. gap * DampingFactor \in Nat /\ gap * 10000 \in Nat
      BY MulNat, DampingAssumption
    <2>2. gap * DampingFactor <= gap * 10000
      BY MulMonotone, DampingAssumption
    <2>3. (gap * DampingFactor) \div 10000 <= (gap * 10000) \div 10000
      BY <2>1, <2>2, DivMonotone
    <2> QED
      BY <2>1, <2>3, DivNat, DivExact
  <1>3. CASE target > pool.quote
    <2>1. target - pool.quote \in Nat
      BY <1>1, <1>3
    <2> DEFINE step == ((target - pool.quote) * DampingFactor) \div 10000
    <2>2. step \in Nat
      BY <2>1, <1>2
    <2>3. SyncedPool(pool, price) = [pool EXCEPT !.quote = @ + step]
      BY <1>3 DEF SyncedPool, target
    <2> HIDE DEF step
    <2> QED
      BY <2>2, <2>3
  <1>4. CASE ~(target > pool.quote)
    <2>1. pool.quote - target \in Nat
      BY <1>1, <1>4
    <2> DEFINE step == ((pool.quote - target) * DampingFactor) \div 10000
    <2>2. step \in Nat /\ step <= pool.quote - target
      BY <2>1, <1>2
    <2>3. SyncedPool(pool, price) = [pool EXCEPT !.quote = @ - step]
      BY <1>4 DEF SyncedPool, target
    <2> HIDE DEF step
    <2>4. pool.quote - step \in Nat
      BY <1>1, <2>2
    <2> QED
      BY <2>3, <2>4
  <1> QED
    BY <1>3, <1>4

\* A trade that the quote reserve can take moves an unsigned amount of base.
LEMMA BaseDeltaNat ==
    ASSUME NEW pool \in [base : Nat, quote : Nat], NEW size \in Nat \ {0},
           NEW isLong \in BOOLEAN, ~isLong => size < pool.quote
    PROVE  BaseDelta(pool, size, isLong) \in Nat
  <1> DEFINE k == mulFp(pool.base, pool.quote)
  <1>1. k \in Nat
    BY mulFpNat
  <1> HIDE DEF k
  <1>2. CASE isLong
    <2>1. pool.quote + size \in Nat \ {0}
      OBVIOUS
    <2>2. divFp(k, pool.quote + size) \in Nat
      BY <1>1, <2>1, divFpNat
    <2> QED
      BY <1>2, <2>2, SatSubNat DEF BaseDelta, k
  <1>3. CASE ~isLong
    <2>1. pool.quote - size \in Nat \ {0}
      BY <1>3
    <2>2. divFp(k, pool.quote - size) \in Nat
      BY <1>1, <2>1, divFpNat
    <2> QED
      BY <1>3, <2>2, SatSubNat DEF BaseDelta, k
  <1> QED
    BY <1>2, <1>3

\* No division by zero and a number at the end: the code's early returns
\* cover every case in which the pool gives no price.
LEMMA ExecutionPriceInt ==
    ASSUME NEW pool \in [base : Nat, quote : Nat], NEW price \in Nat,
           NEW size \in Nat, NEW isLong \in BOOLEAN
    PROVE  ExecutionPrice(pool, price, size, isLong) \in Int
  <1> DEFINE delta == BaseDelta(pool, size, isLong)
             noPool == \/ pool.base = 0 \/ size = 0
                       \/ ~isLong /\ size >= pool.quote
                       \/ delta = 0
             vamm == divFp(size, delta)
             spread == markPrice(pool) - vamm
  <1>1. ExecutionPrice(pool, price, size, isLong) =
          IF noPool THEN price
          ELSE IF vamm >= markPrice(pool) THEN price - spread
               ELSE IF price > spread THEN price - spread ELSE 1
    BY DEF ExecutionPrice
  <1>2. ASSUME ~noPool
        PROVE  spread \in Int
    <2>1. delta \in Nat \ {0}
      BY <1>2, BaseDeltaNat
    <2> HIDE DEF delta
    <2>2. vamm \in Nat
      BY <2>1, divFpNat
    <2>3. markPrice(pool) \in Nat
      BY <1>2, divFpNat DEF markPrice
    <2> QED
      BY <2>2, <2>3
  <1> HIDE DEF noPool, vamm, spread
  <1> QED
    BY <1>1, <1>2

-----------------------------------------------------------------------------
(* Sums over finite sets, by induction on the size of the set.             *)

\* A set of naturals that is not empty has a least element.
LEMMA NatLeast ==
    ASSUME NEW T, T \subseteq Nat, T # {}
    PROVE  \E x \in T : \A y \in T : x <= y
  <1> DEFINE R == OpToRel(<, Nat)
  <1>1. PICK x \in T : \A y \in T : <<y, x>> \notin R
    <2>1. IsWellFoundedOn(R, Nat)
      BY NatLessThanWellFounded
    <2> HIDE DEF R
    <2> QED
      BY <2>1, WFMin
  <1>2. \A y \in T : <<y, x>> \in Nat \X Nat
    OBVIOUS
  <1>3. \A y \in T : ~(y < x)
    BY <1>1, <1>2 DEF OpToRel
  <1> QED
    BY <1>3

\* Induction, for a property given as the set of numbers that have it.
LEMMA NatInd ==
    ASSUME NEW S, 0 \in S, \A n \in Nat : n \in S => n + 1 \in S
    PROVE  \A n \in Nat : n \in S
  <1> SUFFICES ASSUME ~(Nat \subseteq S) PROVE FALSE
    OBVIOUS
  <1> DEFINE T == {n \in Nat : n \notin S}
  <1>1. PICK x \in T : \A y \in T : x <= y
    BY NatLeast
  <1>2. x # 0 /\ x - 1 \in Nat /\ x - 1 \notin T
    BY <1>1
  <1> QED
    BY <1>2

\* The element the folds of the community modules take first.
Pick(s) == CHOOSE x \in s : TRUE

\* g is the table of the sums of f over the sets of D.
Tabulates(g, f, D) ==
    g = [s \in D |-> IF s = {} THEN 0 ELSE f[Pick(s)] + g[s \ {Pick(s)}]]

\* The table SumFunctionOnSet chooses.
SumTable(f, S) == CHOOSE g : Tabulates(g, f, SUBSET S)

\* A sum of the library is the last entry of its table.
LEMMA SumIsTable ==
    ASSUME NEW f, NEW S
    PROVE  SumFunctionOnSet(f, S) = SumTable(f, S)[S]
  BY DEF SumFunctionOnSet, FoldFunctionOnSet, MapThenFoldSet, Tabulates, Pick,
         SumTable

\* The entries of a table, one by one.
LEMMA TableEntry ==
    ASSUME NEW f, NEW D, NEW g, Tabulates(g, f, D)
    PROVE  /\ {} \in D => g[{}] = 0
           /\ \A s \in D : s # {} => g[s] = f[Pick(s)] + g[s \ {Pick(s)}]
  BY DEF Tabulates

\* What is picked from a set that is not empty is in it.
LEMMA PickIn ==
    ASSUME NEW s, s # {}
    PROVE  Pick(s) \in s
  BY DEF Pick

\* What the proofs by induction on the size of a set use.
LEMMA SmallerSet ==
    ASSUME NEW S, IsFiniteSet(S), NEW s \in SUBSET S, NEW x \in s
    PROVE  /\ s \ {x} \in SUBSET S
           /\ Cardinality(s) \in Nat /\ Cardinality(s \ {x}) \in Nat
           /\ Cardinality(s \ {x}) = Cardinality(s) - 1
  <1>1. IsFiniteSet(s)
    BY FS_Subset
  <1> QED
    BY <1>1, FS_RemoveElement, FS_CardinalityType

\* Every function has a table over the subsets of a finite set.
LEMMA TableExists ==
    ASSUME NEW f, NEW S, IsFiniteSet(S)
    PROVE  Tabulates(SumTable(f, S), f, SUBSET S)
  <1> DEFINE Upto(n) == {s \in SUBSET S : Cardinality(s) <= n}
             N == {n \in Nat : \E g : Tabulates(g, f, Upto(n))}
  <1>0. \A s \in SUBSET S : Cardinality(s) \in Nat
    BY FS_Subset, FS_CardinalityType
  <1>1. 0 \in N
    <2> DEFINE g == [s \in Upto(0) |-> 0]
    <2>1. \A s \in Upto(0) : s = {}
      BY <1>0, FS_Subset, FS_EmptySet
    <2>2. Tabulates(g, f, Upto(0))
      BY <2>1 DEF Tabulates
    <2> QED
      BY <2>2
  <1>2. ASSUME NEW n \in Nat, n \in N
        PROVE  n + 1 \in N
    <2>1. PICK g : Tabulates(g, f, Upto(n))
      BY <1>2
    <2> DEFINE h == [s \in Upto(n + 1) |->
                       IF s = {} THEN 0 ELSE f[Pick(s)] + g[s \ {Pick(s)}]]
    <2>2. ASSUME NEW s \in Upto(n)
          PROVE  s \in Upto(n + 1) /\ h[s] = g[s]
      <3>1. s \in Upto(n + 1)
        BY <1>0
      <3> HIDE DEF Upto
      <3>2. s = {} => g[s] = 0
        BY <2>1, TableEntry
      <3>3. s # {} => g[s] = f[Pick(s)] + g[s \ {Pick(s)}]
        BY <2>1, TableEntry
      <3> QED
        BY <3>1, <3>2, <3>3
    <2>3. ASSUME NEW s \in Upto(n + 1), s # {}
          PROVE  s \ {Pick(s)} \in Upto(n)
      <3>1. Pick(s) \in s
        BY <2>3, PickIn
      <3> QED
        BY <3>1, SmallerSet
    <2> HIDE DEF Upto
    <2>4. Tabulates(h, f, Upto(n + 1))
      BY <2>2, <2>3 DEF Tabulates
    <2> QED
      BY <2>4
  <1>3. Cardinality(S) \in N
    <2> HIDE DEF N
    <2> QED
      BY <1>0, <1>1, <1>2, NatInd
  <1>4. Upto(Cardinality(S)) = SUBSET S
    BY FS_Subset
  <1>5. \E g : Tabulates(g, f, SUBSET S)
    BY <1>3, <1>4
  <1> QED
    BY <1>5 DEF SumTable

\* Addition of naturals, for operands that are table entries.
LEMMA SumOfThree ==
    ASSUME NEW a \in Nat, NEW b \in Nat
    PROVE  /\ a + b \in Nat
           /\ \A c \in Nat : a + (b + c) = b + (a + c)
  OBVIOUS

\* The order in which the elements are taken does not matter.
LEMMA TableStep ==
    ASSUME NEW f, NEW S, IsFiniteSet(S), \A x \in S : f[x] \in Nat,
           NEW g, Tabulates(g, f, SUBSET S)
    PROVE  \A s \in SUBSET S :
              g[s] \in Nat /\ \A x \in s : g[s] = f[x] + g[s \ {x}]
  <1> DEFINE Good(s) == g[s] \in Nat /\ \A x \in s : g[s] = f[x] + g[s \ {x}]
             Upto(n) == \A s \in SUBSET S : Cardinality(s) <= n => Good(s)
             N == {n \in Nat : Upto(n)}
  <1>0. /\ \A s \in SUBSET S : Cardinality(s) \in Nat
        /\ \A s \in SUBSET S : Cardinality(s) = 0 <=> s = {}
    BY FS_Subset, FS_CardinalityType, FS_EmptySet
  <1>1. g[{}] = 0
    BY TableEntry
  <1>2. \A s \in SUBSET S : s # {} => g[s] = f[Pick(s)] + g[s \ {Pick(s)}]
    BY TableEntry
  <1>3. 0 \in N
    <2>1. ASSUME NEW s \in SUBSET S, Cardinality(s) <= 0
          PROVE  Good(s)
      <3>1. s = {}
        BY <1>0, <2>1
      <3> QED
        BY <1>1, <3>1
    <2> QED
      BY <2>1
  <1>4. ASSUME NEW n \in Nat, Upto(n)
        PROVE  Upto(n + 1)
    <2> SUFFICES ASSUME NEW s \in SUBSET S, Cardinality(s) = n + 1
                 PROVE  Good(s)
      BY <1>0, <1>4
    <2> DEFINE y == Pick(s)
    <2>1. s # {} /\ y \in s /\ y \in S
      BY <1>0, PickIn
    <2>2. ASSUME NEW x \in s
          PROVE  /\ s \ {x} \in SUBSET S /\ Good(s \ {x})
                 /\ x \in S /\ f[x] \in Nat
      <3>1. s \ {x} \in SUBSET S /\ Cardinality(s \ {x}) <= n
        BY SmallerSet
      <3> QED
        BY <1>4, <3>1
    <2>3. g[s] = f[y] + g[s \ {y}]
      BY <1>2, <2>1
    <2> HIDE DEF y
    <2>4. g[s] \in Nat
      <3>1. f[y] \in Nat /\ g[s \ {y}] \in Nat
        BY <2>1, <2>2
      <3> QED
        BY <2>3, <3>1, SumOfThree
    <2>5. ASSUME NEW x \in s, x # y
          PROVE  g[s] = f[x] + g[s \ {x}]
      <3> DEFINE r == (s \ {x}) \ {y}
      <3>1. r = (s \ {y}) \ {x}
        OBVIOUS
      <3>2. g[s \ {x}] = f[y] + g[r]
        BY <2>1, <2>2, <2>5
      <3>3. g[s \ {y}] = f[x] + g[r]
        BY <2>1, <2>2, <2>5, <3>1
      <3>4. g[r] \in Nat
        <4>1. y \in s \ {x}
          BY <2>1, <2>5
        <4>2. s \ {x} \in SUBSET S /\ Cardinality(s \ {x}) = n
          BY SmallerSet
        <4>3. r \in SUBSET S /\ Cardinality(r) <= n
          BY <4>1, <4>2, SmallerSet
        <4> QED
          BY <1>4, <4>3
      <3> HIDE DEF r
      <3>5. f[x] \in Nat /\ f[y] \in Nat
        BY <2>1, <2>2
      <3> QED
        BY <2>3, <3>2, <3>3, <3>4, <3>5, SumOfThree
    <2> QED
      BY <2>3, <2>4, <2>5
  <1>5. \A n \in Nat : n \in N
    <2>1. ASSUME NEW n \in Nat, n \in N
          PROVE  n + 1 \in N
      <3>1. Upto(n)
        BY <2>1
      <3>2. Upto(n + 1)
        BY <1>4, <3>1
      <3> HIDE DEF Upto
      <3> QED
        BY <3>2
    <2> HIDE DEF N
    <2> QED
      BY <1>3, <2>1, NatInd
  <1>6. ASSUME NEW s \in SUBSET S
        PROVE  Good(s)
    <2>1. Cardinality(s) \in Nat /\ Upto(Cardinality(s))
      BY <1>0, <1>5
    <2> QED
      BY <2>1
  <1> QED
    BY <1>6

\* Functions that agree on S.
SameOn(f, e, S) == \A x \in S : f[x] = e[x]

\* Tables agree on the sets on which their functions do.
LEMMA TableUnique ==
    ASSUME NEW S, IsFiniteSet(S), NEW t \in SUBSET S,
           NEW f, NEW g, Tabulates(g, f, SUBSET S),
           NEW e, NEW h, Tabulates(h, e, SUBSET t), SameOn(f, e, t)
    PROVE  g[t] = h[t]
  <1> DEFINE N == {n \in Nat : \A s \in SUBSET t : Cardinality(s) = n => g[s] = h[s]}
  <1>0. IsFiniteSet(t)
    BY FS_Subset
  <1>1. 0 \in N
    <2>1. \A s \in SUBSET t : Cardinality(s) = 0 => s = {}
      BY <1>0, FS_Subset, FS_EmptySet
    <2>2. g[{}] = 0 /\ h[{}] = 0
      BY DEF Tabulates
    <2> QED
      BY <2>1, <2>2
  <1>2. ASSUME NEW n \in Nat, n \in N
        PROVE  n + 1 \in N
    <2> SUFFICES ASSUME NEW s \in SUBSET t, Cardinality(s) = n + 1
                 PROVE  g[s] = h[s]
      OBVIOUS
    <2>1. s # {} /\ Pick(s) \in s
      <3>1. s = {} => Cardinality(s) = 0
        BY FS_EmptySet
      <3>2. n + 1 # 0
        OBVIOUS
      <3>3. s # {}
        BY <3>1, <3>2
      <3> QED
        BY <3>3, PickIn
    <2>2. s \ {Pick(s)} \in SUBSET t /\ Cardinality(s \ {Pick(s)}) = n
      BY <1>0, <2>1, SmallerSet
    <2>3. g[s \ {Pick(s)}] = h[s \ {Pick(s)}]
      BY <1>2, <2>2
    <2>4. /\ g[s] = f[Pick(s)] + g[s \ {Pick(s)}]
          /\ h[s] = e[Pick(s)] + h[s \ {Pick(s)}]
      BY <2>1 DEF Tabulates
    <2> QED
      BY <2>1, <2>3, <2>4 DEF SameOn
  <1>3. Cardinality(t) \in N
    <2> HIDE DEF N
    <2> QED
      BY <1>0, <1>1, <1>2, NatInd, FS_CardinalityType
  <1> QED
    BY <1>3

\* A finite sum of naturals is a natural.
LEMMA SumNat ==
    ASSUME NEW f, NEW S, IsFiniteSet(S), \A x \in S : f[x] \in Nat
    PROVE  SumFunctionOnSet(f, S) \in Nat
  BY SumIsTable, TableExists, TableStep

\* A sum depends only on the values summed.
LEMMA SumCongruent ==
    ASSUME NEW f, NEW e, NEW S, IsFiniteSet(S), \A x \in S : f[x] = e[x]
    PROVE  SumFunctionOnSet(f, S) = SumFunctionOnSet(e, S)
  <1>1. PICK g : g = SumTable(f, S)
    OBVIOUS
  <1>2. PICK h : h = SumTable(e, S)
    OBVIOUS
  <1>3. Tabulates(g, f, SUBSET S) /\ Tabulates(h, e, SUBSET S)
    BY <1>1, <1>2, TableExists
  <1>4. g[S] = h[S]
    <2>1. SameOn(f, e, S) /\ S \in SUBSET S
      BY DEF SameOn
    <2> QED
      BY <1>3, <2>1, TableUnique
  <1> QED
    BY <1>1, <1>2, <1>4, SumIsTable

\* Any one element can be taken out of a sum.
LEMMA SumSplit ==
    ASSUME NEW f, NEW S, IsFiniteSet(S), \A x \in S : f[x] \in Nat, NEW x \in S
    PROVE  SumFunctionOnSet(f, S) = f[x] + SumFunctionOnSet(f, S \ {x})
  <1>1. PICK T : T = S \ {x}
    OBVIOUS
  <1>2. T \subseteq S /\ IsFiniteSet(T)
    BY <1>1, FS_Subset
  <1>3. PICK g : g = SumTable(f, S)
    OBVIOUS
  <1>4. PICK h : h = SumTable(f, T)
    OBVIOUS
  <1>5. Tabulates(g, f, SUBSET S) /\ Tabulates(h, f, SUBSET T)
    BY <1>2, <1>3, <1>4, TableExists
  <1>6. g[S] = f[x] + g[T]
    BY <1>1, <1>5, TableStep
  <1>7. g[T] = h[T]
    <2>1. SameOn(f, f, T) /\ T \in SUBSET S
      BY <1>2 DEF SameOn
    <2> QED
      BY <1>2, <1>5, <2>1, TableUnique
  <1> QED
    BY <1>1, <1>3, <1>4, <1>6, <1>7, SumIsTable

\* Nothing but zeros adds up to zero.
LEMMA SumOfZeros ==
    ASSUME NEW f, NEW S, IsFiniteSet(S), \A x \in S : f[x] = 0
    PROVE  SumFunctionOnSet(f, S) = 0
  <1>1. PICK g : g = SumTable(f, S)
    OBVIOUS
  <1>2. Tabulates(g, f, SUBSET S)
    BY <1>1, TableExists
  <1> DEFINE N == {n \in Nat : \A s \in SUBSET S : Cardinality(s) = n => g[s] = 0}
  <1>3. /\ \A s \in SUBSET S : Cardinality(s) \in Nat
        /\ \A s \in SUBSET S : Cardinality(s) = 0 <=> s = {}
    BY FS_Subset, FS_CardinalityType, FS_EmptySet
  <1>4. 0 \in N
    <2>1. g[{}] = 0
      BY <1>2, TableEntry
    <2> QED
      BY <1>3, <2>1
  <1>5. ASSUME NEW n \in Nat, n \in N
        PROVE  n + 1 \in N
    <2> SUFFICES ASSUME NEW s \in SUBSET S, Cardinality(s) = n + 1
                 PROVE  g[s] = 0
      OBVIOUS
    <2>1. s # {} /\ Pick(s) \in s
      BY <1>3, PickIn
    <2>2. s \ {Pick(s)} \in SUBSET S /\ Cardinality(s \ {Pick(s)}) = n
      BY <2>1, SmallerSet
    <2>3. g[s \ {Pick(s)}] = 0
      BY <1>5, <2>2
    <2>4. g[s] = f[Pick(s)] + g[s \ {Pick(s)}]
      BY <1>2, <2>1, TableEntry
    <2> QED
      BY <2>1, <2>3, <2>4
  <1>6. Cardinality(S) \in N
    <2> HIDE DEF N
    <2> QED
      BY <1>3, <1>4, <1>5, NatInd
  <1> QED
    BY <1>1, <1>6, SumIsTable

\* Functions of naturals on S that differ at most at x.
DifferAt(f, e, x, S) ==
    /\ x \in S
    /\ \A y \in S : f[y] \in Nat /\ e[y] \in Nat
    /\ \A y \in S \ {x} : e[y] = f[y]

\* When f becomes e at x only, the sum changes by what f does there; and no
\* part exceeds the whole.
LEMMA SumUpdate ==
    ASSUME NEW S, IsFiniteSet(S), NEW f, NEW e, NEW x, DifferAt(f, e, x, S)
    PROVE  /\ SumFunctionOnSet(f, S) \in Nat
           /\ f[x] <= SumFunctionOnSet(f, S)
           /\ SumFunctionOnSet(e, S) = SumFunctionOnSet(f, S) - f[x] + e[x]
  <1>1. IsFiniteSet(S \ {x})
    BY FS_Subset
  <1>2. /\ x \in S
        /\ \A y \in S : f[y] \in Nat /\ e[y] \in Nat
        /\ \A y \in S \ {x} : e[y] = f[y]
    BY DEF DifferAt
  <1>3. SumFunctionOnSet(f, S \ {x}) = SumFunctionOnSet(e, S \ {x})
    BY <1>1, <1>2, SumCongruent
  <1>4. SumFunctionOnSet(f, S \ {x}) \in Nat
    BY <1>1, <1>2, SumNat
  <1>5. /\ SumFunctionOnSet(f, S) = f[x] + SumFunctionOnSet(f, S \ {x})
        /\ SumFunctionOnSet(e, S) = e[x] + SumFunctionOnSet(e, S \ {x})
    BY <1>2, SumSplit
  <1> QED
    BY <1>2, <1>3, <1>4, <1>5

-----------------------------------------------------------------------------
(* What a step does to the backing of the tracked balances.                *)

KeepsBacking == TrackedBacked => TrackedBacked'

-----------------------------------------------------------------------------
(* What the shared helpers return.                                         *)

\* Accruing funding yields a funding state.
LEMMA AccruedFundingType ==
    ASSUME fundingStates \in [Markets -> FundingState], now \in Nat,
           NEW m \in Markets
    PROVE  AccruedFunding(m) \in FundingState
  <1> DEFINE fs == fundingStates[m]
             accrued == fs.rate * (now - fs.last)
  <1>1. fs \in FundingState
    OBVIOUS
  <1>2. accrued \in Int
    <2>1. fs.rate \in Int /\ now - fs.last \in Int
      BY <1>1 DEF FundingState
    <2> QED
      BY <2>1, MulInt
  <1> DEFINE long == fs.long + accrued
             short == fs.short - accrued
  <1>3. AccruedFunding(m) =
          IF fs.last = 0 THEN [fs EXCEPT !.last = now]
          ELSE [fs EXCEPT !.long = long, !.short = short, !.last = now]
    BY DEF AccruedFunding
  <1> HIDE DEF fs, accrued
  <1>4. long \in Int /\ short \in Int
    BY <1>1, <1>2 DEF FundingState
  <1> HIDE DEF long, short
  <1> QED
    BY <1>1, <1>3, <1>4 DEF FundingState

\* Either side's cumulative index is a signed number.
LEMMA FundingIndexInt ==
    ASSUME NEW fs \in FundingState, NEW isLong \in BOOLEAN
    PROVE  FundingIndex(fs, isLong) \in Int
  BY DEF FundingIndex, FundingState

\* Settling at an index keeps a position a position and touches nothing but
\* its collateral and its funding index.
LEMMA SettledAtType ==
    ASSUME NEW pos \in Position, NEW index \in Int
    PROVE  /\ SettledAt(pos, index) \in Position
           /\ SettledAt(pos, index).user = pos.user
           /\ SettledAt(pos, index).marketId = pos.marketId
           /\ SettledAt(pos, index).isLong = pos.isLong
           /\ SettledAt(pos, index).sizeUsd = pos.sizeUsd
           /\ SettledAt(pos, index).entryPrice = pos.entryPrice
           /\ SettledAt(pos, index).collateralToken = pos.collateralToken
           /\ SettledAt(pos, index).active = pos.active
  <1> DEFINE payment == mulFpSigned(pos.sizeUsd, index - pos.lastFundingIndex)
             tokens == usdToTokens(pos.collateralToken,
                                   IF payment >= 0 THEN payment ELSE -payment)
             drained == payment > 0 /\ tokens >= pos.collateralAmount
             amount == IF drained THEN 0
                       ELSE IF payment > 0 THEN pos.collateralAmount - tokens
                       ELSE pos.collateralAmount + tokens
             usd == IF drained THEN 0
                    ELSE IF payment > 0 THEN SatSub(pos.collateralUsd, payment)
                    ELSE pos.collateralUsd - payment
  <1>1. payment \in Int
    <2>1. pos.sizeUsd \in Int /\ index - pos.lastFundingIndex \in Int
      BY DEF Position
    <2> QED
      BY <2>1, mulFpSignedInt
  <1>2. tokens \in Nat
    <2>1. pos.collateralToken \in DOMAIN UsdScale
      BY CoreAssumption DEF Position
    <2> HIDE DEF payment
    <2>2. (IF payment >= 0 THEN payment ELSE -payment) \in Nat
      BY <1>1
    <2> QED
      BY <2>1, <2>2, usdToTokensNat
  <1>3. SettledAt(pos, index) = [pos EXCEPT !.lastFundingIndex = index,
                                   !.collateralAmount = amount,
                                   !.collateralUsd = usd]
    BY DEF SettledAt
  <1> HIDE DEF payment, tokens
  <1>4. amount \in Nat
    BY <1>1, <1>2 DEF Position
  <1>5. usd \in Nat
    <2>1. pos.collateralUsd \in Nat
      BY DEF Position
    <2>2. CASE payment > 0
      <3>1. payment \in Nat
        BY <1>1, <2>2
      <3> QED
        BY <2>1, <2>2, <3>1, SatSubNat
    <2>3. CASE ~(payment > 0)
      <3>1. pos.collateralUsd - payment \in Nat
        BY <1>1, <2>1, <2>3
      <3> QED
        BY <2>3, <3>1
    <2> QED
      BY <2>2, <2>3
  <1> HIDE DEF amount, usd
  <1>6. SettledAt(pos, index) \in Position
    BY <1>3, <1>4, <1>5 DEF Position
  <1> QED
    BY <1>3, <1>6 DEF Position

\* Settling at the accrued index does.
LEMMA SettledType ==
    ASSUME fundingStates \in [Markets -> FundingState], now \in Nat,
           NEW pos \in Position
    PROVE  /\ Settled(pos) \in Position
           /\ Settled(pos).user = pos.user
           /\ Settled(pos).marketId = pos.marketId
           /\ Settled(pos).isLong = pos.isLong
           /\ Settled(pos).sizeUsd = pos.sizeUsd
           /\ Settled(pos).entryPrice = pos.entryPrice
           /\ Settled(pos).collateralToken = pos.collateralToken
           /\ Settled(pos).active = pos.active
  <1> DEFINE index == FundingIndex(AccruedFunding(pos.marketId), pos.isLong)
  <1>1. index \in Int
    BY AccruedFundingType, FundingIndexInt DEF Position
  <1>2. Settled(pos) = SettledAt(pos, index)
    BY DEF Settled
  <1> HIDE DEF index
  <1> QED
    BY <1>1, <1>2, SettledAtType

-----------------------------------------------------------------------------
(* What the diamond's calls leave of an account.                           *)

\* Taking a slot out of the list of active positions leaves a list of slots.
LEMMA RemoveActiveType ==
    ASSUME NEW a \in Account, NEW s \in Slots
    PROVE  /\ RemoveActivePosition(a, s) \in Account
           /\ RemoveActivePosition(a, s).exists = a.exists
  <1>1. CASE a.index[s] = 0
    BY <1>1 DEF RemoveActivePosition
  <1>2. CASE a.index[s] # 0
    <2> DEFINE n == Len(a.active)
               last == a.active[n]
               list == [i \in 1..(n - 1) |->
                          IF i = a.index[s] THEN last ELSE a.active[i]]
               at == [x \in Slots |-> IF x = s THEN 0
                                      ELSE IF x = last THEN a.index[s]
                                      ELSE a.index[x]]
    <2>1. a.active \in Seq(Slots) /\ n \in Nat
      BY DEF Account
    <2>2. list \in Seq(Slots)
      <3>1. CASE n = 0
        <4>1. list = <<>>
          BY <3>1
        <4>2. <<>> \in Seq(Slots)
          OBVIOUS
        <4> HIDE DEF list
        <4> QED
          BY <4>1, <4>2
      <3>2. CASE n # 0
        <4>1. n - 1 \in Nat
          BY <2>1, <3>2
        <4>2. \A i \in 1..n : a.active[i] \in Slots
          BY <2>1
        <4>3. \A i \in 1..(n - 1) : list[i] \in Slots
          BY <2>1, <4>1, <4>2
        <4>4. list \in [1..(n - 1) -> Slots]
          BY <4>3
        <4> QED
          BY <4>1, <4>4
      <3> QED
        BY <3>1, <3>2
    <2>3. at \in [Slots -> Nat]
      BY DEF Account
    <2>4. RemoveActivePosition(a, s) =
            [a EXCEPT !.active = list, !.index = at]
      BY <1>2 DEF RemoveActivePosition
    <2> HIDE DEF list, at
    <2> QED
      BY <2>2, <2>3, <2>4 DEF Account
  <1> QED
    BY <1>1, <1>2

\* Entering a slot into the list of active positions leaves a list of slots.
LEMMA AddActiveType ==
    ASSUME NEW a \in Account, NEW s \in Slots
    PROVE  /\ AddActivePosition(a, s) \in Account
           /\ AddActivePosition(a, s).balance = a.balance
  <1>1. a.active \in Seq(Slots) /\ Len(a.active) + 1 \in Nat
    BY DEF Account
  <1> DEFINE list == Append(a.active, s)
             at == [a.index EXCEPT ![s] = Len(a.active) + 1]
  <1>2. list \in Seq(Slots)
    BY <1>1
  <1>3. at \in [Slots -> Nat]
    BY <1>1 DEF Account
  <1>4. AddActivePosition(a, s) =
          IF a.index[s] # 0 THEN a ELSE [a EXCEPT !.active = list, !.index = at]
    BY DEF AddActivePosition, Account
  <1> HIDE DEF list, at
  <1> QED
    BY <1>2, <1>3, <1>4 DEF Account

\* lockForPosition takes no more than the account holds.
LEMMA LockType ==
    ASSUME NEW a \in Account, NEW t \in Tokens, NEW amount \in Nat,
           NEW s \in Slots, CanLock(a, t, amount)
    PROVE  LockForPosition(a, t, amount, s) \in Account
  <1> DEFINE entered == [a EXCEPT !.margins[s].token = t]
             opened == IF a.margins[s].token # NoToken THEN a
                       ELSE AddActivePosition(entered, s)
  <1>1. amount <= a.balance[t]
    BY DEF CanLock, AvailableBalance, Account
  <1>2. entered \in Account /\ entered.balance = a.balance
    BY DEF Account
  <1> HIDE DEF entered
  <1>3. opened \in Account /\ opened.balance = a.balance
    BY <1>2, AddActiveType
  <1>4. LockForPosition(a, t, amount, s) =
          [opened EXCEPT !.margins[s].locked = @ + amount,
                         !.totalLocked[t] = @ + amount,
                         !.balance[t] = @ - amount]
    BY DEF LockForPosition, entered
  <1> HIDE DEF opened
  <1> DEFINE slot == [opened.margins[s] EXCEPT !.locked = @ + amount]
             margins == [opened.margins EXCEPT ![s] = slot]
             locked == [opened.totalLocked EXCEPT ![t] = @ + amount]
             balance == [opened.balance EXCEPT ![t] = @ - amount]
  <1>5. slot \in [token : Tokens \cup {NoToken}, locked : Nat]
    <2> DEFINE old == opened.margins[s]
               more == old.locked + amount
    <2>1. old \in [token : Tokens \cup {NoToken}, locked : Nat]
      BY <1>3 DEF Account
    <2> HIDE DEF old
    <2>2. more \in Nat
      BY <2>1
    <2>3. slot = [old EXCEPT !.locked = more]
      BY DEF old
    <2> HIDE DEF more, slot
    <2> QED
      BY <2>1, <2>2, <2>3
  <1>6. margins \in [Slots -> [token : Tokens \cup {NoToken}, locked : Nat]]
    <2> HIDE DEF slot
    <2> QED
      BY <1>3, <1>5 DEF Account
  <1>7. locked \in [Tokens -> Nat]
    BY <1>3 DEF Account
  <1>8. balance \in [Tokens -> Nat]
    BY <1>1, <1>3 DEF Account
  <1>9. LockForPosition(a, t, amount, s) =
          [opened EXCEPT !.margins = margins, !.totalLocked = locked,
                         !.balance = balance]
    BY <1>3, <1>4 DEF Account
  <1> HIDE DEF margins, locked, balance
  <1> QED
    BY <1>3, <1>6, <1>7, <1>8, <1>9 DEF Account

\* Tokens paid in are unlocked as far as they were locked.
LEMMA PayInType ==
    ASSUME NEW a \in Account, NEW t \in Tokens, NEW amount \in Nat,
           NEW s \in Slots
    PROVE  PayIn(a, t, amount, s) \in Account
  <1> DEFINE paid == [a EXCEPT !.balance[t] = @ + amount]
             left == IF paid.margins[s].locked >= amount
                     THEN paid.margins[s].locked - amount ELSE 0
             free == IF paid.totalLocked[t] >= amount
                     THEN paid.totalLocked[t] - amount ELSE 0
             slot == [paid.margins[s] EXCEPT !.locked = left]
             margins == [paid.margins EXCEPT ![s] = slot]
             locked == [paid.totalLocked EXCEPT ![t] = free]
             b == [paid EXCEPT !.margins = margins, !.totalLocked = locked]
  <1>1. paid \in Account
    <2> DEFINE balance == [a.balance EXCEPT ![t] = @ + amount]
    <2>1. balance \in [Tokens -> Nat]
      BY DEF Account
    <2>2. paid = [a EXCEPT !.balance = balance]
      BY DEF Account
    <2> HIDE DEF balance, paid
    <2> QED
      BY <2>1, <2>2 DEF Account
  <1>2. PayIn(a, t, amount, s) = UnlockFromPosition(paid, t, amount, s)
    BY DEF PayIn
  <1> HIDE DEF paid
  <1>3. left \in Nat /\ free \in Nat
    BY <1>1 DEF Account
  <1>4. UnlockFromPosition(paid, t, amount, s) =
          IF left = 0 THEN RemoveActivePosition(b, s) ELSE b
    BY <1>1 DEF UnlockFromPosition, Account
  <1> HIDE DEF left, free
  <1>5. slot \in [token : Tokens \cup {NoToken}, locked : Nat]
    BY <1>1, <1>3 DEF Account
  <1> HIDE DEF slot
  <1>6. margins \in [Slots -> [token : Tokens \cup {NoToken}, locked : Nat]]
    BY <1>1, <1>5 DEF Account
  <1>7. locked \in [Tokens -> Nat]
    BY <1>1, <1>3 DEF Account
  <1> HIDE DEF margins, locked
  <1>8. b \in Account
    BY <1>1, <1>6, <1>7 DEF Account
  <1> HIDE DEF b
  <1> QED
    BY <1>2, <1>4, <1>8, RemoveActiveType

-----------------------------------------------------------------------------
(* What the parts the actions are made of leave of the variables.          *)

\* Tokens that enter the vault come out of the account of an existing user;
\* the entry of anyone else does not exist and is not written.
LEMMA LockCollateralType ==
    ASSUME TypeOK, NEW u, NEW t \in Tokens, NEW amount \in Nat,
           NEW slot \in Slots, LockCollateral(u, t, amount, slot)
    PROVE  /\ accounts' \in [Users -> Account]
           /\ vaultBalances' \in [Tokens -> Nat]
           /\ held' \in [Tokens -> Nat]
           /\ KeepsBacking
  <1>1. accounts' \in [Users -> Account]
    <2> DEFINE locked == LockForPosition(accounts[u], t, amount, slot)
    <2>1. u \in Users => locked \in Account
      BY LockType DEF TypeOK, LockCollateral
    <2>2. accounts' = [accounts EXCEPT ![u] = locked]
      BY DEF LockCollateral
    <2> HIDE DEF locked
    <2> QED
      BY <2>1, <2>2 DEF TypeOK
  <1>2. KeepsBacking
    BY DEF LockCollateral, TypeOK, KeepsBacking, TrackedBacked
  <1> QED
    BY <1>1, <1>2 DEF LockCollateral, TypeOK

\* Paying a user in keeps every account an account.
LEMMA PayInUsersType ==
    ASSUME TypeOK, NEW u, NEW t \in Tokens, NEW amount \in Nat,
           NEW slot \in Slots
    PROVE  [accounts EXCEPT ![u] = PayIn(@, t, amount, slot)]
              \in [Users -> Account]
  <1> DEFINE paid == PayIn(accounts[u], t, amount, slot)
  <1>1. u \in Users => paid \in Account
    BY PayInType DEF TypeOK
  <1> HIDE DEF paid
  <1>2. [accounts EXCEPT ![u] = paid] \in [Users -> Account]
    BY <1>1 DEF TypeOK
  <1> QED
    BY <1>2 DEF paid

\* _payoutToVault takes as much off the tracked balance, or all of it, as
\* off the tokens held.
LEMMA PayoutToVaultType ==
    ASSUME TypeOK, NEW u, NEW t \in Tokens, NEW amount \in Nat,
           NEW slot \in Slots, PayoutToVault(u, t, amount, slot)
    PROVE  /\ accounts' \in [Users -> Account]
           /\ vaultBalances' \in [Tokens -> Nat]
           /\ held' \in [Tokens -> Nat]
           /\ KeepsBacking
  <1>1. accounts' \in [Users -> Account]
    BY PayInUsersType DEF PayoutToVault, TypeOK
  <1>2. SatSub(vaultBalances[t], amount) \in Nat
    BY SatSubNat DEF TypeOK
  <1>3. vaultBalances' \in [Tokens -> Nat]
    BY <1>2 DEF PayoutToVault, TypeOK
  <1>4. held' \in [Tokens -> Nat]
    BY DEF PayoutToVault, TypeOK
  <1>5. vaultBalances[t] <= held[t] => SatSub(vaultBalances[t], amount) <= held[t] - amount
    BY DEF PayoutToVault, TypeOK, SatSub
  <1>6. KeepsBacking
    BY <1>5 DEF PayoutToVault, TypeOK, KeepsBacking, TrackedBacked
  <1> QED
    BY <1>1, <1>3, <1>4, <1>6

\* Crediting insurance only adds to the fund of one token.
LEMMA CreditInsuranceType ==
    ASSUME TypeOK, NEW t \in Tokens, NEW amount \in Nat,
           CreditInsurance(t, amount)
    PROVE  insuranceBalances' \in [Tokens -> Nat]
  BY DEF CreditInsurance, TypeOK

\* Accruing the funding of one market leaves a funding state for each.
LEMMA AccrueFundingType ==
    ASSUME TypeOK, NEW m \in Markets, AccrueFunding(m)
    PROVE  fundingStates' \in [Markets -> FundingState]
  <1>1. AccruedFunding(m) \in FundingState
    BY AccruedFundingType DEF TypeOK
  <1> QED
    BY <1>1 DEF AccrueFunding, TypeOK

\* Adding and removing a size keeps both sides of the open interest unsigned.
LEMMA OIType ==
    ASSUME TypeOK, NEW m \in Markets, NEW isLong \in BOOLEAN, NEW size \in Nat,
           IncreaseOI(m, isLong, size) \/ DecreaseOI(m, isLong, size)
    PROVE  openInterest' \in [Markets -> [long : Nat, short : Nat]]
  <1> DEFINE side == OISide(isLong)
             old == openInterest[m]
  <1>1. old \in [long : Nat, short : Nat]
    BY DEF TypeOK
  <1>2. side \in {"long", "short"}
    BY DEF OISide
  <1>3. old[side] \in Nat
    BY <1>1, <1>2
  <1>4. PICK new \in Nat : openInterest' = [openInterest EXCEPT ![m][side] = new]
    <2>1. SatSub(old[side], size) \in Nat /\ old[side] + size \in Nat
      <3> DEFINE n == old[side]
      <3>1. n \in Nat
        BY <1>3
      <3> HIDE DEF n
      <3>2. SatSub(n, size) \in Nat /\ n + size \in Nat
        BY <3>1, SatSubNat
      <3> QED
        BY <3>2 DEF n
    <2> QED
      BY <2>1 DEF IncreaseOI, DecreaseOI, TypeOK
  <1> DEFINE changed == [old EXCEPT ![side] = new]
  <1>5. changed \in [long : Nat, short : Nat]
    <2> HIDE DEF side, old
    <2>1. CASE side = "long"
      BY <1>1, <2>1
    <2>2. CASE side = "short"
      BY <1>1, <2>2
    <2> QED
      BY <1>2, <2>1, <2>2
  <1>6. openInterest' = [openInterest EXCEPT ![m] = changed]
    BY <1>4 DEF TypeOK
  <1> HIDE DEF changed
  <1> QED
    BY <1>5, <1>6 DEF TypeOK

\* A virtual trade leaves reserves that are unsigned.
LEMMA TradeOnPoolType ==
    ASSUME TypeOK, NEW m \in Markets, NEW size \in Nat,
           NEW isLong \in BOOLEAN, NEW isOpen \in BOOLEAN,
           TradeOnPool(m, size, isLong, isOpen)
    PROVE  pools' \in [Markets -> [base : Nat, quote : Nat]]
  <1>1. ApplyVirtualTrade(pools[m], size, isLong = isOpen)
           \in [base : Nat, quote : Nat]
    <2>1. pools[m] \in [base : Nat, quote : Nat] /\ (isLong = isOpen) \in BOOLEAN
      BY DEF TypeOK
    <2> QED
      BY <2>1, ApplyVirtualTradeNat
  <1> QED
    BY <1>1 DEF TradeOnPool, TypeOK

\* Forgetting an entry leaves every entry an id or 0.
LEMMA ForgetEntryType ==
    ASSUME TypeOK, NEW u, NEW m \in Markets, ForgetEntry(u, m)
    PROVE  userMarketPosition' \in [Users -> [Markets -> 0..MaxPositions]]
  <1> DEFINE row == [userMarketPosition[u] EXCEPT ![m] = 0]
  <1>1. u \in Users => row \in [Markets -> 0..MaxPositions]
    BY CoreAssumption DEF TypeOK
  <1>2. userMarketPosition' = [userMarketPosition EXCEPT ![u] = row]
    BY DEF ForgetEntry
  <1> HIDE DEF row
  <1> QED
    BY <1>1, <1>2 DEF TypeOK

\* The fee in tokens is unsigned, for who takes and for who makes.
LEMMA TradingFeeTokensNat ==
    ASSUME NEW t \in Tokens, NEW size \in Nat,
           NEW feeBps \in {TakerFeeBps, MakerFeeBps}
    PROVE  TradingFeeTokens(t, size, feeBps) \in Nat
  <1>1. feeBps \in Nat
    <2>1. TakerFeeBps \in Nat /\ MakerFeeBps \in Nat
      BY FeeAssumption
    <2> QED
      BY <2>1
  <1>2. calculateTradingFee(size, feeBps) \in Nat
    BY <1>1, calculateTradingFeeNat
  <1>3. t \in DOMAIN UsdScale
    BY CoreAssumption
  <1> QED
    BY <1>2, <1>3, usdToTokensNat DEF TradingFeeTokens

\* Every accepted token has a scale, so conversions of it are unsigned.
LEMMA UsdNat ==
    ASSUME NEW t \in Tokens, NEW amount \in Nat
    PROVE  normalizeToUsd(t, amount) \in Nat
  BY normalizeToUsdNat, CoreAssumption

\* Position ids are slots of an account, and slot 0 is one more.
LEMMA SlotsOfIds == PositionIds \subseteq Slots /\ 0 \in Slots
  BY CoreAssumption DEF PositionIds, Slots

-----------------------------------------------------------------------------
(* Type correctness, one lemma per operation.  The same lemmas show that   *)
(* the tracked balance stays backed: what a payout or a lock adds to or    *)
(* takes from one is at most what it adds to or takes from the other.      *)

\* openPosition: the record it writes, the fee it takes and the id it assigns
\* have their types, and what it adds to the tracked balance it receives.
LEMMA OpenPositionType ==
    ASSUME TypeOK, NEW u \in Users, NEW m \in Markets, NEW t \in Tokens,
           NEW amount \in Nat, NEW leverage \in Nat, NEW isLong \in BOOLEAN,
           OpenPosition(u, m, t, amount, leverage, isLong)
    PROVE  TypeOK' /\ KeepsBacking
  <1> DEFINE usd == normalizeToUsd(t, amount)
             size == mulFp(usd, leverage)
             entry == ExecutionPrice(pools[m], latestPrice[m], size, isLong)
             fee == TradingFeeTokens(t, size, TakerFeeBps)
             feeTaken == fee > 0 /\ fee < amount
             net == IF feeTaken THEN amount - fee ELSE amount
             netUsd == normalizeToUsd(t, net)
             cut == IF feeTaken THEN calculateInsuranceContribution(fee) ELSE 0
             id == NextId
             index == FundingIndex(AccruedFunding(m), isLong)
             new == [user |-> u, marketId |-> m, isLong |-> isLong,
                     sizeUsd |-> size, collateralUsd |-> netUsd,
                     collateralToken |-> t, collateralAmount |-> net,
                     entryPrice |-> entry, lastFundingIndex |-> index,
                     active |-> TRUE]
  <1>1. /\ entry > 0
        /\ id \in PositionIds
        /\ LockCollateral(u, t, amount, 0)
        /\ CreditInsurance(t, cut)
        /\ AccrueFunding(m)
        /\ nextPositionId' = id
        /\ positions' = [positions EXCEPT ![id] = new]
        /\ userMarketPosition' = [userMarketPosition EXCEPT ![u][m] = id]
        /\ IncreaseOI(m, isLong, size)
        /\ TradeOnPool(m, size, isLong, TRUE)
        /\ UNCHANGED <<now, oracleVars, adminVars, outsideVars>>
    BY DEF OpenPosition
  <1>2. size \in Nat
    BY UsdNat, mulFpNat
  <1> HIDE DEF size
  <1>3. entry \in Nat
    <2>1. entry \in Int
      BY <1>2, ExecutionPriceInt DEF TypeOK
    <2> QED
      BY <1>1, <2>1
  <1>4. fee \in Nat
    BY <1>2, TradingFeeTokensNat
  <1> HIDE DEF entry, fee
  <1>5. net \in Nat
    BY <1>4
  <1>6. cut \in Nat
    BY <1>4, calculateInsuranceContributionNat
  <1> HIDE DEF net, cut
  <1>7. netUsd \in Nat
    BY <1>5, UsdNat
  <1>8. index \in Int
    BY AccruedFundingType, FundingIndexInt DEF TypeOK
  <1> HIDE DEF netUsd, index
  <1>9. new \in Position
    BY <1>2, <1>3, <1>5, <1>7, <1>8 DEF Position
  <1> HIDE DEF new, id
  <1>10. positions' \in [PositionIds -> Position]
    BY <1>1, <1>9 DEF TypeOK
  <1>11. nextPositionId' \in 0..MaxPositions
    BY <1>1, CoreAssumption DEF PositionIds
  <1>12. userMarketPosition' \in [Users -> [Markets -> 0..MaxPositions]]
    BY <1>1, <1>11 DEF TypeOK
  <1>13. /\ accounts' \in [Users -> Account]
         /\ vaultBalances' \in [Tokens -> Nat]
         /\ held' \in [Tokens -> Nat]
         /\ KeepsBacking
    BY <1>1, SlotsOfIds, LockCollateralType
  <1>14. insuranceBalances' \in [Tokens -> Nat]
    BY <1>1, <1>6, CreditInsuranceType
  <1>15. fundingStates' \in [Markets -> FundingState]
    BY <1>1, AccrueFundingType
  <1>16. openInterest' \in [Markets -> [long : Nat, short : Nat]]
    BY <1>1, <1>2, OIType
  <1>17. pools' \in [Markets -> [base : Nat, quote : Nat]]
    BY <1>1, <1>2, TradeOnPoolType
  <1>18. UNCHANGED <<now, oracleVars, adminVars, outsideVars>>
    BY <1>1
  <1> QED
    BY <1>10, <1>11, <1>12, <1>13, <1>14, <1>15, <1>16, <1>17, <1>18
       DEF TypeOK, oracleVars, adminVars, outsideVars

\* addCollateral only adds.
LEMMA AddCollateralType ==
    ASSUME TypeOK, NEW id \in PositionIds, NEW amount \in Nat,
           AddCollateral(id, amount)
    PROVE  TypeOK' /\ KeepsBacking
  <1> DEFINE pos == positions[id]
             t == pos.collateralToken
             tokens == pos.collateralAmount + amount
             usd == pos.collateralUsd + normalizeToUsd(t, amount)
             new == [pos EXCEPT !.collateralAmount = tokens,
                                !.collateralUsd = usd]
  <1>1. pos \in Position
    BY DEF TypeOK
  <1>2. /\ LockCollateral(pos.user, t, amount, id)
        /\ positions' = [positions EXCEPT ![id] = new]
        /\ UNCHANGED <<now, oracleVars, pools, fundingStates, adminVars,
                       nextPositionId, userMarketPosition, openInterest,
                       insuranceBalances, outsideVars>>
    BY DEF AddCollateral, TypeOK
  <1>3. t \in Tokens /\ tokens \in Nat
    BY <1>1 DEF Position
  <1>4. usd \in Nat
    BY <1>1, <1>3, UsdNat DEF Position
  <1> HIDE DEF pos, tokens, usd
  <1>5. new \in Position
    BY <1>1, <1>3, <1>4 DEF Position
  <1> HIDE DEF new, t
  <1>6. /\ accounts' \in [Users -> Account]
        /\ vaultBalances' \in [Tokens -> Nat]
        /\ held' \in [Tokens -> Nat]
        /\ KeepsBacking
    BY <1>2, <1>3, SlotsOfIds, LockCollateralType
  <1>7. positions' \in [PositionIds -> Position]
    BY <1>2, <1>5 DEF TypeOK
  <1> QED
    BY <1>2, <1>6, <1>7 DEF TypeOK, oracleVars, adminVars, outsideVars

\* removeCollateral: nothing it subtracts exceeds what is there.
LEMMA RemoveCollateralType ==
    ASSUME TypeOK, NEW id \in PositionIds, NEW amount \in Nat,
           RemoveCollateral(id, amount)
    PROVE  TypeOK' /\ KeepsBacking
  <1> DEFINE pos == Settled(positions[id])
             t == pos.collateralToken
             usd == SatSub(pos.collateralUsd, normalizeToUsd(t, amount))
             tokens == pos.collateralAmount - amount
             new == [pos EXCEPT !.collateralAmount = tokens,
                                !.collateralUsd = usd]
  <1>1. pos \in Position
    BY SettledType DEF TypeOK
  <1>2. /\ amount <= pos.collateralAmount
        /\ positions' = [positions EXCEPT ![id] = new]
        /\ AccrueFunding(pos.marketId)
        /\ PayoutToVault(pos.user, t, amount, 0)
        /\ UNCHANGED <<now, oracleVars, pools, adminVars, nextPositionId,
                       userMarketPosition, openInterest, insuranceBalances,
                       outsideVars>>
    BY DEF RemoveCollateral
  <1> HIDE DEF pos
  <1>3. t \in Tokens /\ tokens \in Nat /\ pos.marketId \in Markets
    BY <1>1, <1>2 DEF Position
  <1>4. usd \in Nat
    <2>1. pos.collateralUsd \in Nat /\ normalizeToUsd(t, amount) \in Nat
      BY <1>1, <1>3, UsdNat DEF Position
    <2> QED
      BY <2>1, SatSubNat
  <1> HIDE DEF tokens, usd
  <1>5. new \in Position
    BY <1>1, <1>3, <1>4 DEF Position
  <1> HIDE DEF new, t
  <1>6. /\ accounts' \in [Users -> Account]
        /\ vaultBalances' \in [Tokens -> Nat]
        /\ held' \in [Tokens -> Nat]
        /\ KeepsBacking
    BY <1>2, <1>3, SlotsOfIds, PayoutToVaultType
  <1>7. positions' \in [PositionIds -> Position]
    BY <1>2, <1>5 DEF TypeOK
  <1>8. fundingStates' \in [Markets -> FundingState]
    BY <1>2, <1>3, AccrueFundingType
  <1> QED
    BY <1>2, <1>6, <1>7, <1>8 DEF TypeOK, oracleVars, adminVars, outsideVars

\* addSize: the saturated fee and the averaged entry price are unsigned.
LEMMA AddSizeType ==
    ASSUME TypeOK, NEW id \in PositionIds, NEW amount \in Nat,
           NEW leverage \in Nat, AddSize(id, amount, leverage)
    PROVE  TypeOK' /\ KeepsBacking
  <1> DEFINE pos == Settled(positions[id])
             m == pos.marketId
             t == pos.collateralToken
             size == mulFp(normalizeToUsd(t, amount), leverage)
             net == SatSub(amount, TradingFeeTokens(t, size, TakerFeeBps))
             entry == calculateAverageEntryPrice(
                         pos.sizeUsd, pos.entryPrice, size, latestPrice[m])
             total == pos.sizeUsd + size
             tokens == pos.collateralAmount + net
             usd == pos.collateralUsd + normalizeToUsd(t, net)
             new == [pos EXCEPT !.entryPrice = entry, !.sizeUsd = total,
                                !.collateralAmount = tokens,
                                !.collateralUsd = usd]
  <1>1. pos \in Position
    BY SettledType DEF TypeOK
  <1>2. /\ LockCollateral(pos.user, t, amount, id)
        /\ positions' = [positions EXCEPT ![id] = new]
        /\ AccrueFunding(m)
        /\ IncreaseOI(m, pos.isLong, size)
        /\ TradeOnPool(m, size, pos.isLong, TRUE)
        /\ UNCHANGED <<now, oracleVars, adminVars, nextPositionId,
                       userMarketPosition, insuranceBalances, outsideVars>>
    BY DEF AddSize
  <1> HIDE DEF pos
  <1>3. t \in Tokens /\ m \in Markets /\ pos.isLong \in BOOLEAN
    BY <1>1 DEF Position
  <1> HIDE DEF t, m
  <1>4. size \in Nat
    BY <1>3, UsdNat, mulFpNat
  <1> HIDE DEF size
  <1>5. net \in Nat
    <2>1. TradingFeeTokens(t, size, TakerFeeBps) \in Nat
      BY <1>3, <1>4, TradingFeeTokensNat
    <2> QED
      BY <2>1, SatSubNat
  <1> HIDE DEF net
  <1>6. entry \in Nat
    <2>1. /\ pos.sizeUsd \in Nat /\ pos.entryPrice \in Nat
          /\ latestPrice[m] \in Nat
      BY <1>1, <1>3 DEF Position, TypeOK
    <2> QED
      BY <1>4, <2>1, calculateAverageEntryPriceNat
  <1>7. total \in Nat /\ tokens \in Nat
    BY <1>1, <1>4, <1>5 DEF Position
  <1>8. usd \in Nat
    BY <1>1, <1>3, <1>5, UsdNat DEF Position
  <1> HIDE DEF entry, total, tokens, usd
  <1>9. new \in Position
    BY <1>1, <1>6, <1>7, <1>8 DEF Position
  <1> HIDE DEF new
  <1>10. /\ accounts' \in [Users -> Account]
         /\ vaultBalances' \in [Tokens -> Nat]
         /\ held' \in [Tokens -> Nat]
         /\ KeepsBacking
    BY <1>2, <1>3, SlotsOfIds, LockCollateralType
  <1>11. positions' \in [PositionIds -> Position]
    BY <1>2, <1>9 DEF TypeOK
  <1>12. fundingStates' \in [Markets -> FundingState]
    BY <1>2, <1>3, AccrueFundingType
  <1>13. openInterest' \in [Markets -> [long : Nat, short : Nat]]
    BY <1>2, <1>3, <1>4, OIType
  <1>14. pools' \in [Markets -> [base : Nat, quote : Nat]]
    BY <1>2, <1>3, <1>4, TradeOnPoolType
  <1> QED
    BY <1>2, <1>10, <1>11, <1>12, <1>13, <1>14
       DEF TypeOK, oracleVars, adminVars, outsideVars

\* What a partial close and a deleveraging release is at most what is there.
LEMMA FractionOfPosition ==
    ASSUME NEW pos \in Position, NEW size \in Nat, size > 0,
           size <= pos.sizeUsd
    PROVE  LET fraction == divFp(size, pos.sizeUsd)
           IN  /\ fraction \in Nat
               /\ pos.sizeUsd - size \in Nat
               /\ mulFp(pos.collateralAmount, fraction) \in Nat
               /\ pos.collateralAmount - mulFp(pos.collateralAmount, fraction)
                     \in Nat
               /\ pos.collateralUsd - mulFp(pos.collateralUsd, fraction) \in Nat
  <1> DEFINE fraction == divFp(size, pos.sizeUsd)
  <1>1. /\ pos.sizeUsd \in Nat \ {0} /\ pos.collateralAmount \in Nat
        /\ pos.collateralUsd \in Nat
    BY DEF Position
  <1>2. fraction \in Nat /\ fraction <= ONE
    BY <1>1, FractionNat
  <1> HIDE DEF fraction
  <1>3. ASSUME NEW whole \in Nat
        PROVE  mulFp(whole, fraction) \in Nat /\ whole - mulFp(whole, fraction) \in Nat
    BY <1>2, ReleasedNat
  <1>4. /\ mulFp(pos.collateralAmount, fraction) \in Nat
        /\ pos.collateralAmount - mulFp(pos.collateralAmount, fraction) \in Nat
        /\ pos.collateralUsd - mulFp(pos.collateralUsd, fraction) \in Nat
    BY <1>1, <1>3
  <1>5. pos.sizeUsd - size \in Nat
    BY <1>1
  <1> QED
    BY <1>2, <1>4, <1>5 DEF fraction

\* The profit or loss of a position is a signed number.
LEMMA PositionPnlInt ==
    ASSUME TypeOK, NEW pos \in Position
    PROVE  calculatePnl(pos, latestPrice[pos.marketId]) \in Int
  <1>1. /\ latestPrice[pos.marketId] \in Int
        /\ pos.sizeUsd \in Nat /\ pos.entryPrice \in Nat
    BY DEF Position, TypeOK
  <1> QED
    BY <1>1, calculatePnlInt

\* partialClose: the released fractions never exceed the whole.
LEMMA PartialCloseType ==
    ASSUME TypeOK, NEW id \in PositionIds, NEW size \in Nat,
           PartialClose(id, size)
    PROVE  TypeOK' /\ KeepsBacking
  <1> DEFINE pos == Settled(positions[id])
             m == pos.marketId
             t == pos.collateralToken
             fraction == divFp(size, pos.sizeUsd)
             price == latestPrice[m]
             whole == calculatePnl(pos, price)
             pnl == mulFpSigned(whole, fraction)
             released == mulFp(pos.collateralAmount, fraction)
             fee == TradingFeeTokens(t, size, TakerFeeBps)
             left == pos.sizeUsd - size
             tokens == pos.collateralAmount - released
             usd == pos.collateralUsd - mulFp(pos.collateralUsd, fraction)
             payout == Payout(t, released, pnl, fee)
             cut == calculateInsuranceContribution(fee)
             new == [pos EXCEPT !.sizeUsd = left, !.collateralAmount = tokens,
                                !.collateralUsd = usd]
  <1>1. pos \in Position
    BY SettledType DEF TypeOK
  <1>2. /\ size > 0 /\ size < pos.sizeUsd
        /\ positions' = [positions EXCEPT ![id] = new]
        /\ AccrueFunding(m)
        /\ CreditInsurance(t, cut)
        /\ DecreaseOI(m, pos.isLong, size)
        /\ TradeOnPool(m, size, pos.isLong, FALSE)
        /\ PayoutToVault(pos.user, t, payout, 0)
        /\ UNCHANGED <<now, oracleVars, adminVars, nextPositionId,
                       userMarketPosition, outsideVars>>
    BY DEF PartialClose
  <1> HIDE DEF pos
  <1>3. t \in Tokens /\ m \in Markets /\ pos.isLong \in BOOLEAN
    BY <1>1 DEF Position
  <1>4. /\ fraction \in Nat /\ released \in Nat /\ left \in Nat
        /\ tokens \in Nat /\ usd \in Nat
    <2>1. size <= pos.sizeUsd
      BY <1>1, <1>2 DEF Position
    <2> QED
      BY <1>1, <1>2, <2>1, FractionOfPosition
  <1>5. whole \in Int
    BY <1>1, PositionPnlInt
  <1> HIDE DEF t, m, price, fraction, whole, released, left, tokens, usd
  <1>6. pnl \in Int
    BY <1>4, <1>5, mulFpSignedInt
  <1>7. fee \in Nat
    BY <1>3, TradingFeeTokensNat
  <1> HIDE DEF pnl, fee
  <1>8. payout \in Nat
    BY <1>3, <1>4, <1>6, <1>7, PayoutNat, CoreAssumption
  <1>9. cut \in Nat
    BY <1>7, calculateInsuranceContributionNat
  <1>10. new \in Position
    BY <1>1, <1>4 DEF Position
  <1> HIDE DEF payout, cut, new
  <1>11. /\ accounts' \in [Users -> Account]
         /\ vaultBalances' \in [Tokens -> Nat]
         /\ held' \in [Tokens -> Nat]
         /\ KeepsBacking
    BY <1>2, <1>3, <1>8, SlotsOfIds, PayoutToVaultType
  <1>12. positions' \in [PositionIds -> Position]
    BY <1>2, <1>10 DEF TypeOK
  <1>13. fundingStates' \in [Markets -> FundingState]
    BY <1>2, <1>3, AccrueFundingType
  <1>14. openInterest' \in [Markets -> [long : Nat, short : Nat]]
    BY <1>2, <1>3, OIType
  <1>15. pools' \in [Markets -> [base : Nat, quote : Nat]]
    BY <1>2, <1>3, TradeOnPoolType
  <1>16. insuranceBalances' \in [Tokens -> Nat]
    BY <1>2, <1>3, <1>9, CreditInsuranceType
  <1> QED
    BY <1>2, <1>11, <1>12, <1>13, <1>14, <1>15, <1>16
       DEF TypeOK, oracleVars, adminVars, outsideVars

\* closePosition: the payout is not negative and the record stays typed.
LEMMA ClosePositionType ==
    ASSUME TypeOK, NEW id \in PositionIds, ClosePosition(id)
    PROVE  TypeOK' /\ KeepsBacking
  <1> DEFINE pos == Settled(positions[id])
             m == pos.marketId
             t == pos.collateralToken
             pnl == calculatePnl(pos, latestPrice[m])
             fee == TradingFeeTokens(t, pos.sizeUsd, TakerFeeBps)
             payout == Payout(t, pos.collateralAmount, pnl, fee)
             cut == calculateInsuranceContribution(fee)
             new == [pos EXCEPT !.active = FALSE]
  <1>1. pos \in Position
    BY SettledType DEF TypeOK
  <1>2. /\ positions' = [positions EXCEPT ![id] = new]
        /\ ForgetEntry(pos.user, m)
        /\ AccrueFunding(m)
        /\ CreditInsurance(t, cut)
        /\ DecreaseOI(m, pos.isLong, pos.sizeUsd)
        /\ TradeOnPool(m, pos.sizeUsd, pos.isLong, FALSE)
        /\ PayoutToVault(pos.user, t, payout, 0)
        /\ UNCHANGED <<now, oracleVars, adminVars, nextPositionId, outsideVars>>
    BY DEF ClosePosition
  <1> HIDE DEF pos
  <1>3. /\ t \in Tokens /\ m \in Markets /\ pos.isLong \in BOOLEAN
        /\ pos.sizeUsd \in Nat /\ pos.collateralAmount \in Nat
    BY <1>1 DEF Position
  <1>4. pnl \in Int
    BY <1>1, PositionPnlInt
  <1>5. new \in Position
    BY <1>1 DEF Position
  <1> HIDE DEF t, m, pnl, new
  <1>6. fee \in Nat
    BY <1>3, TradingFeeTokensNat
  <1> HIDE DEF fee
  <1>7. payout \in Nat
    BY <1>3, <1>4, <1>6, PayoutNat, CoreAssumption
  <1>8. cut \in Nat
    BY <1>6, calculateInsuranceContributionNat
  <1> HIDE DEF payout, cut
  <1>9. /\ accounts' \in [Users -> Account]
        /\ vaultBalances' \in [Tokens -> Nat]
        /\ held' \in [Tokens -> Nat]
        /\ KeepsBacking
    BY <1>2, <1>3, <1>7, SlotsOfIds, PayoutToVaultType
  <1>10. positions' \in [PositionIds -> Position]
    BY <1>2, <1>5 DEF TypeOK
  <1>11. fundingStates' \in [Markets -> FundingState]
    BY <1>2, <1>3, AccrueFundingType
  <1>12. openInterest' \in [Markets -> [long : Nat, short : Nat]]
    BY <1>2, <1>3, OIType
  <1>13. pools' \in [Markets -> [base : Nat, quote : Nat]]
    BY <1>2, <1>3, TradeOnPoolType
  <1>14. insuranceBalances' \in [Tokens -> Nat]
    BY <1>2, <1>3, <1>8, CreditInsuranceType
  <1>15. userMarketPosition' \in [Users -> [Markets -> 0..MaxPositions]]
    BY <1>2, <1>3, ForgetEntryType
  <1> QED
    BY <1>2, <1>9, <1>10, <1>11, <1>12, <1>13, <1>14, <1>15
       DEF TypeOK, oracleVars, adminVars, outsideVars

\* liquidate: reward and remainder leave the tokens held and at least as much
\* leaves the tracked balance.
LEMMA LiquidateType ==
    ASSUME TypeOK, NEW id \in PositionIds, Liquidate(id)
    PROVE  TypeOK' /\ KeepsBacking
  <1> DEFINE pos == Settled(positions[id])
             m == pos.marketId
             t == pos.collateralToken
             equity == Equity(pos, latestPrice[m])
             remaining == IF equity > 0 THEN usdToTokens(t, equity) ELSE 0
             reward == KeeperReward(remaining)
             penalty == LiquidationPenalty(remaining)
             portion == InsurancePortion(remaining)
             remainder == SatSub(remaining, penalty)
             tracked == SatSub(SatSub(SatSub(vaultBalances[t], reward),
                                      remainder), pos.collateralAmount)
             kept == held[t] - reward - remainder
             new == [pos EXCEPT !.active = FALSE]
  <1>1. pos \in Position
    BY SettledType DEF TypeOK
  <1>2. /\ reward + remainder <= held[t]
        /\ positions' = [positions EXCEPT ![id] = new]
        /\ ForgetEntry(pos.user, m)
        /\ AccrueFunding(m)
        /\ DecreaseOI(m, pos.isLong, pos.sizeUsd)
        /\ TradeOnPool(m, pos.sizeUsd, pos.isLong, FALSE)
        /\ CreditInsurance(t, portion)
        /\ held' = [held EXCEPT ![t] = kept]
        /\ vaultBalances' = [vaultBalances EXCEPT ![t] = tracked]
        /\ accounts' = IF remainder = 0 THEN accounts
                       ELSE [accounts EXCEPT ![pos.user] =
                               PayIn(@, t, remainder, id)]
        /\ UNCHANGED <<now, oracleVars, adminVars, nextPositionId, outsideVars>>
    BY DEF Liquidate
  <1> HIDE DEF pos
  <1>3. /\ t \in Tokens /\ m \in Markets /\ pos.isLong \in BOOLEAN
        /\ pos.sizeUsd \in Nat /\ pos.collateralAmount \in Nat
        /\ pos.collateralUsd \in Nat
    BY <1>1 DEF Position
  <1>4. equity \in Int
    BY <1>1, <1>3, PositionPnlInt DEF Equity
  <1>5. new \in Position
    BY <1>1 DEF Position
  <1> HIDE DEF t, m, equity, new
  <1>6. remaining \in Nat
    <2>1. CASE equity > 0
      <3>1. equity \in Nat /\ t \in DOMAIN UsdScale
        BY <1>3, <1>4, <2>1, CoreAssumption
      <3> QED
        BY <2>1, <3>1, usdToTokensNat
    <2>2. CASE ~(equity > 0)
      BY <2>2
    <2> QED
      BY <2>1, <2>2
  <1> HIDE DEF remaining
  <1>7. reward \in Nat /\ penalty \in Nat /\ portion \in Nat
    BY <1>6, LiquidationSplit
  <1> HIDE DEF reward, penalty, portion
  <1>8. remainder \in Nat
    BY <1>6, <1>7, SatSubNat
  <1> HIDE DEF remainder
  <1>9. tracked \in Nat
    <2>1. vaultBalances[t] \in Nat
      BY <1>3 DEF TypeOK
    <2> DEFINE first == SatSub(vaultBalances[t], reward)
               second == SatSub(first, remainder)
    <2>2. first \in Nat
      BY <1>7, <2>1, SatSubNat
    <2> HIDE DEF first
    <2>3. second \in Nat
      BY <1>8, <2>2, SatSubNat
    <2> HIDE DEF second
    <2>4. SatSub(second, pos.collateralAmount) \in Nat
      BY <1>3, <2>3, SatSubNat
    <2> QED
      BY <2>4 DEF first, second
  <1>10. kept \in Nat
    BY <1>2, <1>3, <1>7, <1>8 DEF TypeOK
  <1>11. vaultBalances[t] <= held[t] => tracked <= kept
    <2>1. vaultBalances[t] \in Nat /\ held[t] \in Nat
      BY <1>3 DEF TypeOK
    <2> QED
      BY <1>2, <1>3, <1>7, <1>8, <2>1 DEF SatSub
  <1> HIDE DEF tracked, kept
  <1>12. KeepsBacking
    BY <1>2, <1>11 DEF KeepsBacking, TrackedBacked, TypeOK
  <1>13. accounts' \in [Users -> Account]
    BY <1>2, <1>3, <1>8, SlotsOfIds, PayInUsersType DEF TypeOK
  <1>14. vaultBalances' \in [Tokens -> Nat] /\ held' \in [Tokens -> Nat]
    BY <1>2, <1>9, <1>10 DEF TypeOK
  <1>15. positions' \in [PositionIds -> Position]
    BY <1>2, <1>5 DEF TypeOK
  <1>16. fundingStates' \in [Markets -> FundingState]
    BY <1>2, <1>3, AccrueFundingType
  <1>17. openInterest' \in [Markets -> [long : Nat, short : Nat]]
    BY <1>2, <1>3, OIType
  <1>18. pools' \in [Markets -> [base : Nat, quote : Nat]]
    BY <1>2, <1>3, TradeOnPoolType
  <1>19. insuranceBalances' \in [Tokens -> Nat]
    BY <1>2, <1>3, <1>7, CreditInsuranceType
  <1>20. userMarketPosition' \in [Users -> [Markets -> 0..MaxPositions]]
    BY <1>2, <1>3, ForgetEntryType
  <1> QED
    BY <1>2, <1>13, <1>14, <1>15, <1>16, <1>17, <1>18, <1>19, <1>20, <1>12
       DEF TypeOK, oracleVars, adminVars, outsideVars

\* autoDeleverage: as partialClose, and a full one frees the entry.
LEMMA AutoDeleverageType ==
    ASSUME TypeOK, NEW id \in PositionIds, NEW size \in Nat,
           AutoDeleverage(id, size)
    PROVE  TypeOK' /\ KeepsBacking
  <1> DEFINE pos == positions[id]
             m == pos.marketId
             t == pos.collateralToken
             fraction == divFp(size, pos.sizeUsd)
             pnl == calculatePnl(pos, latestPrice[m])
             released == mulFp(pos.collateralAmount, fraction)
             gain == mulFpSigned(pnl, fraction)
             payout == released + usdToTokens(t, gain)
             left == pos.sizeUsd - size
             tokens == pos.collateralAmount - released
             usd == pos.collateralUsd - mulFp(pos.collateralUsd, fraction)
             open == size < pos.sizeUsd
             new == [pos EXCEPT !.sizeUsd = left, !.collateralAmount = tokens,
                                !.collateralUsd = usd, !.active = open]
  <1>1. pos \in Position
    BY DEF TypeOK
  <1>2. /\ size > 0 /\ size <= pos.sizeUsd /\ pnl > 0
        /\ positions' = [positions EXCEPT ![id] = new]
        /\ IF size < pos.sizeUsd THEN UNCHANGED userMarketPosition
                                 ELSE ForgetEntry(pos.user, m)
        /\ DecreaseOI(m, pos.isLong, size)
        /\ PayoutToVault(pos.user, t, payout, id)
        /\ UNCHANGED <<now, oracleVars, pools, fundingStates, adminVars,
                       nextPositionId, insuranceBalances, outsideVars>>
    BY DEF AutoDeleverage, ADLAllowed
  <1> HIDE DEF pos
  <1>3. t \in Tokens /\ m \in Markets /\ pos.isLong \in BOOLEAN
    BY <1>1 DEF Position
  <1>4. /\ fraction \in Nat /\ released \in Nat /\ left \in Nat
        /\ tokens \in Nat /\ usd \in Nat
    BY <1>1, <1>2, FractionOfPosition
  <1>5. pnl \in Nat
    BY <1>1, <1>2, PositionPnlInt
  <1>6. open \in BOOLEAN
    OBVIOUS
  <1> HIDE DEF t, m, fraction, pnl, released, left, tokens, usd, open
  <1>7. gain \in Nat
    <2>1. /\ pnl \in Int /\ pnl >= 0
          /\ fraction \in Int /\ fraction >= 0
      BY <1>4, <1>5
    <2>2. gain \in Int /\ gain >= 0
      BY <2>1, mulFpSignedInt
    <2> QED
      BY <2>2
  <1> HIDE DEF gain
  <1>8. payout \in Nat
    BY <1>3, <1>4, <1>7, usdToTokensNat, CoreAssumption
  <1>9. new \in Position
    BY <1>1, <1>4, <1>6 DEF Position
  <1> HIDE DEF payout, new
  <1>10. /\ accounts' \in [Users -> Account]
         /\ vaultBalances' \in [Tokens -> Nat]
         /\ held' \in [Tokens -> Nat]
         /\ KeepsBacking
    BY <1>2, <1>3, <1>8, SlotsOfIds, PayoutToVaultType
  <1>11. positions' \in [PositionIds -> Position]
    BY <1>2, <1>9 DEF TypeOK
  <1>12. openInterest' \in [Markets -> [long : Nat, short : Nat]]
    BY <1>2, <1>3, OIType
  <1>13. userMarketPosition' \in [Users -> [Markets -> 0..MaxPositions]]
    BY <1>2, <1>3, ForgetEntryType DEF TypeOK
  <1> QED
    BY <1>2, <1>10, <1>11, <1>12, <1>13
       DEF TypeOK, oracleVars, adminVars, outsideVars

\* Funding, defunding and insurance withdrawals move both balances together.
LEMMA VaultStepType ==
    ASSUME TypeOK, VaultStep
    PROVE  TypeOK' /\ KeepsBacking
  <1>1. PICK t \in Tokens, a \in VaultAmounts :
           FundVault(t, a) \/ DefundVault(t, a) \/ WithdrawInsurance(t, a)
    BY DEF VaultStep
  <1>2. a \in Nat
    BY CoreAssumption
  <1>3. CASE FundVault(t, a)
    BY <1>2, <1>3 DEF FundVault, TypeOK, KeepsBacking, TrackedBacked, oracleVars, adminVars, positionVars
  <1>4. CASE DefundVault(t, a)
    BY <1>2, <1>4 DEF DefundVault, TypeOK, KeepsBacking, TrackedBacked, oracleVars, adminVars, positionVars
  <1>5. CASE WithdrawInsurance(t, a)
    <2>1. SatSub(vaultBalances[t], a) \in Nat
      BY <1>2, SatSubNat DEF TypeOK
    <2>2. vaultBalances[t] <= held[t] => SatSub(vaultBalances[t], a) <= held[t] - a
      BY <1>2, <1>5 DEF WithdrawInsurance, TypeOK, SatSub
    <2>3. TypeOK'
      BY <1>2, <1>5, <2>1 DEF WithdrawInsurance, TypeOK, oracleVars, adminVars,
                              positionVars, outsideVars
    <2>4. KeepsBacking
      BY <1>5, <2>2 DEF WithdrawInsurance, TypeOK, KeepsBacking, TrackedBacked
    <2> QED
      BY <2>3, <2>4
  <1> QED
    BY <1>1, <1>3, <1>4, <1>5

\* A clone starts with nothing.
LEMMA EmptyAccountType ==
    ASSUME NEW exists \in BOOLEAN
    PROVE  EmptyAccount(exists) \in Account
  <1>1. <<>> \in Seq(Slots)
    OBVIOUS
  <1> QED
    BY <1>1 DEF EmptyAccount, Account

\* Tokens between an account and the wallet of its owner.
LEMMA BalanceType ==
    ASSUME TypeOK, NEW u \in Users, NEW t \in Tokens,
           NEW balance \in Nat, NEW wallet \in Nat,
           accounts' = [accounts EXCEPT ![u].balance[t] = balance],
           wallets' = [wallets EXCEPT ![u][t] = wallet],
           UNCHANGED <<now, oracleVars, pools, fundingStates, adminVars,
                       positionVars, vaultVars, treasury>>
    PROVE  TypeOK' /\ KeepsBacking
  <1> DEFINE balances == [accounts[u].balance EXCEPT ![t] = balance]
             new == [accounts[u] EXCEPT !.balance = balances]
             row == [wallets[u] EXCEPT ![t] = wallet]
  <1>1. accounts[u] \in Account
    BY DEF TypeOK
  <1>2. balances \in [Tokens -> Nat]
    BY <1>1 DEF Account
  <1> HIDE DEF balances
  <1>3. new \in Account
    BY <1>1, <1>2 DEF Account
  <1>4. accounts' = [accounts EXCEPT ![u] = new]
    BY <1>1 DEF Account, TypeOK, balances
  <1> HIDE DEF new
  <1>5. accounts' \in [Users -> Account]
    BY <1>3, <1>4 DEF TypeOK
  <1>6. row \in [Tokens -> Nat] /\ wallets' = [wallets EXCEPT ![u] = row]
    BY DEF TypeOK
  <1> HIDE DEF row
  <1>7. wallets' \in [Users -> [Tokens -> Nat]]
    BY <1>6 DEF TypeOK
  <1>8. KeepsBacking
    BY DEF KeepsBacking, TrackedBacked, vaultVars
  <1> QED
    BY <1>5, <1>7, <1>8 DEF TypeOK, oracleVars, adminVars, positionVars, vaultVars

\* What an account calls available is at most what it holds.
LEMMA AvailableNat ==
    ASSUME NEW a \in Account, NEW t \in Tokens
    PROVE  AvailableBalance(a, t) \in Nat /\ AvailableBalance(a, t) <= a.balance[t]
  BY DEF AvailableBalance, Account

\* A withdrawal of what is available leaves an unsigned balance.
LEMMA MoveToWalletType ==
    ASSUME TypeOK, NEW u \in Users, NEW t \in Tokens, NEW amount \in Nat,
           amount <= AvailableBalance(accounts[u], t), MoveToWallet(u, t, amount)
    PROVE  TypeOK' /\ KeepsBacking
  <1> DEFINE balance == accounts[u].balance[t] - amount
             wallet == wallets[u][t] + amount
  <1>1. accounts[u] \in Account
    BY DEF TypeOK
  <1>2. accounts[u].balance[t] \in Nat /\ wallets[u][t] \in Nat
    BY <1>1 DEF Account, TypeOK
  <1>3. balance \in Nat /\ wallet \in Nat
    BY <1>1, <1>2, AvailableNat
  <1>4. /\ accounts' = [accounts EXCEPT ![u].balance[t] = balance]
        /\ wallets' = [wallets EXCEPT ![u][t] = wallet]
        /\ UNCHANGED <<now, oracleVars, pools, fundingStates, adminVars,
                       positionVars, vaultVars, treasury>>
    BY DEF MoveToWallet
  <1> HIDE DEF balance, wallet
  <1> QED
    BY <1>3, <1>4, BalanceType

\* The user's own operations touch neither the diamond's tokens nor its records.
LEMMA AccountStepType ==
    ASSUME TypeOK, AccountStep
    PROVE  TypeOK' /\ KeepsBacking
  <1>1. PICK u \in Users :
           \/ CreateVault(u)
           \/ \E t \in Tokens : \/ \E a \in Amounts : Deposit(u, t, a)
                                \/ \E a \in Amounts : Withdraw(u, t, a)
                                \/ EmergencyWithdraw(u, t)
    BY DEF AccountStep
  <1>2. CASE CreateVault(u)
    <2>1. accounts' \in [Users -> Account]
      BY <1>2, EmptyAccountType DEF CreateVault, TypeOK, KeepsBacking, TrackedBacked
    <2> QED
      BY <1>2, <2>1 DEF CreateVault, TypeOK, KeepsBacking, TrackedBacked, oracleVars, adminVars,
                        positionVars, vaultVars, outsideVars
  <1>3. ASSUME NEW t \in Tokens, NEW a \in Amounts, Deposit(u, t, a)
        PROVE  TypeOK' /\ KeepsBacking
    <2> DEFINE balance == accounts[u].balance[t] + a
               wallet == wallets[u][t] - a
    <2>1. accounts[u].balance[t] \in Nat /\ wallets[u][t] \in Nat /\ a \in Nat
      BY CoreAssumption DEF TypeOK, Account
    <2>2. balance \in Nat /\ wallet \in Nat
      BY <1>3, <2>1 DEF Deposit
    <2>3. /\ accounts' = [accounts EXCEPT ![u].balance[t] = balance]
          /\ wallets' = [wallets EXCEPT ![u][t] = wallet]
          /\ UNCHANGED <<now, oracleVars, pools, fundingStates, adminVars,
                         positionVars, vaultVars, treasury>>
      BY <1>3 DEF Deposit
    <2> HIDE DEF balance, wallet
    <2> QED
      BY <2>2, <2>3, BalanceType
  <1>4. ASSUME NEW t \in Tokens, NEW a \in Amounts, Withdraw(u, t, a)
        PROVE  TypeOK' /\ KeepsBacking
    <2>1. a \in Nat
      BY CoreAssumption
    <2> QED
      BY <1>4, <2>1, MoveToWalletType DEF Withdraw
  <1>5. ASSUME NEW t \in Tokens, EmergencyWithdraw(u, t)
        PROVE  TypeOK' /\ KeepsBacking
    <2> DEFINE amount == AvailableBalance(accounts[u], t)
    <2>1. amount \in Nat /\ amount <= amount
      BY AvailableNat DEF TypeOK
    <2>2. MoveToWallet(u, t, amount)
      BY <1>5 DEF EmergencyWithdraw
    <2> QED
      BY <2>1, <2>2, MoveToWalletType
  <1> QED
    BY <1>1, <1>2, <1>3, <1>4, <1>5

\* Prices, rates, pool syncs and switches keep their types.
LEMMA MarketStepType ==
    ASSUME TypeOK, MarketStep
    PROVE  TypeOK' /\ KeepsBacking
  <1>1. ASSUME NEW m \in Markets, NEW p \in Prices, UpdatePrice(m, p)
        PROVE  TypeOK' /\ KeepsBacking
    <2>1. p \in Nat
      BY CoreAssumption
    <2> QED
      BY <1>1, <2>1 DEF UpdatePrice, TypeOK, KeepsBacking, TrackedBacked, adminVars, positionVars,
                        vaultVars, outsideVars
  <1>2. ASSUME NEW m \in Markets, NEW r \in FundingRates, UpdateFundingRate(m, r)
        PROVE  TypeOK' /\ KeepsBacking
    <2> DEFINE accrued == AccruedFunding(m)
    <2>1. accrued \in FundingState /\ r \in Int
      BY AccruedFundingType, CoreAssumption DEF TypeOK
    <2>2. fundingStates' = [fundingStates EXCEPT ![m] = [accrued EXCEPT !.rate = r]]
      BY <1>2 DEF UpdateFundingRate
    <2> HIDE DEF accrued
    <2>3. [accrued EXCEPT !.rate = r] \in FundingState
      BY <2>1 DEF FundingState
    <2>4. fundingStates' \in [Markets -> FundingState]
      BY <2>2, <2>3 DEF TypeOK
    <2> QED
      BY <1>2, <2>4 DEF UpdateFundingRate, TypeOK, KeepsBacking, TrackedBacked, oracleVars, adminVars,
                        positionVars, vaultVars, outsideVars
  <1>3. ASSUME NEW m \in Markets, SyncToOracle(m)
        PROVE  TypeOK' /\ KeepsBacking
    <2>1. SyncedPool(pools[m], latestPrice[m]) \in [base : Nat, quote : Nat]
      BY SyncedPoolNat DEF TypeOK
    <2>2. pools' \in [Markets -> [base : Nat, quote : Nat]]
      BY <1>3, <2>1 DEF SyncToOracle, TypeOK, KeepsBacking, TrackedBacked
    <2> QED
      BY <1>3, <2>2 DEF SyncToOracle, TypeOK, KeepsBacking, TrackedBacked, oracleVars, adminVars,
                        positionVars, vaultVars, outsideVars
  <1>4. ASSUME NEW m \in Markets, SwitchMarketPause(m)
        PROVE  TypeOK' /\ KeepsBacking
    BY <1>4 DEF SwitchMarketPause, TypeOK, KeepsBacking, TrackedBacked, oracleVars, positionVars,
                vaultVars, outsideVars
  <1>5. ASSUME NEW m \in Markets, SwitchMarketEnabled(m)
        PROVE  TypeOK' /\ KeepsBacking
    BY <1>5 DEF SwitchMarketEnabled, TypeOK, KeepsBacking, TrackedBacked, oracleVars, positionVars,
                vaultVars, outsideVars
  <1>6. CASE SwitchGlobalPause
    BY <1>6 DEF SwitchGlobalPause, TypeOK, KeepsBacking, TrackedBacked, oracleVars, positionVars,
                vaultVars, outsideVars
  <1> QED
    BY <1>1, <1>2, <1>3, <1>4, <1>5, <1>6 DEF MarketStep

-----------------------------------------------------------------------------
\* The freshly deployed protocol is typed.
LEMMA InitType == Init => TypeOK
  <1> SUFFICES ASSUME Init PROVE TypeOK
    OBVIOUS
  <1>1. accounts \in [Users -> Account]
    BY EmptyAccountType DEF Init
  <1>2. EmptyPosition \in Position
    BY CoreAssumption DEF EmptyPosition, Position
  <1>3. positions \in [PositionIds -> Position]
    BY <1>2 DEF Init
  <1>4. fundingStates \in [Markets -> FundingState]
    BY DEF Init, FundingState
  <1>5. userMarketPosition \in [Users -> [Markets -> 0..MaxPositions]]
    BY CoreAssumption DEF Init
  <1>6. nextPositionId \in 0..MaxPositions
    BY CoreAssumption DEF Init
  <1> QED
    BY <1>1, <1>3, <1>4, <1>5, <1>6, CoreAssumption DEF Init, TypeOK

\* Every transaction keeps the types and the backing of the tracked balance.
LEMMA NextType ==
    ASSUME TypeOK, [Next]_vars
    PROVE  TypeOK' /\ KeepsBacking
  <1>1. CASE PositionStep
    <2>1. ASSUME NEW u \in Users, NEW m \in Markets, NEW t \in Tokens,
                 NEW a \in Amounts, NEW l \in Leverages, NEW long \in BOOLEAN,
                 OpenPosition(u, m, t, a, l, long)
          PROVE  TypeOK' /\ KeepsBacking
      <3>1. a \in Nat /\ l \in Nat
        BY CoreAssumption
      <3> QED
        BY <2>1, <3>1, OpenPositionType
    <2>2. ASSUME NEW id \in PositionIds, NEW a \in Amounts, AddCollateral(id, a)
          PROVE  TypeOK' /\ KeepsBacking
      BY <2>2, CoreAssumption, AddCollateralType
    <2>3. ASSUME NEW id \in PositionIds, NEW a \in Amounts, RemoveCollateral(id, a)
          PROVE  TypeOK' /\ KeepsBacking
      BY <2>3, CoreAssumption, RemoveCollateralType
    <2>4. ASSUME NEW id \in PositionIds, NEW a \in Amounts, NEW l \in Leverages,
                 AddSize(id, a, l)
          PROVE  TypeOK' /\ KeepsBacking
      <3>1. a \in Nat /\ l \in Nat
        BY CoreAssumption
      <3> QED
        BY <2>4, <3>1, AddSizeType
    <2>5. ASSUME NEW id \in PositionIds, NEW size \in CloseSizes,
                 PartialClose(id, size)
          PROVE  TypeOK' /\ KeepsBacking
      BY <2>5, CoreAssumption, PartialCloseType
    <2> QED
      BY <1>1, <2>1, <2>2, <2>3, <2>4, <2>5, ClosePositionType DEF PositionStep
  <1>2. CASE LiquidationStep
    <2>1. PICK id \in PositionIds :
             Liquidate(id) \/ \E size \in CloseSizes : AutoDeleverage(id, size)
      BY <1>2 DEF LiquidationStep
    <2>2. ASSUME NEW size \in CloseSizes, AutoDeleverage(id, size)
          PROVE  TypeOK' /\ KeepsBacking
      BY <2>2, CoreAssumption, AutoDeleverageType
    <2> QED
      BY <2>1, <2>2, LiquidateType
  <1>3. CASE Tick
    BY <1>3 DEF Tick, TypeOK, KeepsBacking, TrackedBacked, oracleVars, adminVars, positionVars, vaultVars,
                outsideVars
  <1>4. CASE UNCHANGED vars
    BY <1>4 DEF vars, TypeOK, KeepsBacking, TrackedBacked, oracleVars, adminVars, positionVars, vaultVars,
                outsideVars
  <1> QED
    BY <1>1, <1>2, <1>3, <1>4, VaultStepType, AccountStepType, MarketStepType
       DEF Next

\* Every field keeps its type on every behaviour: no unsigned subtraction of
\* the facets, the accounts or the pool goes below zero, no division is by
\* zero where its result is stored, and ids stay within their range.
THEOREM TypeCorrect == Spec => []TypeOK
  <1>1. Init => TypeOK
    BY InitType
  <1>2. TypeOK /\ [Next]_vars => TypeOK'
    BY NextType
  <1> QED
    BY <1>1, <1>2, PTL DEF Spec

\* The balance of the central vault that the diamond tracks is backed by
\* tokens it holds on every behaviour.  Liquidations count their rewards,
\* remainders and collateral against the same balance, and withdrawals from
\* the insurance fund against both: only the saturating subtraction, the
\* checks against the held tokens and the type invariant together give it.
THEOREM TrackedAlwaysBacked == Spec => []TrackedBacked
  <1> DEFINE Inv == TypeOK /\ TrackedBacked
  <1>1. Init => Inv
    <2>1. Init => TrackedBacked
      BY DEF Init, TrackedBacked
    <2> QED
      BY <2>1, InitType
  <1>2. Inv /\ [Next]_vars => Inv'
    BY NextType DEF KeepsBacking
  <1>3. Inv => TrackedBacked
    OBVIOUS
  <1> QED
    BY <1>1, <1>2, <1>3, PTL DEF Spec

-----------------------------------------------------------------------------
(* What one transaction does to the positions, money aside.                *)

Untouched == UNCHANGED <<positions, nextPositionId, userMarketPosition>>

\* Active position id is written over, owner and market staying the same.
Rewritten(id, new) ==
    /\ positions[id].active
    /\ new \in Position
    /\ new.user = positions[id].user
    /\ new.marketId = positions[id].marketId
    /\ positions' = [positions EXCEPT ![id] = new]
    /\ UNCHANGED nextPositionId

Resized(id, new) ==
    /\ Rewritten(id, new)
    /\ new.active
    /\ UNCHANGED userMarketPosition

Retired(id, new) ==
    /\ Rewritten(id, new)
    /\ ~new.active
    /\ ForgetEntry(positions[id].user, positions[id].marketId)

Opened(u, m, id, new) ==
    /\ userMarketPosition[u][m] # 0 => ~positions[userMarketPosition[u][m]].active
    /\ id = nextPositionId + 1
    /\ new \in Position
    /\ new.user = u /\ new.marketId = m /\ new.active
    /\ positions' = [positions EXCEPT ![id] = new]
    /\ nextPositionId' = id
    /\ userMarketPosition' = [userMarketPosition EXCEPT ![u][m] = id]

LifeStep ==
    \/ Untouched
    \/ \E id \in PositionIds, new \in Position : Resized(id, new)
    \/ \E id \in PositionIds, new \in Position : Retired(id, new)
    \/ \E u \in Users, m \in Markets, id \in PositionIds, new \in Position :
          Opened(u, m, id, new)

\* The record an action writes is a position: it is what TypeOK' says of it.
LEMMA WrittenIsPosition ==
    ASSUME TypeOK, TypeOK', NEW id \in PositionIds, NEW new,
           positions' = [positions EXCEPT ![id] = new]
    PROVE  new \in Position
  <1>1. positions'[id] = new
    BY DEF TypeOK
  <1>2. positions'[id] \in Position
    BY DEF TypeOK
  <1> QED
    BY <1>1, <1>2

\* Every transaction is one of the four kinds of step LifeStep names.
LEMMA LifeOfStep ==
    ASSUME TypeOK, TypeOK', [Next]_vars
    PROVE  LifeStep
  <1>1. ASSUME NEW u \in Users, NEW m \in Markets, NEW t \in Tokens, NEW a,
               NEW l, NEW long \in BOOLEAN, OpenPosition(u, m, t, a, l, long)
        PROVE  LifeStep
    <2> DEFINE id == NextId
               new == positions'[id]
    <2>1. id \in PositionIds
      BY <1>1 DEF OpenPosition
    <2>2. new \in Position
      BY <2>1 DEF TypeOK
    <2>3. new.user = u /\ new.marketId = m /\ new.active
      BY <1>1, <2>1 DEF OpenPosition, TypeOK
    <2>4. positions' = [positions EXCEPT ![id] = new]
      BY <1>1, <2>1 DEF OpenPosition, TypeOK
    <2>5. /\ userMarketPosition[u][m] # 0 =>
                ~positions[userMarketPosition[u][m]].active
          /\ nextPositionId' = id
          /\ userMarketPosition' = [userMarketPosition EXCEPT ![u][m] = id]
      BY <1>1 DEF OpenPosition
    <2>6. id = nextPositionId + 1
      BY DEF NextId
    <2> HIDE DEF id, new
    <2>7. Opened(u, m, id, new)
      BY <2>2, <2>3, <2>4, <2>5, <2>6 DEF Opened
    <2> QED
      BY <2>1, <2>2, <2>7 DEF LifeStep
  <1>2. ASSUME NEW id \in PositionIds, NEW new, positions[id].active,
               positions' = [positions EXCEPT ![id] = new],
               new.user = positions[id].user,
               new.marketId = positions[id].marketId,
               UNCHANGED nextPositionId,
               \/ new.active /\ UNCHANGED userMarketPosition
               \/ ~new.active
                  /\ ForgetEntry(positions[id].user, positions[id].marketId)
        PROVE  LifeStep
    <2>1. new \in Position
      BY <1>2, WrittenIsPosition
    <2>2. Resized(id, new) \/ Retired(id, new)
      BY <1>2, <2>1 DEF Resized, Retired, Rewritten
    <2> QED
      BY <2>1, <2>2 DEF LifeStep
  <1>3. ASSUME NEW id \in PositionIds
        PROVE  LET pos == Settled(positions[id])
               IN  /\ pos \in Position
                   /\ pos.user = positions[id].user
                   /\ pos.marketId = positions[id].marketId
                   /\ pos.active = positions[id].active
    <2>1. positions[id] \in Position
      BY DEF TypeOK
    <2> QED
      BY <2>1, SettledType DEF TypeOK
  <1>4. ASSUME NEW id \in PositionIds, NEW a, AddCollateral(id, a)
        PROVE  LifeStep
    <2> DEFINE new == positions'[id]
    <2>1. positions' = [positions EXCEPT ![id] = new]
      BY <1>4 DEF AddCollateral, TypeOK
    <2>2. /\ new.user = positions[id].user
          /\ new.marketId = positions[id].marketId
          /\ new.active = positions[id].active
      BY <1>4 DEF AddCollateral, TypeOK, Position
    <2> HIDE DEF new
    <2> QED
      BY <1>2, <1>4, <2>1, <2>2 DEF AddCollateral
  <1>5. ASSUME NEW id \in PositionIds, NEW a, RemoveCollateral(id, a)
        PROVE  LifeStep
    <2> DEFINE pos == Settled(positions[id])
               tokens == pos.collateralAmount - a
               usd == SatSub(pos.collateralUsd,
                             normalizeToUsd(pos.collateralToken, a))
               new == [pos EXCEPT !.collateralAmount = tokens,
                                  !.collateralUsd = usd]
    <2>1. positions' = [positions EXCEPT ![id] = new]
      BY <1>5 DEF RemoveCollateral
    <2> HIDE DEF tokens, usd
    <2>2. /\ new.user = pos.user /\ new.marketId = pos.marketId
          /\ new.active = pos.active
      BY <1>3 DEF Position
    <2>3. /\ positions[id].active
          /\ UNCHANGED <<nextPositionId, userMarketPosition>>
      BY <1>5 DEF RemoveCollateral
    <2>4. /\ new.user = positions[id].user
          /\ new.marketId = positions[id].marketId
          /\ new.active
      BY <1>3, <2>2, <2>3
    <2> HIDE DEF new
    <2> QED
      BY <1>2, <2>1, <2>3, <2>4
  <1>6. ASSUME NEW id \in PositionIds, NEW a, NEW l, AddSize(id, a, l)
        PROVE  LifeStep
    <2> DEFINE pos == Settled(positions[id])
               t == pos.collateralToken
               size == mulFp(normalizeToUsd(t, a), l)
               net == SatSub(a, TradingFeeTokens(t, size, TakerFeeBps))
               entry == calculateAverageEntryPrice(
                           pos.sizeUsd, pos.entryPrice, size,
                           latestPrice[pos.marketId])
               total == pos.sizeUsd + size
               tokens == pos.collateralAmount + net
               usd == pos.collateralUsd + normalizeToUsd(t, net)
               new == [pos EXCEPT !.entryPrice = entry, !.sizeUsd = total,
                                  !.collateralAmount = tokens,
                                  !.collateralUsd = usd]
    <2>1. positions' = [positions EXCEPT ![id] = new]
      BY <1>6 DEF AddSize
    <2> HIDE DEF t, size, net, entry, total, tokens, usd
    <2>2. /\ new.user = pos.user /\ new.marketId = pos.marketId
          /\ new.active = pos.active
      BY <1>3 DEF Position
    <2>3. /\ positions[id].active
          /\ UNCHANGED <<nextPositionId, userMarketPosition>>
      BY <1>6 DEF AddSize
    <2>4. /\ new.user = positions[id].user
          /\ new.marketId = positions[id].marketId
          /\ new.active
      BY <1>3, <2>2, <2>3
    <2> HIDE DEF new
    <2> QED
      BY <1>2, <2>1, <2>3, <2>4
  <1>7. ASSUME NEW id \in PositionIds, NEW size, PartialClose(id, size)
        PROVE  LifeStep
    <2> DEFINE pos == Settled(positions[id])
               fraction == divFp(size, pos.sizeUsd)
               left == pos.sizeUsd - size
               tokens == pos.collateralAmount
                            - mulFp(pos.collateralAmount, fraction)
               usd == pos.collateralUsd - mulFp(pos.collateralUsd, fraction)
               new == [pos EXCEPT !.sizeUsd = left,
                                  !.collateralAmount = tokens,
                                  !.collateralUsd = usd]
    <2>1. positions' = [positions EXCEPT ![id] = new]
      BY <1>7 DEF PartialClose
    <2> HIDE DEF fraction, left, tokens, usd
    <2>2. /\ new.user = pos.user /\ new.marketId = pos.marketId
          /\ new.active = pos.active
      BY <1>3 DEF Position
    <2>3. /\ positions[id].active
          /\ UNCHANGED <<nextPositionId, userMarketPosition>>
      BY <1>7 DEF PartialClose
    <2>4. /\ new.user = positions[id].user
          /\ new.marketId = positions[id].marketId
          /\ new.active
      BY <1>3, <2>2, <2>3
    <2> HIDE DEF new
    <2> QED
      BY <1>2, <2>1, <2>3, <2>4
  <1>8. ASSUME NEW id \in PositionIds, ClosePosition(id) \/ Liquidate(id)
        PROVE  LifeStep
    <2> DEFINE pos == Settled(positions[id])
               new == [pos EXCEPT !.active = FALSE]
    <2>1. /\ new.user = pos.user /\ new.marketId = pos.marketId
          /\ ~new.active
      BY <1>3 DEF Position
    <2>2. /\ positions[id].active
          /\ positions' = [positions EXCEPT ![id] = new]
          /\ ForgetEntry(pos.user, pos.marketId)
          /\ UNCHANGED nextPositionId
      BY <1>8 DEF ClosePosition, Liquidate
    <2> HIDE DEF new
    <2> QED
      BY <1>2, <1>3, <2>1, <2>2
  <1>9. ASSUME NEW id \in PositionIds, NEW size, AutoDeleverage(id, size)
        PROVE  LifeStep
    <2> DEFINE pos == positions[id]
               new == positions'[id]
    <2>1. /\ positions' = [positions EXCEPT ![id] = new]
          /\ new.user = pos.user /\ new.marketId = pos.marketId
          /\ new.active = (size < pos.sizeUsd)
      BY <1>9 DEF AutoDeleverage, TypeOK, Position
    <2>2. /\ IF size < pos.sizeUsd THEN UNCHANGED userMarketPosition
                                   ELSE ForgetEntry(pos.user, pos.marketId)
          /\ pos.active
          /\ UNCHANGED nextPositionId
      BY <1>9 DEF AutoDeleverage, ADLAllowed
    <2> HIDE DEF new
    <2> QED
      BY <1>2, <2>1, <2>2
  <1>10. CASE VaultStep
    BY <1>10 DEF VaultStep, FundVault, DefundVault, WithdrawInsurance,
                 positionVars, LifeStep, Untouched
  <1>11. CASE AccountStep
    <2>1. ASSUME NEW u, CreateVault(u)
          PROVE  UNCHANGED positionVars
      BY <2>1 DEF CreateVault
    <2>2. ASSUME NEW u, NEW t, NEW a, Deposit(u, t, a) \/ MoveToWallet(u, t, a)
          PROVE  UNCHANGED positionVars
      BY <2>2, ZenonT(20) DEF Deposit, MoveToWallet
    <2>3. UNCHANGED positionVars
      BY <1>11, <2>1, <2>2 DEF AccountStep, Withdraw, EmergencyWithdraw
    <2> QED
      BY <2>3 DEF positionVars, LifeStep, Untouched
  <1>12. CASE MarketStep
    BY <1>12 DEF MarketStep, UpdatePrice, UpdateFundingRate, SyncToOracle,
                 SwitchMarketPause, SwitchMarketEnabled, SwitchGlobalPause,
                 positionVars, LifeStep, Untouched
  <1>13. CASE Tick \/ UNCHANGED vars
    BY <1>13 DEF Tick, vars, positionVars, LifeStep, Untouched
  <1> QED
    BY <1>1, <1>4, <1>5, <1>6, <1>7, <1>8, <1>9, <1>10, <1>11, <1>12, <1>13
       DEF Next, PositionStep, LiquidationStep

-----------------------------------------------------------------------------
(* Net mode.                                                               *)

LifeInv == TypeOK /\ UnusedIds /\ NetMode

\* At deployment no id has been given out and no entry is set.
LEMMA LifeInvInit == Init => LifeInv
  <1> SUFFICES ASSUME Init PROVE LifeInv
    OBVIOUS
  <1>1. TypeOK
    BY InitType
  <1>2. \A id \in PositionIds : positions[id] = EmptyPosition
    BY DEF Init
  <1>3. EmptyPosition.user = NoUser /\ ~EmptyPosition.active
    BY DEF EmptyPosition
  <1>4. UnusedIds
    BY <1>2, <1>3 DEF UnusedIds
  <1>5. NetMode
    <2>1. \A u \in Users, m \in Markets : userMarketPosition[u][m] = 0
      BY DEF Init
    <2> QED
      BY <1>2, <1>3, <2>1 DEF NetMode
  <1> QED
    BY <1>1, <1>4, <1>5 DEF LifeInv

\* An entry that is set is the id of a position.
LEMMA EntryIsId ==
    ASSUME TypeOK, NEW u \in Users, NEW m \in Markets,
           userMarketPosition[u][m] # 0
    PROVE  userMarketPosition[u][m] \in PositionIds
  <1> DEFINE other == userMarketPosition[u][m]
  <1>1. other \in 0..MaxPositions
    BY DEF TypeOK
  <1>2. other # 0
    OBVIOUS
  <1> HIDE DEF other
  <1>3. other \in PositionIds
    BY <1>1, <1>2, CoreAssumption DEF PositionIds
  <1> QED
    BY <1>3 DEF other

\* An active position has an owner, an id that was given out and its
\* owner's entry; an entry that is set leads to an active position.
LEMMA LifeInvNext ==
    ASSUME LifeInv, TypeOK', LifeStep
    PROVE  LifeInv'
  <1>1. CASE Untouched
    <2>1. UnusedIds'
      BY <1>1 DEF LifeInv, UnusedIds, Untouched
    <2>2. NetMode'
      BY <1>1 DEF LifeInv, NetMode, Untouched
    <2> QED
      BY <2>1, <2>2 DEF LifeInv
  <1>2. ASSUME NEW id \in PositionIds, NEW new \in Position, Rewritten(id, new)
        PROVE  /\ UnusedIds'
               /\ positions'[id] = new
               /\ \A other \in PositionIds \ {id} :
                     positions'[other] = positions[other]
               /\ positions[id].user \in Users
               /\ positions[id].marketId \in Markets
               /\ userMarketPosition[positions[id].user][positions[id].marketId]
                     = id
    <2>1. /\ positions'[id] = new
          /\ \A other \in PositionIds \ {id} :
                positions'[other] = positions[other]
      BY <1>2 DEF Rewritten, LifeInv, TypeOK
    <2>2. positions[id].active
      BY <1>2 DEF Rewritten
    <2>3. /\ positions[id].user \in Users
          /\ userMarketPosition[positions[id].user][positions[id].marketId] = id
      BY <2>2 DEF LifeInv, NetMode
    <2>4. positions[id].marketId \in Markets
      BY DEF LifeInv, TypeOK, Position
    <2>5. UnusedIds'
      <3>1. ~(id > nextPositionId)
        BY <2>2 DEF LifeInv, UnusedIds
      <3> QED
        BY <1>2, <2>1, <3>1 DEF Rewritten, LifeInv, UnusedIds
    <2> QED
      BY <2>1, <2>3, <2>4, <2>5
  <1>3. ASSUME NEW id \in PositionIds, NEW new \in Position, Resized(id, new)
        PROVE  LifeInv'
    <2>1. /\ Rewritten(id, new) /\ new.active
          /\ new.user = positions[id].user
          /\ new.marketId = positions[id].marketId
          /\ positions[id].active
          /\ userMarketPosition' = userMarketPosition
      BY <1>3 DEF Resized, Rewritten
    <2>2. /\ positions'[id] = new
          /\ \A other \in PositionIds \ {id} :
                positions'[other] = positions[other]
      BY <1>2, <2>1
    <2>3. \A other \in PositionIds :
             /\ positions'[other].user = positions[other].user
             /\ positions'[other].marketId = positions[other].marketId
      BY <2>1, <2>2
    <2>4. ASSUME NEW other \in PositionIds, positions'[other].active
          PROVE  /\ positions'[other].user \in Users
                 /\ userMarketPosition'[positions'[other].user]
                                       [positions'[other].marketId] = other
      <3>1. positions[other].active
        BY <2>1, <2>2, <2>4
      <3> QED
        BY <2>1, <2>3, <3>1 DEF LifeInv, NetMode
    <2>5. ASSUME NEW u \in Users, NEW m \in Markets,
                 userMarketPosition'[u][m] # 0
          PROVE  LET pos == positions'[userMarketPosition'[u][m]]
                 IN  pos.active /\ pos.user = u /\ pos.marketId = m
      <3> DEFINE other == userMarketPosition[u][m]
      <3>1. /\ userMarketPosition'[u][m] = other /\ other # 0
            /\ other \in PositionIds
        BY <2>1, <2>5, EntryIsId DEF LifeInv
      <3>2. /\ positions[other].active
            /\ positions[other].user = u /\ positions[other].marketId = m
        BY <3>1 DEF LifeInv, NetMode
      <3> HIDE DEF other
      <3>3. positions'[other].active
        BY <2>1, <2>2, <3>1, <3>2
      <3> QED
        BY <2>3, <3>1, <3>2, <3>3
    <2>6. NetMode'
      BY <2>4, <2>5 DEF NetMode
    <2> QED
      BY <1>2, <2>1, <2>6 DEF LifeInv
  <1>4. ASSUME NEW id \in PositionIds, NEW new \in Position, Retired(id, new)
        PROVE  LifeInv'
    <2> DEFINE owner == positions[id].user
               market == positions[id].marketId
    <2>1. /\ Rewritten(id, new) /\ ~new.active
          /\ positions[id].active
          /\ userMarketPosition' = [userMarketPosition EXCEPT ![owner][market] = 0]
      BY <1>4 DEF Retired, Rewritten, ForgetEntry
    <2>2. /\ owner \in Users /\ market \in Markets
          /\ userMarketPosition[owner][market] = id
      BY <1>2, <2>1
    <2>3. /\ userMarketPosition'[owner][market] = 0
          /\ \A u \in Users, m \in Markets : <<u, m>> # <<owner, market>> =>
                userMarketPosition'[u][m] = userMarketPosition[u][m]
      BY <2>1, <2>2 DEF LifeInv, TypeOK
    <2>4. ASSUME NEW other \in PositionIds, positions'[other].active
          PROVE  /\ positions'[other].user \in Users
                 /\ userMarketPosition'[positions'[other].user]
                                       [positions'[other].marketId] = other
      <3>1. other # id
        BY <1>2, <2>1, <2>4
      <3>2. positions'[other] = positions[other] /\ positions[other].active
        BY <1>2, <2>1, <2>4, <3>1
      <3>3. /\ positions[other].user \in Users
            /\ positions[other].marketId \in Markets
            /\ userMarketPosition[positions[other].user]
                                 [positions[other].marketId] = other
        BY <3>2 DEF LifeInv, NetMode, TypeOK, Position
      <3> QED
        BY <2>2, <2>3, <3>1, <3>2, <3>3
    <2>5. ASSUME NEW u \in Users, NEW m \in Markets,
                 userMarketPosition'[u][m] # 0
          PROVE  LET pos == positions'[userMarketPosition'[u][m]]
                 IN  pos.active /\ pos.user = u /\ pos.marketId = m
      <3> DEFINE other == userMarketPosition[u][m]
      <3>1. userMarketPosition'[u][m] = other /\ other # 0
        BY <2>3, <2>5
      <3>2. /\ positions[other].active
            /\ positions[other].user = u /\ positions[other].marketId = m
        BY <3>1 DEF LifeInv, NetMode
      <3>3. other \in PositionIds
        BY <2>3, <2>5, <3>1, EntryIsId DEF LifeInv
      <3>4. other # id
        BY <2>3, <2>5, <3>2
      <3> QED
        BY <1>2, <2>1, <3>1, <3>2, <3>3, <3>4
    <2>6. NetMode'
      BY <2>4, <2>5 DEF NetMode
    <2> QED
      BY <1>2, <2>1, <2>6 DEF LifeInv
  <1>5. ASSUME NEW u \in Users, NEW m \in Markets, NEW id \in PositionIds,
               NEW new \in Position, Opened(u, m, id, new)
        PROVE  LifeInv'
    <2>1. /\ id = nextPositionId + 1 /\ nextPositionId' = id
          /\ new.user = u /\ new.marketId = m /\ new.active
      BY <1>5 DEF Opened
    <2>2. /\ positions'[id] = new
          /\ \A other \in PositionIds \ {id} :
                positions'[other] = positions[other]
      BY <1>5 DEF Opened, LifeInv, TypeOK
    <2>3. /\ userMarketPosition'[u][m] = id
          /\ \A v \in Users, n \in Markets : <<v, n>> # <<u, m>> =>
                userMarketPosition'[v][n] = userMarketPosition[v][n]
      BY <1>5 DEF Opened, LifeInv, TypeOK
    <2>4. ~positions[id].active /\ nextPositionId \in Nat
      BY <2>1 DEF LifeInv, UnusedIds, TypeOK, PositionIds
    <2>5. userMarketPosition[u][m] = 0
      BY <1>5 DEF Opened, LifeInv, NetMode
    <2>6. UnusedIds'
      <3> SUFFICES ASSUME NEW other \in PositionIds, other > nextPositionId'
                   PROVE  positions'[other].user = NoUser /\ ~positions'[other].active
        BY DEF UnusedIds
      <3>1. other # id /\ other > nextPositionId
        BY <2>1, <2>4 DEF PositionIds
      <3> QED
        BY <2>2, <3>1 DEF LifeInv, UnusedIds
    <2>7. ASSUME NEW other \in PositionIds, positions'[other].active
          PROVE  /\ positions'[other].user \in Users
                 /\ userMarketPosition'[positions'[other].user]
                                       [positions'[other].marketId] = other
      <3>1. CASE other = id
        BY <2>1, <2>2, <2>3, <3>1
      <3>2. CASE other # id
        <4>1. positions'[other] = positions[other] /\ positions[other].active
          BY <2>2, <2>7, <3>2
        <4>2. /\ positions[other].user \in Users
              /\ positions[other].marketId \in Markets
              /\ userMarketPosition[positions[other].user]
                                   [positions[other].marketId] = other
          BY <4>1 DEF LifeInv, NetMode, TypeOK, Position
        <4>3. other # 0
          BY CoreAssumption DEF PositionIds
        <4> QED
          BY <2>3, <2>5, <4>1, <4>2, <4>3
      <3> QED
        BY <3>1, <3>2
    <2>8. ASSUME NEW v \in Users, NEW n \in Markets,
                 userMarketPosition'[v][n] # 0
          PROVE  LET pos == positions'[userMarketPosition'[v][n]]
                 IN  pos.active /\ pos.user = v /\ pos.marketId = n
      <3>1. CASE <<v, n>> = <<u, m>>
        BY <2>1, <2>2, <2>3, <3>1
      <3>2. CASE <<v, n>> # <<u, m>>
        <4> DEFINE other == userMarketPosition[v][n]
        <4>1. userMarketPosition'[v][n] = other /\ other # 0
          BY <2>3, <2>8, <3>2
        <4>2. /\ positions[other].active
              /\ positions[other].user = v /\ positions[other].marketId = n
          BY <4>1 DEF LifeInv, NetMode
        <4>3. other \in PositionIds
          BY <4>1, EntryIsId DEF LifeInv
        <4>4. other # id
          BY <2>4, <4>2
        <4> QED
          BY <2>2, <4>1, <4>2, <4>3, <4>4
      <3> QED
        BY <3>1, <3>2
    <2>9. NetMode'
      BY <2>7, <2>8 DEF NetMode
    <2> QED
      BY <2>6, <2>9 DEF LifeInv
  <1> QED
    BY <1>1, <1>3, <1>4, <1>5 DEF LifeStep

\* The strengthened invariant: NetMode alone is not inductive, since opening
\* under a used id would break it; UnusedIds says the next id is fresh.
LEMMA LifeInvariant == Spec => []LifeInv
  <1>1. LifeInv /\ [Next]_vars => LifeInv'
    <2> SUFFICES ASSUME LifeInv, [Next]_vars PROVE LifeInv'
      OBVIOUS
    <2>1. TypeOK /\ TypeOK'
      BY NextType DEF LifeInv
    <2> QED
      BY <2>1, LifeOfStep, LifeInvNext
  <1> QED
    BY <1>1, LifeInvInit, PTL DEF Spec

\* A user never has two active positions in a market, and the pointer the
\* facets decide by never leads to a position that is closed or another's.
THEOREM NetModeCorrect == Spec => []NetMode
  <1>1. LifeInv => NetMode
    BY DEF LifeInv
  <1> QED
    BY <1>1, LifeInvariant, PTL

\* A record that was closed, liquidated or deleveraged away is never
\* written again.
THEOREM ClosedStaysClosed == Spec => ClosedIsFinal
  <1>1. ASSUME LifeInv, LifeStep, NEW id \in PositionIds,
               positions[id].user # NoUser, ~positions[id].active
        PROVE  positions'[id] = positions[id]
    <2>1. ASSUME NEW other \in PositionIds, NEW new, other # id,
                 positions' = [positions EXCEPT ![other] = new]
          PROVE  positions'[id] = positions[id]
      BY <1>1, <2>1 DEF LifeInv, TypeOK
    <2>2. CASE Untouched
      BY <2>2 DEF Untouched
    <2>3. ASSUME NEW other \in PositionIds, NEW new, Rewritten(other, new)
          PROVE  positions'[id] = positions[id]
      BY <1>1, <2>1, <2>3 DEF Rewritten
    <2>4. ASSUME NEW u, NEW m, NEW other \in PositionIds, NEW new,
                 Opened(u, m, other, new)
          PROVE  positions'[id] = positions[id]
      <3>1. other > nextPositionId
        BY <1>1, <2>4 DEF Opened, LifeInv, TypeOK
      <3>2. other # id
        BY <1>1, <3>1 DEF LifeInv, UnusedIds
      <3> QED
        BY <2>1, <2>4, <3>2 DEF Opened
    <2> QED
      BY <1>1, <2>2, <2>3, <2>4 DEF LifeStep, Resized, Retired
  <1>2. LifeInv /\ [Next]_vars =>
           [\A id \in PositionIds :
               positions[id].user # NoUser /\ ~positions[id].active =>
                  positions'[id] = positions[id]]_vars
    <2> SUFFICES ASSUME LifeInv, [Next]_vars,
                        NEW id \in PositionIds,
                        positions[id].user # NoUser, ~positions[id].active
                 PROVE  positions'[id] = positions[id]
      OBVIOUS
    <2>1. LifeStep
      BY NextType, LifeOfStep DEF LifeInv
    <2> QED
      BY <1>1, <2>1
  <1> QED
    BY <1>2, LifeInvariant, PTL DEF Spec, ClosedIsFinal

-----------------------------------------------------------------------------
(* The funding indices.                                                    *)

\* Settling does not move a position to another market or side.
LEMMA SettledMarket ==
    ASSUME TypeOK, NEW id \in PositionIds
    PROVE  /\ Settled(positions[id]) \in Position
           /\ Settled(positions[id]).marketId \in Markets
           /\ Settled(positions[id]).isLong \in BOOLEAN
           /\ Settled(positions[id]).sizeUsd \in Nat
  <1>1. Settled(positions[id]) \in Position
    <2>1. positions[id] \in Position
      BY DEF TypeOK
    <2> QED
      BY <2>1, SettledType DEF TypeOK
  <1> QED
    BY <1>1 DEF Position

\* Nothing but accrual and the keeper's rate update moves a market's funding.
LEMMA FundingOfStep ==
    ASSUME TypeOK, [Next]_vars
    PROVE  \/ UNCHANGED fundingStates
           \/ \E m \in Markets : \/ AccrueFunding(m)
                                 \/ \E r \in FundingRates : UpdateFundingRate(m, r)
  <1> DEFINE Goal == \/ UNCHANGED fundingStates
                     \/ \E m \in Markets :
                           \/ AccrueFunding(m)
                           \/ \E r \in FundingRates : UpdateFundingRate(m, r)
  <1>1. ASSUME NEW m \in Markets, AccrueFunding(m)
        PROVE  Goal
    BY <1>1
  <1>2. CASE PositionStep
    <2>1. ASSUME NEW u, NEW m \in Markets, NEW t, NEW a, NEW l, NEW long,
                 OpenPosition(u, m, t, a, l, long)
          PROVE  Goal
      BY <1>1, <2>1 DEF OpenPosition
    <2>2. ASSUME NEW id, NEW a, AddCollateral(id, a)
          PROVE  Goal
      BY <2>2 DEF AddCollateral
    <2>3. ASSUME NEW id \in PositionIds, NEW a, RemoveCollateral(id, a)
          PROVE  Goal
      BY <1>1, <2>3, SettledMarket DEF RemoveCollateral
    <2>4. ASSUME NEW id \in PositionIds, NEW a, NEW l, AddSize(id, a, l)
          PROVE  Goal
      BY <1>1, <2>4, SettledMarket DEF AddSize
    <2>5. ASSUME NEW id \in PositionIds, NEW size, PartialClose(id, size)
          PROVE  Goal
      BY <1>1, <2>5, SettledMarket DEF PartialClose
    <2>6. ASSUME NEW id \in PositionIds, ClosePosition(id)
          PROVE  Goal
      BY <1>1, <2>6, SettledMarket DEF ClosePosition
    <2> QED
      BY <1>2, <2>1, <2>2, <2>3, <2>4, <2>5, <2>6 DEF PositionStep
  <1>3. CASE LiquidationStep
    <2>1. ASSUME NEW id \in PositionIds, Liquidate(id)
          PROVE  Goal
      BY <1>1, <2>1, SettledMarket DEF Liquidate
    <2>2. ASSUME NEW id, NEW size, AutoDeleverage(id, size)
          PROVE  Goal
      BY <2>2 DEF AutoDeleverage
    <2> QED
      BY <1>3, <2>1, <2>2 DEF LiquidationStep
  <1>4. CASE VaultStep
    BY <1>4 DEF VaultStep, FundVault, DefundVault, WithdrawInsurance
  <1>5. CASE AccountStep
    <2>1. ASSUME NEW u, CreateVault(u)
          PROVE  UNCHANGED fundingStates
      BY <2>1 DEF CreateVault
    <2>2. ASSUME NEW u, NEW t, NEW a, Deposit(u, t, a) \/ MoveToWallet(u, t, a)
          PROVE  UNCHANGED fundingStates
      BY <2>2, ZenonT(20) DEF Deposit, MoveToWallet
    <2> QED
      BY <1>5, <2>1, <2>2 DEF AccountStep, Withdraw, EmergencyWithdraw
  <1>6. CASE MarketStep
    <2>1. ASSUME NEW m \in Markets, NEW p, UpdatePrice(m, p)
          PROVE  UNCHANGED fundingStates
      BY <2>1 DEF UpdatePrice
    <2>2. ASSUME NEW m \in Markets,
                 \/ SyncToOracle(m) \/ SwitchMarketPause(m)
                 \/ SwitchMarketEnabled(m) \/ SwitchGlobalPause
          PROVE  UNCHANGED fundingStates
      BY <2>2 DEF SyncToOracle, SwitchMarketPause, SwitchMarketEnabled,
                  SwitchGlobalPause
    <2> QED
      BY <1>6, <2>1, <2>2, CoreAssumption DEF MarketStep
  <1>7. CASE Tick \/ UNCHANGED vars
    BY <1>7 DEF Tick, vars
  <1> QED
    BY <1>2, <1>3, <1>4, <1>5, <1>6, <1>7 DEF Next

\* Accrual adds to one index what it takes from the other.
LEMMA AccruedOpposite ==
    ASSUME TypeOK, FundingOpposite, NEW m \in Markets
    PROVE  AccruedFunding(m).short = -AccruedFunding(m).long
  <1> DEFINE fs == fundingStates[m]
             accrued == fs.rate * (now - fs.last)
             long == fs.long + accrued
             short == fs.short - accrued
  <1>1. fs \in FundingState
    BY DEF TypeOK
  <1>2. accrued \in Int
    <2>1. fs.rate \in Int /\ now - fs.last \in Int
      BY <1>1 DEF FundingState, TypeOK
    <2> QED
      BY <2>1, MulInt
  <1>3. fs.short = -fs.long
    BY DEF FundingOpposite
  <1>4. AccruedFunding(m) =
          IF fs.last = 0 THEN [fs EXCEPT !.last = now]
          ELSE [fs EXCEPT !.long = long, !.short = short, !.last = now]
    BY DEF AccruedFunding
  <1> HIDE DEF fs, accrued
  <1>5. short = -long /\ long \in Int
    BY <1>1, <1>2, <1>3 DEF FundingState
  <1> HIDE DEF long, short
  <1> QED
    BY <1>1, <1>3, <1>4, <1>5 DEF FundingState

\* However rates change and whoever triggers the accrual, the index longs
\* pay by is the negated index shorts are paid by.
THEOREM FundingAlwaysOpposite == Spec => []FundingOpposite
  <1> DEFINE Inv == TypeOK /\ FundingOpposite
  <1>1. Init => Inv
    <2>1. Init => FundingOpposite
      BY DEF Init, FundingOpposite
    <2> QED
      BY <2>1, InitType
  <1>2. Inv /\ [Next]_vars => Inv'
    <2> SUFFICES ASSUME TypeOK, FundingOpposite, [Next]_vars
                 PROVE  FundingOpposite'
      BY NextType
    <2>1. CASE UNCHANGED fundingStates
      BY <2>1 DEF FundingOpposite
    <2>2. ASSUME NEW m \in Markets, NEW new,
                 new.short = -new.long,
                 fundingStates' = [fundingStates EXCEPT ![m] = new]
          PROVE  FundingOpposite'
      BY <2>2 DEF FundingOpposite, TypeOK
    <2>3. ASSUME NEW m \in Markets, AccrueFunding(m)
          PROVE  FundingOpposite'
      BY <2>2, <2>3, AccruedOpposite DEF AccrueFunding
    <2>4. ASSUME NEW m \in Markets, NEW r, UpdateFundingRate(m, r)
          PROVE  FundingOpposite'
      <3> DEFINE accrued == AccruedFunding(m)
                 new == [accrued EXCEPT !.rate = r]
      <3>1. accrued \in FundingState
        BY AccruedFundingType DEF TypeOK
      <3>2. accrued.short = -accrued.long
        BY AccruedOpposite
      <3>3. fundingStates' = [fundingStates EXCEPT ![m] = new]
        BY <2>4 DEF UpdateFundingRate
      <3> HIDE DEF accrued
      <3>4. new.short = -new.long
        BY <3>1, <3>2 DEF FundingState
      <3> HIDE DEF new
      <3> QED
        BY <2>2, <3>3, <3>4
    <2> QED
      BY <2>1, <2>3, <2>4, FundingOfStep
  <1>3. Inv => FundingOpposite
    OBVIOUS
  <1> QED
    BY <1>1, <1>2, <1>3, PTL DEF Spec

-----------------------------------------------------------------------------
(* The pause.                                                              *)

\* Open interest moves on one side of one market, up only if not paused.
OIStep ==
    \/ UNCHANGED openInterest
    \/ \E m \in Markets, long \in BOOLEAN, size \in Nat :
          \/ NotPaused(m) /\ IncreaseOI(m, long, size)
          \/ DecreaseOI(m, long, size)

\* Only what is guarded by the pause adds open interest.
LEMMA OIOfStep ==
    ASSUME TypeOK, [Next]_vars
    PROVE  OIStep
  <1>1. ASSUME NEW m \in Markets, NEW long \in BOOLEAN, NEW size \in Nat,
               \/ NotPaused(m) /\ IncreaseOI(m, long, size)
               \/ DecreaseOI(m, long, size)
        PROVE  OIStep
    BY <1>1 DEF OIStep
  <1>2. ASSUME NEW t \in Tokens, NEW a \in Amounts, NEW l \in Leverages
        PROVE  mulFp(normalizeToUsd(t, a), l) \in Nat
    <2>1. a \in Nat /\ l \in Nat
      BY CoreAssumption
    <2> QED
      BY <2>1, UsdNat, mulFpNat
  <1>3. CASE PositionStep
    <2>1. ASSUME NEW u, NEW m \in Markets, NEW t \in Tokens, NEW a \in Amounts,
                 NEW l \in Leverages, NEW long \in BOOLEAN,
                 OpenPosition(u, m, t, a, l, long)
          PROVE  OIStep
      <3> DEFINE size == mulFp(normalizeToUsd(t, a), l)
      <3>1. NotPaused(m) /\ IncreaseOI(m, long, size)
        BY <2>1 DEF OpenPosition
      <3>2. size \in Nat
        BY <1>2
      <3> HIDE DEF size
      <3> QED
        BY <1>1, <3>1, <3>2
    <2>2. ASSUME NEW id, NEW a, AddCollateral(id, a) \/ RemoveCollateral(id, a)
          PROVE  OIStep
      BY <2>2 DEF AddCollateral, RemoveCollateral, OIStep
    <2>3. ASSUME NEW id \in PositionIds, NEW a \in Amounts, NEW l \in Leverages,
                 AddSize(id, a, l)
          PROVE  OIStep
      <3> DEFINE pos == Settled(positions[id])
                 size == mulFp(normalizeToUsd(pos.collateralToken, a), l)
      <3>1. /\ NotPaused(pos.marketId)
            /\ IncreaseOI(pos.marketId, pos.isLong, size)
        BY <2>3 DEF AddSize
      <3>2. pos.collateralToken \in Tokens
        BY SettledMarket DEF Position
      <3> HIDE DEF pos
      <3>3. size \in Nat
        BY <1>2, <3>2
      <3> HIDE DEF size
      <3> QED
        BY <1>1, <3>1, <3>3, SettledMarket DEF pos
    <2>4. ASSUME NEW id \in PositionIds, NEW size \in CloseSizes,
                 PartialClose(id, size)
          PROVE  OIStep
      BY <1>1, <2>4, SettledMarket, CoreAssumption DEF PartialClose
    <2>5. ASSUME NEW id \in PositionIds, ClosePosition(id)
          PROVE  OIStep
      BY <1>1, <2>5, SettledMarket DEF ClosePosition
    <2> QED
      BY <1>3, <2>1, <2>2, <2>3, <2>4, <2>5 DEF PositionStep
  <1>4. CASE LiquidationStep
    <2>1. ASSUME NEW id \in PositionIds, Liquidate(id)
          PROVE  OIStep
      BY <1>1, <2>1, SettledMarket DEF Liquidate
    <2>2. ASSUME NEW id \in PositionIds, NEW size \in CloseSizes,
                 AutoDeleverage(id, size)
          PROVE  OIStep
      <3>1. positions[id].marketId \in Markets /\ positions[id].isLong \in BOOLEAN
        BY DEF TypeOK, Position
      <3> QED
        BY <1>1, <2>2, <3>1, CoreAssumption DEF AutoDeleverage
    <2> QED
      BY <1>4, <2>1, <2>2 DEF LiquidationStep
  <1>5. CASE VaultStep
    BY <1>5 DEF VaultStep, FundVault, DefundVault, WithdrawInsurance,
                positionVars, OIStep
  <1>6. CASE AccountStep
    <2>1. ASSUME NEW u, CreateVault(u)
          PROVE  UNCHANGED positionVars
      BY <2>1 DEF CreateVault
    <2>2. ASSUME NEW u, NEW t, NEW a, Deposit(u, t, a) \/ MoveToWallet(u, t, a)
          PROVE  UNCHANGED positionVars
      BY <2>2, ZenonT(20) DEF Deposit, MoveToWallet
    <2>3. UNCHANGED positionVars
      BY <1>6, <2>1, <2>2 DEF AccountStep, Withdraw, EmergencyWithdraw
    <2> QED
      BY <2>3 DEF positionVars, OIStep
  <1>7. CASE MarketStep
    BY <1>7 DEF MarketStep, UpdatePrice, UpdateFundingRate, SyncToOracle,
                SwitchMarketPause, SwitchMarketEnabled, SwitchGlobalPause,
                positionVars, OIStep
  <1>8. CASE Tick \/ UNCHANGED vars
    BY <1>8 DEF Tick, vars, positionVars, OIStep
  <1> QED
    BY <1>3, <1>4, <1>5, <1>6, <1>7, <1>8 DEF Next

\* Under a pause such a step adds nothing.
LEMMA PausedFalls ==
    ASSUME TypeOK, OIStep, NEW m \in Markets, NEW long \in BOOLEAN,
           globalPaused \/ marketPaused[m]
    PROVE  openInterest'[m][OISide(long)] <= openInterest[m][OISide(long)]
  <1> DEFINE side == OISide(long)
             old == openInterest[m][side]
  <1>1. old \in Nat /\ side \in {"long", "short"}
    BY DEF TypeOK, OISide
  <1>2. CASE UNCHANGED openInterest
    BY <1>1, <1>2
  <1>3. ASSUME NEW n \in Markets, NEW isLong \in BOOLEAN, NEW size \in Nat,
               NotPaused(n) /\ IncreaseOI(n, isLong, size)
        PROVE  openInterest'[m][side] <= old
    <2>1. n # m
      BY <1>3 DEF NotPaused
    <2>2. openInterest'[m] = openInterest[m]
      BY <1>3, <2>1 DEF IncreaseOI, TypeOK
    <2> QED
      BY <1>1, <2>2
  <1>4. ASSUME NEW n \in Markets, NEW isLong \in BOOLEAN, NEW size \in Nat,
               DecreaseOI(n, isLong, size)
        PROVE  openInterest'[m][side] <= old
    <2> DEFINE there == OISide(isLong)
               less == SatSub(openInterest[n][there], size)
    <2>1. openInterest' = [openInterest EXCEPT ![n][there] = less]
      BY <1>4 DEF DecreaseOI
    <2>2. m = n /\ side = there => less <= old
      BY <1>1, SatSubNat
    <2> HIDE DEF less, there, side
    <2>3. CASE m = n /\ side = there
      <3>1. openInterest'[m][side] = less
        BY <1>1, <2>1, <2>3 DEF TypeOK
      <3> QED
        BY <2>2, <2>3, <3>1
    <2>4. CASE ~(m = n /\ side = there)
      <3>1. openInterest'[m][side] = openInterest[m][side]
        BY <1>1, <2>1, <2>4 DEF TypeOK
      <3> QED
        BY <1>1, <3>1
    <2> QED
      BY <2>3, <2>4
  <1> QED
    BY <1>2, <1>3, <1>4 DEF OIStep

\* While the protocol or a market is paused its open interest only shrinks.
THEOREM PauseStopsExposure == Spec => PausedNoNewExposure
  <1> DEFINE Falls == \A m \in Markets, long \in BOOLEAN :
                         globalPaused \/ marketPaused[m] =>
                            openInterest'[m][OISide(long)]
                               <= openInterest[m][OISide(long)]
  <1>1. TypeOK /\ [Next]_vars => [Falls]_vars
    BY OIOfStep, PausedFalls
  <1> QED
    BY <1>1, TypeCorrect, PTL DEF Spec, PausedNoNewExposure, Falls

-----------------------------------------------------------------------------
(* Open interest.                                                          *)

Weight(pos) == IF pos.active THEN pos.sizeUsd ELSE 0

\* One record is written and the open interest of its side follows; an
\* active record stays on its side.
Reweighed(id, new, size) ==
    /\ positions' = [positions EXCEPT ![id] = new]
    /\ positions[id].active => /\ new.marketId = positions[id].marketId
                               /\ new.isLong = positions[id].isLong
    /\ \/ Weight(new) = Weight(positions[id]) /\ UNCHANGED openInterest
       \/ /\ Weight(new) = Weight(positions[id]) + size
          /\ IncreaseOI(new.marketId, new.isLong, size)
       \/ /\ Weight(positions[id]) = Weight(new) + size
          /\ DecreaseOI(new.marketId, new.isLong, size)

CountStep ==
    \/ UNCHANGED <<positions, openInterest>>
    \/ \E id \in PositionIds, new \in Position, size \in Nat :
          Reweighed(id, new, size)

\* An open interest and the size it stands for grow, or shrink, together.
Tracks(oi, next, total, left) ==
    \E size \in Nat :
       \/ next = oi + size /\ left = total + size
       \/ next = SatSub(oi, size) /\ size <= total /\ left = total - size

\* The share of a position, by its weight.
LEMMA ShareOfWeight ==
    ASSUME NEW pos \in Position, NEW m \in Markets, NEW long \in BOOLEAN
    PROVE  /\ Share(pos, m, long) = IF pos.marketId = m /\ pos.isLong = long
                                    THEN Weight(pos) ELSE 0
           /\ Share(pos, m, long) \in Nat
           /\ Weight(pos) \in Nat
  BY DEF Share, Weight, Position

\* The total of a side is a number.
LEMMA ActiveSizeNat ==
    ASSUME TypeOK, NEW m \in Markets, NEW long \in BOOLEAN
    PROVE  ActiveSize(positions, m, long) \in Nat
  <1>1. \A i \in PositionIds : positions[i] \in Position
    BY DEF TypeOK
  <1>2. \A i \in PositionIds : Share(positions[i], m, long) \in Nat
    BY <1>1, ShareOfWeight
  <1>3. IsFiniteSet(PositionIds)
    BY FS_Interval, CoreAssumption DEF PositionIds
  <1> DEFINE f == [i \in PositionIds |-> Share(positions[i], m, long)]
  <1>4. ActiveSize(positions, m, long) = SumFunctionOnSet(f, PositionIds)
    BY DEF ActiveSize, SumFunction
  <1>5. \A i \in PositionIds : f[i] \in Nat
    BY <1>2
  <1> HIDE DEF f
  <1> QED
    BY <1>3, <1>4, <1>5, SumNat

\* Writing one record changes the total of a side by what the record was
\* and is worth there.
LEMMA TotalOfWrite ==
    ASSUME TypeOK, NEW id \in PositionIds, NEW new \in Position,
           positions' = [positions EXCEPT ![id] = new],
           NEW m \in Markets, NEW long \in BOOLEAN
    PROVE  /\ ActiveSize(positions, m, long) \in Nat
           /\ Share(positions[id], m, long) <= ActiveSize(positions, m, long)
           /\ ActiveSize(positions', m, long) =
                 ActiveSize(positions, m, long)
                    - Share(positions[id], m, long) + Share(new, m, long)
  <1> DEFINE f == [i \in PositionIds |-> Share(positions[i], m, long)]
             e == [i \in PositionIds |-> Share(positions'[i], m, long)]
  <1>1. IsFiniteSet(PositionIds)
    BY FS_Interval, CoreAssumption DEF PositionIds
  <1>2. /\ positions'[id] = new
        /\ \A i \in PositionIds : positions'[i] \in Position
        /\ \A i \in PositionIds : positions[i] \in Position
        /\ \A i \in PositionIds \ {id} : positions'[i] = positions[i]
    BY DEF TypeOK
  <1>3. \A i \in PositionIds : f[i] \in Nat /\ e[i] \in Nat
    BY <1>2, ShareOfWeight
  <1>4. \A i \in PositionIds \ {id} : e[i] = f[i]
    BY <1>2
  <1>5. f[id] = Share(positions[id], m, long) /\ e[id] = Share(new, m, long)
    BY <1>2
  <1>6. /\ ActiveSize(positions, m, long) = SumFunctionOnSet(f, PositionIds)
        /\ ActiveSize(positions', m, long) = SumFunctionOnSet(e, PositionIds)
    BY DEF ActiveSize, SumFunction
  <1> HIDE DEF f, e
  <1>7. /\ SumFunctionOnSet(f, PositionIds) \in Nat
        /\ f[id] <= SumFunctionOnSet(f, PositionIds)
        /\ SumFunctionOnSet(e, PositionIds) =
              SumFunctionOnSet(f, PositionIds) - f[id] + e[id]
    <2>1. DifferAt(f, e, id, PositionIds)
      BY <1>3, <1>4 DEF DifferAt
    <2> QED
      BY <1>1, <2>1, SumUpdate
  <1> QED
    BY <1>5, <1>6, <1>7

\* What a step of CountStep does to one side of one market.
LEMMA SideOfCount ==
    ASSUME TypeOK, CountStep, NEW m \in Markets, NEW long \in BOOLEAN
    PROVE  Tracks(openInterest[m][OISide(long)],
                  openInterest'[m][OISide(long)],
                  ActiveSize(positions, m, long),
                  ActiveSize(positions', m, long))
  <1> DEFINE oi == openInterest[m][OISide(long)]
             next == openInterest'[m][OISide(long)]
             total == ActiveSize(positions, m, long)
             left == ActiveSize(positions', m, long)
  <1>1. oi \in Nat
    BY DEF TypeOK, OISide
  <1>2. ASSUME NEW id \in PositionIds, NEW new \in Position, NEW size \in Nat,
               Reweighed(id, new, size)
        PROVE  Tracks(oi, next, total, left)
    <2> DEFINE old == positions[id]
               there == new.marketId = m /\ new.isLong = long
    <2>1. old \in Position
      BY DEF TypeOK
    <2>2. /\ total \in Nat /\ Share(old, m, long) <= total
          /\ left = total - Share(old, m, long) + Share(new, m, long)
      BY <1>2, TotalOfWrite DEF Reweighed
    <2>3. /\ Share(new, m, long) = (IF there THEN Weight(new) ELSE 0)
          /\ Weight(new) \in Nat /\ Weight(old) \in Nat
      BY <2>1, ShareOfWeight
    <2>4. Share(old, m, long) = (IF there THEN Weight(old) ELSE 0)
      BY <1>2, <2>1 DEF Reweighed, Share, Weight
    <2>5. /\ new.marketId \in Markets /\ new.isLong \in BOOLEAN
          /\ OISide(long) \in {"long", "short"}
          /\ OISide(new.isLong) = OISide(long) <=> new.isLong = long
      BY DEF Position, OISide
    <2>6. CASE Weight(new) = Weight(old) /\ UNCHANGED openInterest
      <3>1. left = total + 0 /\ next = oi + 0
        BY <1>1, <2>2, <2>3, <2>4, <2>6
      <3> QED
        BY <3>1 DEF Tracks
    <2>7. CASE /\ Weight(new) = Weight(old) + size
               /\ IncreaseOI(new.marketId, new.isLong, size)
      <3> DEFINE more == openInterest[new.marketId][OISide(new.isLong)] + size
      <3>1. openInterest' =
               [openInterest EXCEPT ![new.marketId][OISide(new.isLong)] = more]
        BY <2>7 DEF IncreaseOI
      <3> HIDE DEF more
      <3>2. CASE there
        <4>1. left = total + size
          BY <2>2, <2>3, <2>4, <2>7, <3>2
        <4>2. next = oi + size
          <5>1. next = more
            BY <2>5, <3>1, <3>2 DEF TypeOK
          <5> QED
            BY <3>2, <5>1 DEF more
        <4> QED
          BY <4>1, <4>2 DEF Tracks
      <3>3. CASE ~there
        <4>1. left = total + 0
          BY <2>2, <2>3, <2>4, <3>3
        <4>2. next = oi
          BY <2>5, <3>1, <3>3 DEF TypeOK
        <4>3. next = oi + 0
          BY <1>1, <4>2
        <4> QED
          BY <4>1, <4>3 DEF Tracks
      <3> QED
        BY <3>2, <3>3
    <2>8. CASE /\ Weight(old) = Weight(new) + size
               /\ DecreaseOI(new.marketId, new.isLong, size)
      <3> DEFINE less == SatSub(openInterest[new.marketId][OISide(new.isLong)],
                                size)
      <3>1. openInterest' =
               [openInterest EXCEPT ![new.marketId][OISide(new.isLong)] = less]
        BY <2>8 DEF DecreaseOI
      <3> HIDE DEF less
      <3>2. CASE there
        <4>1. left = total - size /\ size <= total
          BY <2>2, <2>3, <2>4, <2>8, <3>2
        <4>2. next = SatSub(oi, size)
          <5>1. next = less
            BY <2>5, <3>1, <3>2 DEF TypeOK
          <5> QED
            BY <3>2, <5>1 DEF less
        <4> QED
          BY <4>1, <4>2 DEF Tracks
      <3>3. CASE ~there
        <4>1. left = total + 0
          BY <2>2, <2>3, <2>4, <3>3
        <4>2. next = oi
          BY <2>5, <3>1, <3>3 DEF TypeOK
        <4>3. next = oi + 0
          BY <1>1, <4>2
        <4> QED
          BY <4>1, <4>3 DEF Tracks
      <3> QED
        BY <3>2, <3>3
    <2> HIDE DEF there, old
    <2> QED
      BY <1>2, <2>6, <2>7, <2>8 DEF Reweighed, old
  <1>3. CASE UNCHANGED <<positions, openInterest>>
    <2>1. total \in Nat
      BY ActiveSizeNat
    <2>2. left = total + 0 /\ next = oi + 0
      BY <1>1, <1>3, <2>1
    <2> QED
      BY <2>2 DEF Tracks
  <1> QED
    BY <1>2, <1>3 DEF CountStep

\* Every transaction counts what it does to the size of a position.
LEMMA CountOfStep ==
    ASSUME LifeInv, TypeOK', [Next]_vars
    PROVE  CountStep
  <1> USE DEF LifeInv
  <1>1. ASSUME NEW id \in PositionIds, NEW new, NEW size \in Nat,
               Reweighed(id, new, size)
        PROVE  CountStep
    <2>1. new \in Position
      BY <1>1, WrittenIsPosition DEF Reweighed
    <2> QED
      BY <1>1, <2>1 DEF CountStep
  <1>2. ASSUME NEW t \in Tokens, NEW a \in Amounts, NEW l \in Leverages
        PROVE  mulFp(normalizeToUsd(t, a), l) \in Nat
    <2>1. a \in Nat /\ l \in Nat
      BY CoreAssumption
    <2> QED
      BY <2>1, UsdNat, mulFpNat
  <1>3. ASSUME NEW id \in PositionIds
        PROVE  LET pos == Settled(positions[id]) old == positions[id]
               IN  /\ pos \in Position /\ old \in Position
                   /\ pos.marketId = old.marketId /\ pos.isLong = old.isLong
                   /\ pos.sizeUsd = old.sizeUsd /\ pos.active = old.active
                   /\ pos.sizeUsd \in Nat /\ pos.collateralToken \in Tokens
    <2>1. positions[id] \in Position
      BY DEF TypeOK
    <2>2. Settled(positions[id]) \in Position
      BY <2>1, SettledType DEF TypeOK
    <2> QED
      BY <2>1, <2>2, SettledType DEF TypeOK, Position
  <1>4. ASSUME NEW u \in Users, NEW m \in Markets, NEW t \in Tokens,
               NEW a \in Amounts, NEW l \in Leverages, NEW long \in BOOLEAN,
               OpenPosition(u, m, t, a, l, long)
        PROVE  CountStep
    <2> DEFINE id == NextId
               size == mulFp(normalizeToUsd(t, a), l)
               new == positions'[id]
    <2>1. /\ id \in PositionIds
          /\ IncreaseOI(m, long, size)
      BY <1>4 DEF OpenPosition
    <2>2. /\ new.active /\ new.marketId = m /\ new.isLong = long
          /\ new.sizeUsd = size
          /\ positions' = [positions EXCEPT ![id] = new]
      BY <1>4, <2>1 DEF OpenPosition, TypeOK
    <2>3. ~positions[id].active
      <3>1. id > nextPositionId
        BY DEF NextId, TypeOK
      <3> QED
        BY <2>1, <3>1 DEF UnusedIds
    <2>4. size \in Nat
      BY <1>2
    <2> HIDE DEF id, size, new
    <2>5. Reweighed(id, new, size)
      BY <2>1, <2>2, <2>3, <2>4 DEF Reweighed, Weight
    <2> QED
      BY <1>1, <2>1, <2>4, <2>5
  <1>5. ASSUME NEW id \in PositionIds, NEW a, AddCollateral(id, a)
        PROVE  CountStep
    <2> DEFINE new == positions'[id]
    <2>1. /\ positions' = [positions EXCEPT ![id] = new]
          /\ UNCHANGED openInterest
      BY <1>5 DEF AddCollateral, TypeOK
    <2>2. /\ new.marketId = positions[id].marketId
          /\ new.isLong = positions[id].isLong
          /\ new.active = positions[id].active
          /\ new.sizeUsd = positions[id].sizeUsd
      BY <1>5 DEF AddCollateral, TypeOK, Position
    <2> HIDE DEF new
    <2>3. Reweighed(id, new, 0)
      BY <2>1, <2>2 DEF Reweighed, Weight
    <2> QED
      BY <1>1, <2>3
  <1>6. ASSUME NEW id \in PositionIds, NEW a, RemoveCollateral(id, a)
        PROVE  CountStep
    <2> DEFINE pos == Settled(positions[id])
               tokens == pos.collateralAmount - a
               usd == SatSub(pos.collateralUsd,
                             normalizeToUsd(pos.collateralToken, a))
               new == [pos EXCEPT !.collateralAmount = tokens,
                                  !.collateralUsd = usd]
    <2>1. /\ positions' = [positions EXCEPT ![id] = new]
          /\ UNCHANGED openInterest
      BY <1>6 DEF RemoveCollateral
    <2> HIDE DEF tokens, usd
    <2>2. /\ new.marketId = pos.marketId /\ new.isLong = pos.isLong
          /\ new.active = pos.active /\ new.sizeUsd = pos.sizeUsd
      BY <1>3 DEF Position
    <2> HIDE DEF new
    <2>3. Reweighed(id, new, 0)
      BY <1>3, <2>1, <2>2 DEF Reweighed, Weight
    <2> QED
      BY <1>1, <2>3
  <1>7. ASSUME NEW id \in PositionIds, NEW a \in Amounts, NEW l \in Leverages,
               AddSize(id, a, l)
        PROVE  CountStep
    <2> DEFINE pos == Settled(positions[id])
               t == pos.collateralToken
               size == mulFp(normalizeToUsd(t, a), l)
               net == SatSub(a, TradingFeeTokens(t, size, TakerFeeBps))
               entry == calculateAverageEntryPrice(
                           pos.sizeUsd, pos.entryPrice, size,
                           latestPrice[pos.marketId])
               total == pos.sizeUsd + size
               tokens == pos.collateralAmount + net
               usd == pos.collateralUsd + normalizeToUsd(t, net)
               new == [pos EXCEPT !.entryPrice = entry, !.sizeUsd = total,
                                  !.collateralAmount = tokens,
                                  !.collateralUsd = usd]
    <2>1. /\ positions' = [positions EXCEPT ![id] = new]
          /\ IncreaseOI(pos.marketId, pos.isLong, size)
          /\ positions[id].active
      BY <1>7 DEF AddSize
    <2>2. size \in Nat
      BY <1>2, <1>3
    <2> HIDE DEF t, size, net, entry, total, tokens, usd
    <2>3. /\ new.marketId = pos.marketId /\ new.isLong = pos.isLong
          /\ new.active = pos.active /\ new.sizeUsd = total
      BY <1>3 DEF Position
    <2> HIDE DEF new
    <2>4. Weight(new) = Weight(positions[id]) + size
      BY <1>3, <2>1, <2>3 DEF Weight, total
    <2>5. Reweighed(id, new, size)
      BY <1>3, <2>1, <2>3, <2>4 DEF Reweighed
    <2> QED
      BY <1>1, <2>2, <2>5
  <1>8. ASSUME NEW id \in PositionIds, NEW size \in CloseSizes,
               PartialClose(id, size)
        PROVE  CountStep
    <2> DEFINE pos == Settled(positions[id])
               fraction == divFp(size, pos.sizeUsd)
               left == pos.sizeUsd - size
               tokens == pos.collateralAmount
                            - mulFp(pos.collateralAmount, fraction)
               usd == pos.collateralUsd - mulFp(pos.collateralUsd, fraction)
               new == [pos EXCEPT !.sizeUsd = left,
                                  !.collateralAmount = tokens,
                                  !.collateralUsd = usd]
    <2>1. /\ positions' = [positions EXCEPT ![id] = new]
          /\ DecreaseOI(pos.marketId, pos.isLong, size)
          /\ positions[id].active
      BY <1>8 DEF PartialClose
    <2>2. size \in Nat
      BY CoreAssumption
    <2> HIDE DEF fraction, left, tokens, usd
    <2>3. /\ new.marketId = pos.marketId /\ new.isLong = pos.isLong
          /\ new.active = pos.active /\ new.sizeUsd = left
      BY <1>3 DEF Position
    <2> HIDE DEF new
    <2>4. Weight(positions[id]) = Weight(new) + size
      BY <1>3, <2>1, <2>2, <2>3 DEF Weight, left
    <2>5. Reweighed(id, new, size)
      BY <1>3, <2>1, <2>3, <2>4 DEF Reweighed
    <2> QED
      BY <1>1, <2>2, <2>5
  <1>9. ASSUME NEW id \in PositionIds, ClosePosition(id) \/ Liquidate(id)
        PROVE  CountStep
    <2> DEFINE pos == Settled(positions[id])
               new == [pos EXCEPT !.active = FALSE]
    <2>1. /\ positions' = [positions EXCEPT ![id] = new]
          /\ DecreaseOI(pos.marketId, pos.isLong, pos.sizeUsd)
          /\ positions[id].active
      BY <1>9 DEF ClosePosition, Liquidate
    <2>2. /\ new.marketId = pos.marketId /\ new.isLong = pos.isLong
          /\ ~new.active
      BY <1>3 DEF Position
    <2> HIDE DEF new
    <2>3. Weight(positions[id]) = Weight(new) + pos.sizeUsd
      BY <1>3, <2>1, <2>2 DEF Weight
    <2>4. Reweighed(id, new, pos.sizeUsd)
      BY <1>3, <2>1, <2>2, <2>3 DEF Reweighed
    <2> QED
      BY <1>1, <1>3, <2>4
  <1>10. ASSUME NEW id \in PositionIds, NEW size \in CloseSizes,
                AutoDeleverage(id, size)
        PROVE  CountStep
    <2> DEFINE pos == positions[id]
               new == positions'[id]
    <2>1. /\ positions' = [positions EXCEPT ![id] = new]
          /\ DecreaseOI(pos.marketId, pos.isLong, size)
          /\ pos.active /\ size <= pos.sizeUsd
      BY <1>10 DEF AutoDeleverage, ADLAllowed, TypeOK
    <2>2. /\ new.marketId = pos.marketId /\ new.isLong = pos.isLong
          /\ new.active = (size < pos.sizeUsd)
          /\ new.sizeUsd = pos.sizeUsd - size
      BY <1>10 DEF AutoDeleverage, TypeOK, Position
    <2>3. size \in Nat /\ pos.sizeUsd \in Nat
      BY <1>3, CoreAssumption
    <2> HIDE DEF new
    <2>4. Weight(pos) = Weight(new) + size
      <3>1. Weight(pos) = pos.sizeUsd
        BY <2>1 DEF Weight
      <3>2. CASE size < pos.sizeUsd
        <4>1. Weight(new) = pos.sizeUsd - size
          BY <2>2, <3>2 DEF Weight
        <4> QED
          BY <2>3, <3>1, <4>1
      <3>3. CASE size = pos.sizeUsd
        <4>1. Weight(new) = 0
          BY <2>2, <2>3, <3>3 DEF Weight
        <4> QED
          BY <2>3, <3>1, <3>3, <4>1
      <3> QED
        BY <2>1, <2>3, <3>2, <3>3
    <2>5. Reweighed(id, new, size)
      BY <2>1, <2>2, <2>4 DEF Reweighed
    <2> QED
      BY <1>1, <2>3, <2>5
  <1>11. CASE VaultStep
    BY <1>11 DEF VaultStep, FundVault, DefundVault, WithdrawInsurance,
                 positionVars, CountStep
  <1>12. CASE AccountStep
    <2>1. ASSUME NEW u, CreateVault(u)
          PROVE  UNCHANGED positionVars
      BY <2>1 DEF CreateVault
    <2>2. ASSUME NEW u, NEW t, NEW a, Deposit(u, t, a) \/ MoveToWallet(u, t, a)
          PROVE  UNCHANGED positionVars
      BY <2>2, ZenonT(20) DEF Deposit, MoveToWallet
    <2>3. UNCHANGED positionVars
      BY <1>12, <2>1, <2>2 DEF AccountStep, Withdraw, EmergencyWithdraw
    <2> QED
      BY <2>3 DEF positionVars, CountStep
  <1>13. CASE MarketStep
    BY <1>13 DEF MarketStep, UpdatePrice, UpdateFundingRate, SyncToOracle,
                 SwitchMarketPause, SwitchMarketEnabled, SwitchGlobalPause,
                 positionVars, CountStep
  <1>14. CASE Tick \/ UNCHANGED vars
    BY <1>14 DEF Tick, vars, positionVars, CountStep
  <1> QED
    BY <1>4, <1>5, <1>6, <1>7, <1>8, <1>9, <1>10, <1>11, <1>12, <1>13, <1>14
       DEF Next, PositionStep, LiquidationStep

\* At deployment nothing is open and nothing is counted.
LEMMA OIConsistentInit == Init => OIConsistent
  <1> SUFFICES ASSUME Init, NEW m \in Markets, NEW long \in BOOLEAN
               PROVE  openInterest[m][OISide(long)] =
                         ActiveSize(positions, m, long)
    BY DEF OIConsistent
  <1> DEFINE f == [id \in PositionIds |-> Share(positions[id], m, long)]
  <1>1. \A id \in PositionIds : f[id] = 0
    BY DEF Init, EmptyPosition, Share
  <1>2. IsFiniteSet(PositionIds)
    BY FS_Interval, CoreAssumption DEF PositionIds
  <1>3. ActiveSize(positions, m, long) = SumFunctionOnSet(f, PositionIds)
    BY DEF ActiveSize, SumFunction
  <1> HIDE DEF f
  <1>4. SumFunctionOnSet(f, PositionIds) = 0
    BY <1>1, <1>2, SumOfZeros
  <1>5. openInterest[m][OISide(long)] = 0
    BY DEF Init, OISide
  <1> QED
    BY <1>3, <1>4, <1>5

\* In every state the open interest of a side of a market is the total size
\* of the positions active on it: the seven paths that open, resize, close,
\* liquidate and deleverage count alike, and the saturating subtractions of
\* the facets never saturate.
THEOREM OIAlwaysConsistent == Spec => []OIConsistent
  <1> DEFINE Inv == LifeInv /\ OIConsistent
  <1>1. Init => OIConsistent
    BY OIConsistentInit
  <1>2. LifeInv /\ OIConsistent /\ [Next]_vars => OIConsistent'
    <2> SUFFICES ASSUME LifeInv, OIConsistent, [Next]_vars,
                        NEW m \in Markets, NEW long \in BOOLEAN
                 PROVE  openInterest'[m][OISide(long)] =
                           ActiveSize(positions', m, long)
      BY DEF OIConsistent, ActiveSize
    <2> DEFINE oi == openInterest[m][OISide(long)]
               next == openInterest'[m][OISide(long)]
               total == ActiveSize(positions, m, long)
               left == ActiveSize(positions', m, long)
    <2>1. TypeOK /\ TypeOK'
      BY NextType DEF LifeInv
    <2>2. Tracks(oi, next, total, left)
      BY <2>1, CountOfStep, SideOfCount
    <2>3. oi = total /\ oi \in Nat
      BY <2>1 DEF OIConsistent, TypeOK, OISide
    <2> HIDE DEF oi, next, total, left
    <2>4. next = left
      BY <2>2, <2>3 DEF Tracks, SatSub
    <2> QED
      BY <2>4 DEF next, left
  <1> QED
    BY <1>1, <1>2, LifeInvariant, PTL DEF Spec

-----------------------------------------------------------------------------
(* The facets implement PositionLifecycle.                                 *)

BookEntry == [user : Users \cup {NoUser}, marketId : Markets, active : BOOLEAN]

\* The empty storage is the empty book.
LEMMA LifecycleInit == Init => Lifecycle!Init
  <1> SUFFICES ASSUME Init PROVE Lifecycle!Init
    OBVIOUS
  <1> DEFINE first == EmptyPosition.marketId
  <1>1. first \in Markets
    BY CoreAssumption DEF EmptyPosition
  <1>2. \A id \in PositionIds : positions[id] = EmptyPosition
    BY DEF Init
  <1>3. EmptyPosition.user = NoUser /\ EmptyPosition.active = FALSE
    BY DEF EmptyPosition
  <1> HIDE DEF first
  <1>4. Book = [id \in 1..MaxPositions |->
                  [user |-> NoUser, marketId |-> first, active |-> FALSE]]
    BY <1>2, <1>3 DEF Book, PositionIds, first
  <1>5. nextPositionId = 0
    BY DEF Init
  <1> QED
    BY <1>1, <1>4, <1>5 DEF Lifecycle!Init

\* The entry of the book that changes when one record of positions does.
LEMMA BookOfRecord ==
    ASSUME TypeOK, NEW id \in PositionIds, NEW new \in Position,
           positions' = [positions EXCEPT ![id] = new]
    PROVE  Book' = [Book EXCEPT ![id] =
              [user |-> new.user, marketId |-> new.marketId,
               active |-> new.active]]
  <1>1. /\ positions'[id] = new
        /\ \A other \in PositionIds \ {id} : positions'[other] = positions[other]
    BY DEF TypeOK
  <1> QED
    BY <1>1 DEF Book

\* Each kind of step of the facets is a step of the abstract lifecycle.
LEMMA LifecycleNext ==
    ASSUME LifeInv, LifeStep
    PROVE  [Lifecycle!Next]_(Lifecycle!lifecycleVars)
  <1>1. CASE Untouched
    <2>1. Book' = Book /\ nextPositionId' = nextPositionId
      BY <1>1 DEF Untouched, Book
    <2> QED
      BY <2>1 DEF Lifecycle!lifecycleVars
  <1>2. ASSUME NEW id \in PositionIds, NEW new \in Position, Resized(id, new)
        PROVE  UNCHANGED Lifecycle!lifecycleVars
    <2>1. /\ new.user = positions[id].user
          /\ new.marketId = positions[id].marketId
          /\ new.active /\ positions[id].active
          /\ positions' = [positions EXCEPT ![id] = new]
          /\ nextPositionId' = nextPositionId
      BY <1>2 DEF Resized, Rewritten
    <2>2. new.active = TRUE /\ positions[id].active = TRUE
      BY <2>1 DEF LifeInv, TypeOK, Position
    <2>3. Book' = [Book EXCEPT ![id] =
             [user |-> new.user, marketId |-> new.marketId,
              active |-> new.active]]
      BY <2>1, BookOfRecord DEF LifeInv
    <2>4. Book[id] = [user |-> new.user, marketId |-> new.marketId,
                      active |-> new.active]
      BY <2>1, <2>2 DEF Book
    <2>5. Book' = Book
      BY <2>3, <2>4 DEF Book
    <2> QED
      BY <2>1, <2>5 DEF Lifecycle!lifecycleVars
  <1>3. ASSUME NEW id \in PositionIds, NEW new \in Position, Retired(id, new)
        PROVE  Lifecycle!Next
    <2>1. /\ new.user = positions[id].user
          /\ new.marketId = positions[id].marketId
          /\ ~new.active /\ positions[id].active
          /\ positions' = [positions EXCEPT ![id] = new]
          /\ nextPositionId' = nextPositionId
      BY <1>3 DEF Retired, Rewritten
    <2>2. new.active = FALSE
      BY <2>1 DEF Position
    <2>3. Book' = [Book EXCEPT ![id] =
             [user |-> new.user, marketId |-> new.marketId,
              active |-> new.active]]
      BY <2>1, BookOfRecord DEF LifeInv
    <2>4. Book[id] = [user |-> new.user, marketId |-> new.marketId,
                      active |-> positions[id].active]
      BY <2>1 DEF Book
    <2>5. [Book[id] EXCEPT !.active = FALSE] =
             [user |-> new.user, marketId |-> new.marketId,
              active |-> new.active]
      <3>1. Book[id] \in BookEntry
        BY <2>4 DEF LifeInv, TypeOK, Position, BookEntry
      <3>2. Book[id].user = new.user /\ Book[id].marketId = new.marketId
        BY <2>4
      <3> DEFINE left == [Book[id] EXCEPT !.active = FALSE]
      <3>3. /\ left \in BookEntry
            /\ left.user = new.user /\ left.marketId = new.marketId
            /\ left.active = FALSE
        BY <3>1, <3>2 DEF BookEntry
      <3> HIDE DEF left
      <3>4. left = [user |-> new.user, marketId |-> new.marketId,
                    active |-> FALSE]
        BY <3>3 DEF BookEntry
      <3> QED
        BY <2>2, <3>4 DEF left
    <2>6. Book' = [Book EXCEPT ![id].active = FALSE]
      BY <2>3, <2>5
    <2>7. Book[id].active /\ id \in 1..MaxPositions
      BY <2>1, <2>4 DEF PositionIds
    <2>8. Lifecycle!Retire(id)
      BY <2>1, <2>6, <2>7 DEF Lifecycle!Retire
    <2> QED
      BY <2>7, <2>8 DEF Lifecycle!Next
  <1>4. ASSUME NEW u \in Users, NEW m \in Markets, NEW id \in PositionIds,
               NEW new \in Position, Opened(u, m, id, new)
        PROVE  Lifecycle!Next
    <2>1. /\ id = nextPositionId + 1 /\ nextPositionId' = id
          /\ new.user = u /\ new.marketId = m /\ new.active
          /\ positions' = [positions EXCEPT ![id] = new]
          /\ userMarketPosition[u][m] # 0 =>
                ~positions[userMarketPosition[u][m]].active
      BY <1>4 DEF Opened
    <2>2. new.active = TRUE
      BY <2>1 DEF Position
    <2>3. Book' = [Book EXCEPT ![id] =
             [user |-> u, marketId |-> m, active |-> TRUE]]
      BY <2>1, <2>2, BookOfRecord DEF LifeInv
    <2>4. id <= MaxPositions
      BY CoreAssumption DEF PositionIds
    <2>5. Lifecycle!Unopened(Book[id])
      <3>1. id > nextPositionId
        BY <2>1 DEF LifeInv, TypeOK
      <3>2. positions[id].user = NoUser /\ ~positions[id].active
        BY <3>1 DEF LifeInv, UnusedIds
      <3> QED
        BY <3>2 DEF Lifecycle!Unopened, Book
    <2>6. ASSUME NEW other \in 1..MaxPositions,
                 Book[other].active, Book[other].user = u,
                 Book[other].marketId = m
          PROVE  FALSE
      <3>1. /\ other \in PositionIds
            /\ positions[other].active
            /\ positions[other].user = u /\ positions[other].marketId = m
        BY <2>6 DEF Book, PositionIds
      <3>2. userMarketPosition[u][m] = other
        BY <3>1 DEF LifeInv, NetMode
      <3>3. other # 0
        BY CoreAssumption
      <3> QED
        BY <2>1, <3>1, <3>2, <3>3
    <2>7. Lifecycle!Open(u, m)
      BY <2>1, <2>3, <2>4, <2>5, <2>6 DEF Lifecycle!Open
    <2> QED
      BY <2>7 DEF Lifecycle!Next
  <1> QED
    BY <1>1, <1>2, <1>3, <1>4 DEF LifeStep

\* Every transaction of PerpTrading is a step of PositionLifecycle or leaves
\* it alone: deciding by one pointer is deciding by all positions.
THEOREM LifecycleImplemented == Spec => ImplementsLifecycle
  <1>1. LifeInv /\ [Next]_vars => [Lifecycle!Next]_(Lifecycle!lifecycleVars)
    <2>1. LifeInv /\ [Next]_vars => LifeStep
      BY NextType, LifeOfStep DEF LifeInv
    <2> QED
      BY <2>1, LifecycleNext
  <1> QED
    BY <1>1, LifecycleInit, LifeInvariant, PTL
       DEF Spec, ImplementsLifecycle, Lifecycle!Spec

-----------------------------------------------------------------------------
(* The USD value a position carries and the tokens behind it.  They are    *)
(* two counters the facets write side by side; with no more than the 18    *)
(* decimals of a USD amount a token unit is worth a whole number of USD    *)
(* units.                                                                  *)

\* The USD value recorded is at most what the recorded tokens are worth.
Covered(pos) ==
    pos.collateralUsd
       <= pos.collateralAmount * UsdScale[pos.collateralToken].mul

\* Adding on one side of a product adds on the other.
LEMMA MulAdd ==
    ASSUME NEW a \in Nat, NEW b \in Nat, NEW c \in Nat
    PROVE  (a + b) * c = a * c + b * c
  OBVIOUS

\* Taking away a part takes its multiple away.
LEMMA MulSub ==
    ASSUME NEW a \in Nat, NEW b \in Nat, NEW c \in Nat
    PROVE  (a - b) * c = a * c - b * c
  OBVIOUS

\* A whole number added before the division is added after it.
LEMMA DivAdd ==
    ASSUME NEW a \in Nat, NEW k \in Nat, NEW n \in Nat \ {0}
    PROVE  (a + k * n) \div n = a \div n + k
  OBVIOUS

\* A quotient times its divisor is at most the dividend.
LEMMA DivFloor ==
    ASSUME NEW a \in Nat, NEW n \in Nat \ {0}
    PROVE  (a \div n) * n <= a
  OBVIOUS

\* Of more, no less is left once the fraction is released.
LEMMA LeftMonotone ==
    ASSUME NEW u \in Nat, NEW v \in Nat, u <= v,
           NEW f \in Nat, f <= ONE
    PROVE  u - mulFp(u, f) <= v - mulFp(v, f)
  <1> DEFINE k == v - u
  <1>1. k \in Nat /\ v = u + k /\ ONE \in Nat \ {0}
    BY ONEAssumption
  <1> HIDE DEF k
  <1>2. /\ u * f \in Nat /\ k * f \in Nat /\ v * f \in Nat
        /\ k * ONE \in Nat
    BY <1>1, MulNat
  <1>3. v * f = u * f + k * f
    BY <1>1, MulAdd
  <1>4. k * f <= k * ONE
    BY <1>1, MulMonotone
  <1>5. v * f <= u * f + k * ONE /\ u * f + k * ONE \in Nat
    BY <1>2, <1>3, <1>4
  <1>6. (v * f) \div ONE <= (u * f + k * ONE) \div ONE
    BY <1>1, <1>2, <1>5, DivMonotone
  <1>7. (u * f + k * ONE) \div ONE = (u * f) \div ONE + k
    BY <1>1, <1>2, DivAdd
  <1>8. mulFp(v, f) <= mulFp(u, f) + k
    BY <1>6, <1>7 DEF mulFp
  <1>9. mulFp(v, f) \in Nat /\ mulFp(u, f) \in Nat
    BY mulFpNat
  <1> QED
    BY <1>1, <1>8, <1>9

\* The fraction of a multiple is at least the multiple of the fraction.
LEMMA FractionOfMultiple ==
    ASSUME NEW a \in Nat, NEW n \in Nat, NEW f \in Nat
    PROVE  mulFp(a, f) * n <= mulFp(a * n, f)
  <1> DEFINE q == mulFp(a, f)
  <1>1. q \in Nat /\ ONE \in Nat \ {0}
    BY mulFpNat, ONEAssumption
  <1>2. a * f \in Nat /\ a * n \in Nat
    BY MulNat
  <1>3. q * ONE <= a * f
    BY <1>1, <1>2, DivFloor DEF mulFp
  <1> HIDE DEF q
  <1>4. q * ONE \in Nat /\ q * n \in Nat
    BY <1>1, MulNat
  <1>5. n * (q * ONE) <= n * (a * f)
    BY <1>2, <1>3, <1>4, MulMonotone
  <1>6. n * (q * ONE) = (q * n) * ONE
    BY <1>1
  <1>7. n * (a * f) = (a * n) * f
    OBVIOUS
  <1>8. (q * n) * ONE \in Nat /\ (a * n) * f \in Nat
    BY <1>1, <1>2, <1>4, MulNat
  <1>9. ((q * n) * ONE) \div ONE <= ((a * n) * f) \div ONE
    BY <1>1, <1>5, <1>6, <1>7, <1>8, DivMonotone
  <1>10. ((q * n) * ONE) \div ONE = q * n
    BY <1>1, <1>4, DivExact
  <1> QED
    BY <1>9, <1>10 DEF mulFp, q

\* Releasing one fraction of both leaves the USD value covered.
LEMMA CoveredFraction ==
    ASSUME NEW u \in Nat, NEW a \in Nat, NEW n \in Nat, u <= a * n,
           NEW f \in Nat, f <= ONE
    PROVE  u - mulFp(u, f) <= (a - mulFp(a, f)) * n
  <1>1. a * n \in Nat /\ mulFp(a, f) \in Nat
    BY MulNat, mulFpNat
  <1>2. u - mulFp(u, f) <= a * n - mulFp(a * n, f)
    BY <1>1, LeftMonotone
  <1>3. mulFp(a, f) * n <= mulFp(a * n, f)
    BY FractionOfMultiple
  <1>4. (a - mulFp(a, f)) * n = a * n - mulFp(a, f) * n
    BY <1>1, MulSub
  <1>5. /\ mulFp(u, f) \in Nat /\ mulFp(a * n, f) \in Nat
        /\ mulFp(a, f) * n \in Nat
    BY <1>1, MulNat, mulFpNat
  <1> QED
    BY <1>1, <1>2, <1>3, <1>4, <1>5

\* What tokens are worth is covered by them.
LEMMA UsdOfTokens ==
    ASSUME NEW t \in Tokens, UsdScale[t].div = 1, NEW a \in Nat
    PROVE  /\ normalizeToUsd(t, a) = a * UsdScale[t].mul
           /\ a * UsdScale[t].mul \in Nat
  <1>1. UsdScale[t].mul \in Nat
    BY UsdScaleAssumption, CoreAssumption
  <1> DEFINE x == a * UsdScale[t].mul
  <1>2. x \in Nat
    BY <1>1, MulNat
  <1>3. normalizeToUsd(t, a) = x \div 1
    BY DEF normalizeToUsd
  <1> HIDE DEF x
  <1>4. x \div 1 = x
    BY <1>2
  <1> QED
    BY <1>2, <1>3, <1>4 DEF x

\* A record written over a covered one that is covered too.
LEMMA CoveredWrite ==
    ASSUME TypeOK, \A i \in PositionIds : Covered(positions[i]),
           NEW id \in PositionIds, NEW new, Covered(new),
           positions' = [positions EXCEPT ![id] = new]
    PROVE  \A i \in PositionIds : Covered(positions'[i])
  <1> SUFFICES ASSUME NEW i \in PositionIds
               PROVE  Covered(positions'[i])
    OBVIOUS
  <1>1. positions'[i] = IF i = id THEN new ELSE positions[i]
    BY DEF TypeOK
  <1> QED
    BY <1>1

\* What collateral added and the tokens it comes from make of a covered
\* position, and what collateral taken out leaves of one.
LEMMA CoveredMoved ==
    ASSUME NEW pos \in Position, Covered(pos), NEW a \in Nat,
           UsdScale[pos.collateralToken].div = 1
    PROVE  LET mul == UsdScale[pos.collateralToken].mul
               usd == normalizeToUsd(pos.collateralToken, a)
           IN  /\ pos.collateralUsd + usd <= (pos.collateralAmount + a) * mul
               /\ a <= pos.collateralAmount =>
                     SatSub(pos.collateralUsd, usd)
                        <= (pos.collateralAmount - a) * mul
  <1> DEFINE mul == UsdScale[pos.collateralToken].mul
             usd == normalizeToUsd(pos.collateralToken, a)
             u == pos.collateralUsd
             v == pos.collateralAmount
  <1>1. u \in Nat /\ v \in Nat /\ pos.collateralToken \in Tokens
    BY DEF Position
  <1>2. mul \in Nat
    BY <1>1, UsdScaleAssumption, CoreAssumption
  <1>3. usd = a * mul /\ a * mul \in Nat
    BY <1>1, UsdOfTokens
  <1>4. u <= v * mul
    BY DEF Covered
  <1> HIDE DEF mul, usd, u, v
  <1>5. v * mul \in Nat
    BY <1>1, <1>2, MulNat
  <1>6. (v + a) * mul = v * mul + a * mul
    BY <1>1, <1>2, MulAdd
  <1>7. u + usd <= (v + a) * mul
    BY <1>1, <1>3, <1>4, <1>5, <1>6
  <1>8. ASSUME a <= v
        PROVE  SatSub(u, usd) <= (v - a) * mul
    <2>1. (v - a) * mul = v * mul - a * mul
      BY <1>1, <1>2, MulSub
    <2>2. a * mul <= v * mul
      <3>1. mul * a <= mul * v
        BY <1>1, <1>2, <1>8, MulMonotone
      <3> QED
        BY <1>1, <1>2, <3>1
    <2> QED
      BY <1>1, <1>3, <1>4, <1>5, <2>1, <2>2 DEF SatSub
  <1> QED
    BY <1>7, <1>8 DEF mul, usd, u, v

\* partialClose and autoDeleverage take the same fraction of both.
LEMMA CoveredShrunk ==
    ASSUME NEW pos \in Position, Covered(pos), NEW size \in Nat, size > 0,
           size <= pos.sizeUsd, NEW new,
           LET fraction == divFp(size, pos.sizeUsd)
           IN  /\ new.collateralToken = pos.collateralToken
               /\ new.collateralAmount = pos.collateralAmount
                     - mulFp(pos.collateralAmount, fraction)
               /\ new.collateralUsd = pos.collateralUsd
                     - mulFp(pos.collateralUsd, fraction)
    PROVE  Covered(new)
  <1> DEFINE fraction == divFp(size, pos.sizeUsd)
  <1>1. /\ pos.sizeUsd \in Nat \ {0} /\ pos.collateralAmount \in Nat
        /\ pos.collateralUsd \in Nat /\ pos.collateralToken \in Tokens
    BY DEF Position
  <1>2. fraction \in Nat /\ fraction <= ONE
    BY <1>1, FractionNat
  <1>3. UsdScale[pos.collateralToken].mul \in Nat
    BY <1>1, UsdScaleAssumption, CoreAssumption
  <1> HIDE DEF fraction
  <1>4. pos.collateralUsd - mulFp(pos.collateralUsd, fraction)
          <= (pos.collateralAmount - mulFp(pos.collateralAmount, fraction))
                * UsdScale[pos.collateralToken].mul
    BY <1>1, <1>2, <1>3, CoveredFraction DEF Covered
  <1> QED
    BY <1>4 DEF Covered, fraction

\* No transaction records more USD than its tokens are worth, where
\* settling the funding does not: every facet adds and takes both together.
LEMMA CoveredOfStep ==
    ASSUME TypeOK, [Next]_vars, \A t \in Tokens : UsdScale[t].div = 1,
           \A i \in PositionIds : /\ Covered(positions[i])
                                  /\ Covered(Settled(positions[i]))
    PROVE  \A i \in PositionIds : Covered(positions'[i])
  <1> DEFINE Goal == \A i \in PositionIds : Covered(positions'[i])
  <1>1. ASSUME NEW id \in PositionIds, NEW new, Covered(new),
               positions' = [positions EXCEPT ![id] = new]
        PROVE  Goal
    BY <1>1, CoveredWrite
  <1>2. ASSUME NEW id \in PositionIds
        PROVE  /\ positions[id] \in Position
               /\ Settled(positions[id]) \in Position
    BY SettledMarket DEF TypeOK
  <1>3. ASSUME NEW pos \in Position
        PROVE  UsdScale[pos.collateralToken].div = 1
    BY DEF Position
  <1> HIDE DEF Goal
  <1>4. ASSUME NEW u \in Users, NEW m \in Markets, NEW t \in Tokens,
               NEW a \in Amounts, NEW l \in Leverages, NEW long \in BOOLEAN,
               OpenPosition(u, m, t, a, l, long)
        PROVE  Goal
    <2> DEFINE size == mulFp(normalizeToUsd(t, a), l)
               fee == TradingFeeTokens(t, size, TakerFeeBps)
               net == IF fee > 0 /\ fee < a THEN a - fee ELSE a
               id == NextId
               new == positions'[id]
    <2>1. id \in PositionIds
      BY <1>4 DEF OpenPosition
    <2>2. /\ positions' = [positions EXCEPT ![id] = new]
          /\ new.collateralUsd = normalizeToUsd(t, net)
          /\ new.collateralAmount = net
          /\ new.collateralToken = t
      BY <1>4, <2>1 DEF OpenPosition, TypeOK
    <2> HIDE DEF id, new
    <2>3. net \in Nat
      <3>1. a \in Nat /\ l \in Nat
        BY CoreAssumption
      <3>2. size \in Nat
        BY <3>1, UsdNat, mulFpNat
      <3> HIDE DEF size
      <3>3. fee \in Nat
        BY <3>2, TradingFeeTokensNat
      <3> HIDE DEF fee
      <3> QED
        BY <3>1, <3>3
    <2> HIDE DEF net
    <2>4. normalizeToUsd(t, net) = net * UsdScale[t].mul
          /\ net * UsdScale[t].mul \in Nat
      BY <2>3, UsdOfTokens
    <2>5. Covered(new)
      BY <2>2, <2>4 DEF Covered
    <2> QED
      BY <1>1, <2>1, <2>2, <2>5
  <1>5. ASSUME NEW id \in PositionIds, NEW a \in Amounts, AddCollateral(id, a)
        PROVE  Goal
    <2> DEFINE pos == positions[id]
               new == positions'[id]
               usd == normalizeToUsd(pos.collateralToken, a)
    <2>1. /\ positions' = [positions EXCEPT ![id] = new]
          /\ new.collateralToken = pos.collateralToken
          /\ new.collateralAmount = pos.collateralAmount + a
          /\ new.collateralUsd = pos.collateralUsd + usd
      BY <1>5 DEF AddCollateral, TypeOK, Position
    <2>2. pos \in Position /\ Covered(pos) /\ a \in Nat
      BY <1>2, CoreAssumption
    <2> HIDE DEF pos, new
    <2>3. UsdScale[pos.collateralToken].div = 1
      BY <1>3, <2>2
    <2>4. pos.collateralUsd + usd
             <= (pos.collateralAmount + a) * UsdScale[pos.collateralToken].mul
      BY <2>2, <2>3, CoveredMoved
    <2>5. Covered(new)
      BY <2>1, <2>4 DEF Covered
    <2> QED
      BY <1>1, <2>1, <2>5
  <1>6. ASSUME NEW id \in PositionIds, NEW a \in Amounts, RemoveCollateral(id, a)
        PROVE  Goal
    <2> DEFINE pos == Settled(positions[id])
               tokens == pos.collateralAmount - a
               usd == SatSub(pos.collateralUsd,
                             normalizeToUsd(pos.collateralToken, a))
               new == [pos EXCEPT !.collateralAmount = tokens,
                                  !.collateralUsd = usd]
    <2>1. /\ positions' = [positions EXCEPT ![id] = new]
          /\ a <= pos.collateralAmount
      BY <1>6 DEF RemoveCollateral
    <2>2. pos \in Position /\ Covered(pos) /\ a \in Nat
      BY <1>2, CoreAssumption
    <2> HIDE DEF pos
    <2>3. UsdScale[pos.collateralToken].div = 1
      BY <1>3, <2>2
    <2>4. usd <= tokens * UsdScale[pos.collateralToken].mul
      BY <2>1, <2>2, <2>3, CoveredMoved
    <2> HIDE DEF tokens, usd
    <2>5. Covered(new)
      BY <2>2, <2>4 DEF Covered, Position
    <2> HIDE DEF new
    <2> QED
      BY <1>1, <2>1, <2>5
  <1>7. ASSUME NEW id \in PositionIds, NEW a \in Amounts, NEW l \in Leverages,
               AddSize(id, a, l)
        PROVE  Goal
    <2> DEFINE pos == Settled(positions[id])
               t == pos.collateralToken
               size == mulFp(normalizeToUsd(t, a), l)
               net == SatSub(a, TradingFeeTokens(t, size, TakerFeeBps))
               entry == calculateAverageEntryPrice(
                           pos.sizeUsd, pos.entryPrice, size,
                           latestPrice[pos.marketId])
               total == pos.sizeUsd + size
               tokens == pos.collateralAmount + net
               usd == pos.collateralUsd + normalizeToUsd(t, net)
               new == [pos EXCEPT !.entryPrice = entry, !.sizeUsd = total,
                                  !.collateralAmount = tokens,
                                  !.collateralUsd = usd]
    <2>1. positions' = [positions EXCEPT ![id] = new]
      BY <1>7 DEF AddSize
    <2>2. pos \in Position /\ Covered(pos) /\ a \in Nat /\ l \in Nat
      BY <1>2, CoreAssumption
    <2> HIDE DEF pos
    <2>3. UsdScale[t].div = 1 /\ t \in Tokens
      BY <1>3, <2>2 DEF Position
    <2>4. net \in Nat
      <3>1. size \in Nat
        BY <2>2, <2>3, UsdNat, mulFpNat
      <3> HIDE DEF size
      <3> QED
        BY <2>2, <2>3, <3>1, TradingFeeTokensNat, SatSubNat
    <2> HIDE DEF size, net, entry, total
    <2>5. usd <= tokens * UsdScale[t].mul
      BY <2>2, <2>3, <2>4, CoveredMoved
    <2> HIDE DEF tokens, usd
    <2>6. Covered(new)
      BY <2>2, <2>5 DEF Covered, Position
    <2> HIDE DEF new
    <2> QED
      BY <1>1, <2>1, <2>6
  <1>8. ASSUME NEW id \in PositionIds, NEW size \in CloseSizes,
               PartialClose(id, size)
        PROVE  Goal
    <2> DEFINE pos == Settled(positions[id])
               fraction == divFp(size, pos.sizeUsd)
               left == pos.sizeUsd - size
               tokens == pos.collateralAmount
                            - mulFp(pos.collateralAmount, fraction)
               usd == pos.collateralUsd - mulFp(pos.collateralUsd, fraction)
               new == [pos EXCEPT !.sizeUsd = left,
                                  !.collateralAmount = tokens,
                                  !.collateralUsd = usd]
    <2>1. /\ positions' = [positions EXCEPT ![id] = new]
          /\ size > 0 /\ size < pos.sizeUsd
      BY <1>8 DEF PartialClose
    <2>2. pos \in Position /\ Covered(pos) /\ size \in Nat
      BY <1>2, CoreAssumption
    <2> HIDE DEF pos
    <2>3. size <= pos.sizeUsd
      BY <2>1, <2>2 DEF Position
    <2>4. /\ new.collateralToken = pos.collateralToken
          /\ new.collateralAmount = tokens
          /\ new.collateralUsd = usd
      <3> HIDE DEF left, tokens, usd
      <3> QED
        BY <2>2 DEF Position
    <2> HIDE DEF new
    <2>5. Covered(new)
      BY <2>1, <2>2, <2>3, <2>4, CoveredShrunk
    <2> QED
      BY <1>1, <2>1, <2>5
  <1>9. ASSUME NEW id \in PositionIds, ClosePosition(id) \/ Liquidate(id)
        PROVE  Goal
    <2> DEFINE pos == Settled(positions[id])
               new == [pos EXCEPT !.active = FALSE]
    <2>1. positions' = [positions EXCEPT ![id] = new]
      BY <1>9 DEF ClosePosition, Liquidate
    <2>2. pos \in Position /\ Covered(pos)
      BY <1>2
    <2> HIDE DEF pos
    <2>3. Covered(new)
      BY <2>2 DEF Covered, Position
    <2> HIDE DEF new
    <2> QED
      BY <1>1, <2>1, <2>3
  <1>10. ASSUME NEW id \in PositionIds, NEW size \in CloseSizes,
                AutoDeleverage(id, size)
         PROVE  Goal
    <2> DEFINE pos == positions[id]
               fraction == divFp(size, pos.sizeUsd)
               left == pos.sizeUsd - size
               tokens == pos.collateralAmount
                            - mulFp(pos.collateralAmount, fraction)
               usd == pos.collateralUsd - mulFp(pos.collateralUsd, fraction)
               open == size < pos.sizeUsd
               new == [pos EXCEPT !.sizeUsd = left,
                                  !.collateralAmount = tokens,
                                  !.collateralUsd = usd,
                                  !.active = open]
    <2>1. /\ positions' = [positions EXCEPT ![id] = new]
          /\ size > 0 /\ size <= pos.sizeUsd
      BY <1>10 DEF AutoDeleverage, ADLAllowed
    <2>2. pos \in Position /\ Covered(pos) /\ size \in Nat
      BY <1>2, CoreAssumption
    <2> HIDE DEF pos
    <2>3. /\ new.collateralToken = pos.collateralToken
          /\ new.collateralAmount = tokens
          /\ new.collateralUsd = usd
      <3> HIDE DEF left, tokens, usd, open
      <3> QED
        BY <2>2 DEF Position
    <2> HIDE DEF new
    <2>4. Covered(new)
      BY <2>1, <2>2, <2>3, CoveredShrunk
    <2> QED
      BY <1>1, <2>1, <2>4
  <1>11. ASSUME UNCHANGED positions
         PROVE  Goal
    BY <1>11 DEF Goal
  <1>12. CASE VaultStep
    BY <1>11, <1>12 DEF VaultStep, FundVault, DefundVault, WithdrawInsurance,
                        positionVars
  <1>13. CASE AccountStep
    <2>1. ASSUME NEW u, CreateVault(u)
          PROVE  UNCHANGED positionVars
      BY <2>1 DEF CreateVault
    <2>2. ASSUME NEW u, NEW t, NEW a, Deposit(u, t, a) \/ MoveToWallet(u, t, a)
          PROVE  UNCHANGED positionVars
      BY <2>2, ZenonT(20) DEF Deposit, MoveToWallet
    <2>3. UNCHANGED positionVars
      BY <1>13, <2>1, <2>2 DEF AccountStep, Withdraw, EmergencyWithdraw
    <2> QED
      BY <1>11, <2>3 DEF positionVars
  <1>14. CASE MarketStep
    BY <1>11, <1>14 DEF MarketStep, UpdatePrice, UpdateFundingRate,
                 SyncToOracle, SwitchMarketPause, SwitchMarketEnabled,
                 SwitchGlobalPause, positionVars
  <1>15. CASE Tick \/ UNCHANGED vars
    BY <1>11, <1>15 DEF Tick, vars, positionVars
  <1>16. CASE PositionStep
    BY <1>16, <1>4, <1>5, <1>6, <1>7, <1>8, <1>9 DEF PositionStep, Goal
  <1>17. CASE LiquidationStep
    BY <1>17, <1>9, <1>10 DEF LiquidationStep, Goal
  <1> QED
    BY <1>12, <1>13, <1>14, <1>15, <1>16, <1>17 DEF Next, Goal

-----------------------------------------------------------------------------
(* checkLiquidatable and liquidate.  The view takes the pending funding    *)
(* off the equity; the transaction accrues, settles and then asks.         *)

\* Funding was last accrued at some past time, and a market whose funding
\* was never accrued has no rate yet.
FundingClock ==
    /\ now > 0
    /\ \A m \in Markets :
          /\ fundingStates[m].last <= now
          /\ fundingStates[m].last = 0 => fundingStates[m].rate = 0

\* Accrual stamps the market with the present time.
LEMMA AccruedNow ==
    ASSUME TypeOK, NEW m \in Markets
    PROVE  AccruedFunding(m) \in FundingState /\ AccruedFunding(m).last = now
  <1> DEFINE fs == fundingStates[m]
             accrued == fs.rate * (now - fs.last)
             long == fs.long + accrued
             short == fs.short - accrued
  <1>1. fs \in FundingState
    BY DEF TypeOK
  <1>2. AccruedFunding(m) =
          IF fs.last = 0 THEN [fs EXCEPT !.last = now]
          ELSE [fs EXCEPT !.long = long, !.short = short, !.last = now]
    BY DEF AccruedFunding
  <1> HIDE DEF fs, long, short
  <1>3. AccruedFunding(m).last = now
    BY <1>1, <1>2 DEF FundingState
  <1> QED
    BY <1>3, AccruedFundingType DEF TypeOK

\* A market whose funding was accrued by now, with a rate or without one.
LEMMA FundingClockNext ==
    ASSUME TypeOK, FundingClock, [Next]_vars
    PROVE  FundingClock'
  <1>1. now' = now \/ (now' = now + 1 /\ UNCHANGED fundingStates)
    <2>1. CASE Tick \/ UNCHANGED vars
      BY <2>1 DEF Tick, vars
    <2>2. CASE PositionStep \/ LiquidationStep
      <3>1. ASSUME NEW u, NEW m, NEW t, NEW a, NEW l, NEW long,
                   OpenPosition(u, m, t, a, l, long)
            PROVE  UNCHANGED now
        BY <3>1 DEF OpenPosition
      <3>2. ASSUME NEW id, NEW a, AddCollateral(id, a) \/ RemoveCollateral(id, a)
            PROVE  UNCHANGED now
        BY <3>2 DEF AddCollateral, RemoveCollateral
      <3>3. ASSUME NEW id, NEW a, NEW l, AddSize(id, a, l)
            PROVE  UNCHANGED now
        BY <3>3 DEF AddSize
      <3>4. ASSUME NEW id, NEW size,
                   PartialClose(id, size) \/ AutoDeleverage(id, size)
            PROVE  UNCHANGED now
        BY <3>4 DEF PartialClose, AutoDeleverage
      <3>5. ASSUME NEW id, ClosePosition(id) \/ Liquidate(id)
            PROVE  UNCHANGED now
        BY <3>5 DEF ClosePosition, Liquidate
      <3> QED
        BY <2>2, <3>1, <3>2, <3>3, <3>4, <3>5 DEF PositionStep, LiquidationStep
    <2>3. CASE VaultStep
      BY <2>3 DEF VaultStep, FundVault, DefundVault, WithdrawInsurance
    <2>4. CASE AccountStep
      <3>1. ASSUME NEW u, CreateVault(u)
            PROVE  UNCHANGED now
        BY <3>1 DEF CreateVault
      <3>2. ASSUME NEW u, NEW t, NEW a, Deposit(u, t, a) \/ MoveToWallet(u, t, a)
            PROVE  UNCHANGED now
        BY <3>2, ZenonT(20) DEF Deposit, MoveToWallet
      <3> QED
        BY <2>4, <3>1, <3>2 DEF AccountStep, Withdraw, EmergencyWithdraw
    <2>5. CASE MarketStep
      BY <2>5 DEF MarketStep, UpdatePrice, UpdateFundingRate, SyncToOracle,
                  SwitchMarketPause, SwitchMarketEnabled, SwitchGlobalPause
    <2> QED
      BY <2>1, <2>2, <2>3, <2>4, <2>5 DEF Next
  <1>2. now \in Nat /\ now > 0
    BY DEF TypeOK, FundingClock
  <1>3. CASE UNCHANGED fundingStates
    <2>1. ASSUME NEW m \in Markets
          PROVE  fundingStates[m].last \in Nat
      BY DEF TypeOK, FundingState
    <2> QED
      BY <1>1, <1>2, <1>3, <2>1 DEF FundingClock
  <1>4. ASSUME NEW m \in Markets, NEW new, UNCHANGED now, new.last = now,
               fundingStates' = [fundingStates EXCEPT ![m] = new]
        PROVE  FundingClock'
    <2>1. ASSUME NEW k \in Markets
          PROVE  fundingStates'[k] = IF k = m THEN new ELSE fundingStates[k]
      BY <1>4 DEF TypeOK
    <2> QED
      BY <1>2, <1>4, <2>1 DEF FundingClock
  <1>5. ASSUME NEW m \in Markets, AccrueFunding(m)
        PROVE  FundingClock'
    <2>1. fundingStates' = [fundingStates EXCEPT ![m] = AccruedFunding(m)]
      BY <1>5 DEF AccrueFunding
    <2> QED
      BY <1>1, <1>3, <1>4, <2>1, AccruedNow
  <1>6. ASSUME NEW m \in Markets, NEW r, UpdateFundingRate(m, r)
        PROVE  FundingClock'
    <2> DEFINE accrued == AccruedFunding(m)
               new == [accrued EXCEPT !.rate = r]
    <2>1. accrued \in FundingState /\ accrued.last = now
      BY AccruedNow
    <2>2. fundingStates' = [fundingStates EXCEPT ![m] = new] /\ UNCHANGED now
      BY <1>6 DEF UpdateFundingRate
    <2> HIDE DEF accrued
    <2>3. new.last = now
      BY <2>1 DEF FundingState
    <2> HIDE DEF new
    <2> QED
      BY <1>4, <2>2, <2>3
  <1> QED
    BY <1>3, <1>5, <1>6, FundingOfStep

\* The payment the view predicts is the one settling takes.
LEMMA PendingIsSettled ==
    ASSUME TypeOK, FundingClock, NEW pos \in Position
    PROVE  PendingFunding(pos) =
             mulFpSigned(pos.sizeUsd,
                         FundingIndex(AccruedFunding(pos.marketId), pos.isLong)
                            - pos.lastFundingIndex)
  <1> DEFINE m == pos.marketId
             fs == fundingStates[m]
             accrued == fs.rate * (now - fs.last)
             pending == fs.rate * SatSub(now, fs.last)
             long == fs.long + accrued
             short == fs.short - accrued
             index == IF pos.isLong THEN fs.long + pending
                                    ELSE fs.short - pending
  <1>1. m \in Markets /\ fs \in FundingState /\ now \in Nat
    BY DEF Position, TypeOK
  <1>2. fs.last <= now /\ (fs.last = 0 => fs.rate = 0)
    BY <1>1 DEF FundingClock
  <1>3. SatSub(now, fs.last) = now - fs.last
    BY <1>1, <1>2 DEF SatSub, FundingState
  <1>4. pending = accrued
    BY <1>3
  <1>5. fs.last = 0 => accrued = 0
    <2>1. now - fs.last \in Int
      BY <1>1 DEF FundingState
    <2> QED
      BY <1>2, <2>1
  <1>6. AccruedFunding(m) =
          IF fs.last = 0 THEN [fs EXCEPT !.last = now]
          ELSE [fs EXCEPT !.long = long, !.short = short, !.last = now]
    BY DEF AccruedFunding
  <1>7. PendingFunding(pos) = mulFpSigned(pos.sizeUsd, index - pos.lastFundingIndex)
    BY DEF PendingFunding
  <1> HIDE DEF fs, accrued, pending
  <1>8. FundingIndex(AccruedFunding(m), pos.isLong) = index
    BY <1>1, <1>4, <1>5, <1>6 DEF FundingIndex, FundingState
  <1> QED
    BY <1>7, <1>8

\* Settling a payment: what it leaves of the USD value is no less than the
\* value less the payment, and with the 18 decimals of a USD amount what it
\* leaves is covered.
LEMMA SettledValue ==
    ASSUME TypeOK, NEW pos \in Position, Covered(pos),
           UsdScale[pos.collateralToken].div = 1
    PROVE  LET payment ==
                 mulFpSigned(pos.sizeUsd,
                             FundingIndex(AccruedFunding(pos.marketId), pos.isLong)
                                - pos.lastFundingIndex)
           IN  /\ payment \in Int
               /\ pos.collateralUsd - payment <= Settled(pos).collateralUsd
               /\ UsdScale[pos.collateralToken].mul = 1 \/ payment >= 0
                     => Covered(Settled(pos))
  <1> DEFINE index == FundingIndex(AccruedFunding(pos.marketId), pos.isLong)
             payment == mulFpSigned(pos.sizeUsd, index - pos.lastFundingIndex)
             size == IF payment >= 0 THEN payment ELSE -payment
             t == pos.collateralToken
             mul == UsdScale[t].mul
             tokens == usdToTokens(t, size)
             drained == payment > 0 /\ tokens >= pos.collateralAmount
             amount == IF drained THEN 0
                       ELSE IF payment > 0 THEN pos.collateralAmount - tokens
                       ELSE pos.collateralAmount + tokens
             usd == IF drained THEN 0
                    ELSE IF payment > 0 THEN SatSub(pos.collateralUsd, payment)
                    ELSE pos.collateralUsd - payment
  <1>1. index \in Int
    BY AccruedFundingType, FundingIndexInt DEF Position, TypeOK
  <1>2. Settled(pos) = [pos EXCEPT !.lastFundingIndex = index,
                                   !.collateralAmount = amount,
                                   !.collateralUsd = usd]
    BY DEF Settled, SettledAt
  <1> HIDE DEF index
  <1>3. payment \in Int
    <2>1. pos.sizeUsd \in Int /\ index - pos.lastFundingIndex \in Int
      BY <1>1 DEF Position
    <2> QED
      BY <2>1, mulFpSignedInt
  <1> HIDE DEF payment
  <1>4. size \in Nat
    BY <1>3
  <1>5. t \in Tokens /\ mul \in Nat \ {0}
    <2>1. t \in Tokens
      BY DEF Position
    <2> QED
      BY <2>1, UsdScaleAssumption, CoreAssumption
  <1> HIDE DEF size
  <1>6. tokens = size \div mul
    BY <1>4 DEF usdToTokens
  <1>7. tokens \in Nat /\ tokens * mul <= size /\ tokens * mul \in Nat
    BY <1>4, <1>5, <1>6, DivNat, DivFloor, MulNat
  <1>8. mul = 1 => tokens = size
    BY <1>4, <1>6
  <1> HIDE DEF tokens
  <1>9. pos.collateralUsd \in Nat /\ pos.collateralAmount \in Nat
    BY DEF Position
  <1>10. pos.collateralUsd <= pos.collateralAmount * mul
         /\ pos.collateralAmount * mul \in Nat
    BY <1>5, <1>9, MulNat DEF Covered
  <1> HIDE DEF mul
  <1>11. CASE drained
    <2>1. size = payment /\ amount = 0 /\ usd = 0
      BY <1>3, <1>11 DEF size
    <2>2. pos.collateralAmount * mul <= tokens * mul
      <3>1. mul * pos.collateralAmount <= mul * tokens
        BY <1>5, <1>7, <1>9, <1>11, MulMonotone
      <3> QED
        BY <1>5, <1>7, <1>9, <3>1
    <2>3. pos.collateralUsd <= payment
      BY <1>3, <1>7, <1>9, <1>10, <2>1, <2>2
    <2>4. 0 * mul = 0
      BY <1>5
    <2> HIDE DEF amount, usd, drained
    <2>5. /\ Settled(pos).collateralUsd = 0 /\ Settled(pos).collateralAmount = 0
          /\ Settled(pos).collateralToken = t
      BY <1>2, <2>1 DEF Position
    <2>6. Covered(Settled(pos))
      BY <2>4, <2>5 DEF Covered, mul
    <2>7. pos.collateralUsd - payment <= Settled(pos).collateralUsd
      BY <1>3, <1>9, <2>3, <2>5
    <2> QED
      BY <1>3, <2>6, <2>7 DEF payment, index
  <1>12. CASE ~drained /\ payment > 0
    <2>1. /\ size = payment /\ amount = pos.collateralAmount - tokens
          /\ usd = SatSub(pos.collateralUsd, payment)
          /\ tokens < pos.collateralAmount
      BY <1>3, <1>7, <1>9, <1>12 DEF size
    <2>2. (pos.collateralAmount - tokens) * mul
             = pos.collateralAmount * mul - tokens * mul
      BY <1>5, <1>7, <1>9, MulSub
    <2>3. pos.collateralAmount - tokens \in Nat
      BY <1>7, <1>9, <2>1
    <2>4. (pos.collateralAmount - tokens) * mul \in Nat
      BY <1>5, <2>3, MulNat
    <2>5. usd <= amount * mul /\ pos.collateralUsd - payment <= usd
      <3> HIDE DEF amount, usd, drained
      <3> QED
        BY <1>3, <1>7, <1>9, <1>10, <1>12, <2>1, <2>2, <2>4 DEF SatSub
    <2> HIDE DEF amount, usd, drained
    <2>6. /\ Settled(pos).collateralUsd = usd
          /\ Settled(pos).collateralAmount = amount
          /\ Settled(pos).collateralToken = t
      BY <1>2 DEF Position
    <2>7. Covered(Settled(pos))
      BY <2>5, <2>6 DEF Covered, mul
    <2> QED
      BY <1>3, <2>5, <2>6, <2>7 DEF payment, index
  <1>13. CASE ~(payment > 0)
    <2>1. /\ amount = pos.collateralAmount + tokens
          /\ usd = pos.collateralUsd - payment
      BY <1>13
    <2>2. ASSUME mul = 1 \/ payment >= 0
          PROVE  usd <= amount * mul
      <3>1. CASE payment >= 0
        <4>1. payment = 0
          BY <1>3, <1>13, <3>1
        <4>2. tokens * mul = 0
          BY <1>5, <1>7, <4>1 DEF size
        <4>3. (pos.collateralAmount + tokens) * mul
                 = pos.collateralAmount * mul + tokens * mul
          BY <1>5, <1>7, <1>9, MulAdd
        <4> HIDE DEF amount, usd
        <4> QED
          BY <1>9, <1>10, <2>1, <4>1, <4>2, <4>3
      <3>2. CASE mul = 1 /\ ~(payment >= 0)
        <4>1. tokens = -payment
          BY <1>8, <3>2 DEF size
        <4> HIDE DEF amount, usd
        <4> QED
          BY <1>3, <1>9, <1>10, <2>1, <3>2, <4>1
      <3> QED
        BY <2>2, <3>1, <3>2
    <2> HIDE DEF amount, usd, drained
    <2>3. /\ Settled(pos).collateralUsd = usd
          /\ Settled(pos).collateralAmount = amount
          /\ Settled(pos).collateralToken = t
      BY <1>2 DEF Position
    <2>4. mul = 1 \/ payment >= 0 => Covered(Settled(pos))
      BY <2>2, <2>3 DEF Covered, mul
    <2>5. pos.collateralUsd - payment <= Settled(pos).collateralUsd
      BY <1>3, <1>9, <2>1, <2>3
    <2> QED
      BY <1>3, <2>4, <2>5 DEF payment, index, mul
  <1> QED
    BY <1>11, <1>12, <1>13

\* A position whose USD value its tokens cover is seen by the view whenever
\* the transaction would take it, with any number of decimals up to 18: the
\* equity the view compares is at most the settled one.
LEMMA SeenWhileCovered ==
    ASSUME TypeOK, FundingClock, NEW id \in PositionIds,
           Covered(positions[id]), \A t \in Tokens : UsdScale[t].div = 1
    PROVE  Liquidatable(id) => CheckLiquidatable(id)
  <1> DEFINE pos == positions[id]
             new == Settled(pos)
             price == latestPrice[pos.marketId]
             before == Equity(pos, price)
             after == Equity(new, price)
             payment == PendingFunding(pos)
             adjusted == before - payment
  <1>1. pos \in Position
    BY DEF TypeOK
  <1>2. /\ pos.sizeUsd \in Nat /\ pos.collateralUsd \in Nat
        /\ price \in Nat /\ UsdScale[pos.collateralToken].div = 1
    BY <1>1 DEF Position, TypeOK
  <1>3. /\ new \in Position
        /\ new.isLong = pos.isLong /\ new.sizeUsd = pos.sizeUsd
        /\ new.entryPrice = pos.entryPrice
    BY <1>1, SettledType DEF TypeOK
  <1>4. new.collateralUsd \in Nat
    BY <1>3 DEF Position
  <1>5. payment \in Int /\ pos.collateralUsd - payment <= new.collateralUsd
    <2>1. Covered(pos)
      OBVIOUS
    <2> QED
      BY <1>1, <1>2, <2>1, PendingIsSettled, SettledValue
  <1>6. calculatePnl(new, price) = calculatePnl(pos, price)
    BY <1>3 DEF calculatePnl
  <1>7. calculatePnl(pos, price) \in Int
    BY <1>1, PositionPnlInt
  <1>8. before \in Int /\ after \in Int /\ adjusted \in Int /\ adjusted <= after
    BY <1>2, <1>4, <1>5, <1>6, <1>7 DEF Equity
  <1> HIDE DEF new, before, after, payment
  <1> SUFFICES ASSUME pos.active, price > 0,
                      MarginBelow(new, price, MaintenanceMarginBps)
               PROVE  CheckLiquidatable(id)
    BY DEF Liquidatable, new
  <1>9. BPS \in Nat
    BY DEF BPS
  <1>10. CASE adjusted <= 0
    BY <1>10 DEF CheckLiquidatable, before, payment
  <1>11. CASE adjusted > 0
    <2>1. after > 0
      BY <1>8, <1>11
    <2>2. /\ pos.sizeUsd # 0
          /\ (after * BPS) \div pos.sizeUsd < MaintenanceMarginBps
      BY <1>3, <1>8, <2>1 DEF MarginBelow, after
    <2>3. BPS * adjusted <= BPS * after
      <3>1. adjusted \in Nat /\ after \in Nat
        BY <1>8, <1>11, <2>1
      <3> HIDE DEF adjusted
      <3> QED
        BY <1>8, <1>9, <3>1, MulMonotone
    <2>4. adjusted * BPS <= after * BPS
      <3> HIDE DEF adjusted
      <3> QED
        BY <1>8, <1>9, <2>3
    <2>5. adjusted * BPS \in Int /\ after * BPS \in Int
      BY <1>8, <1>9, MulInt
    <2>6. (adjusted * BPS) \div pos.sizeUsd <= (after * BPS) \div pos.sizeUsd
      BY <1>2, <2>2, <2>4, <2>5, DivMonotone
    <2>7. /\ (adjusted * BPS) \div pos.sizeUsd \in Int
          /\ (after * BPS) \div pos.sizeUsd \in Int
      BY <1>2, <2>2, <2>5, DivInt
    <2>8. (adjusted * BPS) \div pos.sizeUsd < MaintenanceMarginBps
      <3> HIDE DEF adjusted
      <3> QED
        BY <2>2, <2>6, <2>7, CoreAssumption
    <2> QED
      BY <2>8 DEF CheckLiquidatable, before, payment
  <1> QED
    BY <1>8, <1>10, <1>11

\* Collateral tokens with the 18 decimals of the USD amounts.
EighteenDecimals ==
    \A t \in Tokens : UsdScale[t].mul = 1 /\ UsdScale[t].div = 1

\* With 18-decimal collateral no position that liquidate accepts escapes
\* checkLiquidatable, at whatever time either is called and whatever the
\* rate did since: settling then never leaves a USD value its tokens do not
\* cover, so a drained position owed at least what the view takes off.
THEOREM LiquidationsAlwaysSeen == EighteenDecimals => (Spec => []LiquidationsSeen)
  <1> DEFINE Inv == /\ TypeOK /\ FundingClock
                    /\ \A id \in PositionIds : Covered(positions[id])
  <1> SUFFICES ASSUME EighteenDecimals
               PROVE  Spec => []LiquidationsSeen
    OBVIOUS
  <1>1. Init => Inv
    <2> SUFFICES ASSUME Init
                 PROVE  Inv
      OBVIOUS
    <2>1. TypeOK
      BY InitType
    <2>2. FundingClock
      BY CoreAssumption DEF Init, FundingClock
    <2>3. ASSUME NEW id \in PositionIds
          PROVE  Covered(positions[id])
      <3>1. positions[id] = EmptyPosition /\ EmptyPosition \in Position
        BY <2>1 DEF Init, TypeOK
      <3>2. UsdScale[EmptyPosition.collateralToken].mul = 1
        BY <3>1 DEF EighteenDecimals, Position
      <3>3. EmptyPosition.collateralUsd = 0 /\ EmptyPosition.collateralAmount = 0
        BY DEF EmptyPosition
      <3> QED
        BY <3>1, <3>2, <3>3 DEF Covered
    <2> QED
      BY <2>1, <2>2, <2>3
  <1>2. Inv /\ [Next]_vars => Inv'
    <2> SUFFICES ASSUME Inv, [Next]_vars
                 PROVE  Inv'
      OBVIOUS
    <2>1. TypeOK'
      BY NextType
    <2>2. FundingClock'
      BY FundingClockNext
    <2>3. ASSUME NEW id \in PositionIds
          PROVE  Covered(Settled(positions[id]))
      <3>1. positions[id] \in Position /\ Covered(positions[id])
        BY DEF TypeOK
      <3>2. /\ UsdScale[positions[id].collateralToken].mul = 1
            /\ UsdScale[positions[id].collateralToken].div = 1
        BY <3>1 DEF EighteenDecimals, Position
      <3> QED
        BY <3>1, <3>2, SettledValue
    <2>4. \A id \in PositionIds : Covered(positions'[id])
      BY <2>3, CoveredOfStep DEF EighteenDecimals
    <2>5. \A id \in PositionIds : Covered(positions[id])'
      BY <2>4 DEF Covered
    <2> QED
      BY <2>1, <2>2, <2>5
  <1>3. Inv => LiquidationsSeen
    BY SeenWhileCovered DEF LiquidationsSeen, EighteenDecimals
  <1> QED
    BY <1>1, <1>2, <1>3, PTL DEF Spec

-----------------------------------------------------------------------------
(* What a user owns at one price.                                          *)

Stakes(book, u, t) ==
    SumFunction([id \in PositionIds |-> Stake(book[id], u, t)])

\* What a user holds outside positions.
Cash(u, t) == wallets[u][t] + accounts[u].balance[t]

\* A stake is a number of tokens.
LEMMA StakeNat ==
    ASSUME NEW pos \in Position, NEW u, NEW t
    PROVE  Stake(pos, u, t) \in Nat
  BY DEF Stake, Position

\* Writing one record changes a user's stakes by what the record was and is.
LEMMA StakesOfWrite ==
    ASSUME TypeOK, NEW id \in PositionIds, NEW new \in Position,
           positions' = [positions EXCEPT ![id] = new], NEW u, NEW t
    PROVE  /\ Stakes(positions, u, t) \in Nat
           /\ Stake(positions[id], u, t) <= Stakes(positions, u, t)
           /\ Stakes(positions', u, t) =
                 Stakes(positions, u, t)
                    - Stake(positions[id], u, t) + Stake(new, u, t)
  <1> DEFINE f == [i \in PositionIds |-> Stake(positions[i], u, t)]
             e == [i \in PositionIds |-> Stake(positions'[i], u, t)]
  <1>1. IsFiniteSet(PositionIds)
    BY FS_Interval, CoreAssumption DEF PositionIds
  <1>2. /\ positions'[id] = new
        /\ \A i \in PositionIds : positions'[i] \in Position
        /\ \A i \in PositionIds : positions[i] \in Position
        /\ \A i \in PositionIds \ {id} : positions'[i] = positions[i]
    BY DEF TypeOK
  <1>3. \A i \in PositionIds : f[i] \in Nat /\ e[i] \in Nat
    BY <1>2, StakeNat
  <1>4. \A i \in PositionIds \ {id} : e[i] = f[i]
    BY <1>2
  <1>5. f[id] = Stake(positions[id], u, t) /\ e[id] = Stake(new, u, t)
    BY <1>2
  <1>6. /\ Stakes(positions, u, t) = SumFunctionOnSet(f, PositionIds)
        /\ Stakes(positions', u, t) = SumFunctionOnSet(e, PositionIds)
    BY DEF Stakes, SumFunction
  <1> HIDE DEF f, e
  <1>7. /\ SumFunctionOnSet(f, PositionIds) \in Nat
        /\ f[id] <= SumFunctionOnSet(f, PositionIds)
        /\ SumFunctionOnSet(e, PositionIds) =
              SumFunctionOnSet(f, PositionIds) - f[id] + e[id]
    <2>1. DifferAt(f, e, id, PositionIds)
      BY <1>3, <1>4 DEF DifferAt
    <2> QED
      BY <1>1, <2>1, SumUpdate
  <1> QED
    BY <1>5, <1>6, <1>7

\* What users own is their cash and their stakes, all numbers.
OwnedParts ==
    \A u \in Users, t \in Tokens :
       /\ Cash(u, t) \in Nat /\ Stakes(positions, u, t) \in Nat
       /\ Owned(u, t) = Cash(u, t) + Stakes(positions, u, t)

\* It is, in every state of the right types.
LEMMA OwnedNat == TypeOK => OwnedParts
  <1> SUFFICES ASSUME TypeOK, NEW u \in Users, NEW t \in Tokens
               PROVE  /\ Cash(u, t) \in Nat /\ Stakes(positions, u, t) \in Nat
                      /\ Owned(u, t) = Cash(u, t) + Stakes(positions, u, t)
    BY DEF OwnedParts
  <1>1. Stakes(positions, u, t) \in Nat
    <2> DEFINE f == [i \in PositionIds |-> Stake(positions[i], u, t)]
    <2>1. IsFiniteSet(PositionIds)
      BY FS_Interval, CoreAssumption DEF PositionIds
    <2>2. \A i \in PositionIds : f[i] \in Nat
      BY StakeNat DEF TypeOK
    <2>3. Stakes(positions, u, t) = SumFunctionOnSet(f, PositionIds)
      BY DEF Stakes, SumFunction
    <2> HIDE DEF f
    <2> QED
      BY <2>1, <2>2, <2>3, SumNat
  <1>2. accounts[u] \in Account
    BY DEF TypeOK
  <1>3. wallets[u][t] \in Nat /\ accounts[u].balance[t] \in Nat
    BY <1>2 DEF TypeOK, Account
  <1> QED
    BY <1>1, <1>3 DEF Owned, Cash, Stakes

\* Nobody owns more after the step than before.
NobodyGains == \A u \in Users, t \in Tokens : Owned(u, t)' <= Owned(u, t)

\* Where no record changes, what counts is the cash.
LEMMA CashOnly ==
    ASSUME TypeOK, TypeOK', UNCHANGED positions,
           \A u \in Users, t \in Tokens : Cash(u, t)' <= Cash(u, t)
    PROVE  NobodyGains
  <1> SUFFICES ASSUME NEW u \in Users, NEW t \in Tokens
               PROVE  Owned(u, t)' <= Owned(u, t)
    BY DEF NobodyGains
  <1>1. Stakes(positions, u, t)' = Stakes(positions, u, t)
    BY DEF Stakes
  <1>2. OwnedParts /\ OwnedParts'
    BY OwnedNat, PTL
  <1> QED
    BY <1>1, <1>2 DEF OwnedParts

\* One record of user u in token t is written, the tokens going into it or
\* out of it coming out of or going into the user's account.
StakeMove(id, new, u, t) ==
    /\ positions' = [positions EXCEPT ![id] = new]
    /\ UNCHANGED wallets
    /\ new.active => new.user = u /\ new.collateralToken = t
    /\ positions[id].active => /\ positions[id].user = u
                               /\ positions[id].collateralToken = t
    /\ \A v \in Users, k \in Tokens : v # u \/ k # t =>
          accounts'[v].balance[k] = accounts[v].balance[k]
    /\ accounts'[u].balance[t] + Stake(new, u, t)
          <= accounts[u].balance[t] + Stake(positions[id], u, t)

\* Nobody gains by it.
LEMMA StakeMoved ==
    ASSUME TypeOK, TypeOK', NEW id \in PositionIds, NEW new \in Position,
           NEW u \in Users, NEW t \in Tokens, StakeMove(id, new, u, t)
    PROVE  NobodyGains
  <1> SUFFICES ASSUME NEW v \in Users, NEW k \in Tokens
               PROVE  Owned(v, k)' <= Owned(v, k)
    BY DEF NobodyGains
  <1>1. OwnedParts /\ OwnedParts'
    BY OwnedNat, PTL
  <1>2. /\ Stakes(positions, v, k) \in Nat
        /\ Stake(positions[id], v, k) <= Stakes(positions, v, k)
        /\ Stakes(positions', v, k) =
              Stakes(positions, v, k)
                 - Stake(positions[id], v, k) + Stake(new, v, k)
    BY StakesOfWrite DEF StakeMove
  <1>3. Stakes(positions, v, k)' = Stakes(positions', v, k)
    BY DEF Stakes
  <1>4. Stake(new, v, k) \in Nat /\ Stake(positions[id], v, k) \in Nat
    BY StakeNat DEF TypeOK
  <1>5. Cash(v, k)' + Stake(new, v, k) <= Cash(v, k) + Stake(positions[id], v, k)
    <2>1. /\ wallets[v][k] \in Nat /\ wallets'[v][k] = wallets[v][k]
          /\ accounts[v].balance[k] \in Nat
          /\ accounts'[v].balance[k] \in Nat
      <3>1. accounts[v] \in Account /\ accounts'[v] \in Account
        BY DEF TypeOK
      <3> QED
        BY <3>1 DEF TypeOK, Account, StakeMove
    <2>2. CASE v = u /\ k = t
      BY <1>4, <2>1, <2>2 DEF Cash, StakeMove
    <2>3. CASE v # u \/ k # t
      <3>1. Stake(new, v, k) = 0 /\ Stake(positions[id], v, k) = 0
        BY <2>3 DEF Stake, StakeMove
      <3> QED
        BY <2>1, <2>3, <3>1 DEF Cash, StakeMove
    <2> QED
      BY <2>2, <2>3
  <1> QED
    BY <1>1, <1>2, <1>3, <1>4, <1>5 DEF OwnedParts

\* lockForPosition takes the amount out of the account's balance.
LEMMA LockBalance ==
    ASSUME TypeOK, NEW u \in Users, NEW t \in Tokens, NEW amount \in Nat,
           NEW slot \in Slots, LockCollateral(u, t, amount, slot)
    PROVE  /\ accounts'[u].balance[t] = accounts[u].balance[t] - amount
           /\ \A v \in Users, k \in Tokens : v # u \/ k # t =>
                 accounts'[v].balance[k] = accounts[v].balance[k]
  <1> DEFINE a == accounts[u]
             entered == [a EXCEPT !.margins[slot].token = t]
             opened == IF a.margins[slot].token # NoToken THEN a
                       ELSE AddActivePosition(entered, slot)
             locked == LockForPosition(a, t, amount, slot)
  <1>1. a \in Account
    BY DEF TypeOK
  <1>2. accounts' = [accounts EXCEPT ![u] = locked]
    BY DEF LockCollateral
  <1> HIDE DEF a
  <1>3. entered \in Account /\ entered.balance = a.balance
    BY <1>1 DEF Account
  <1>4. locked = [opened EXCEPT !.margins[slot].locked = @ + amount,
                                !.totalLocked[t] = @ + amount,
                                !.balance[t] = @ - amount]
    BY DEF LockForPosition
  <1> HIDE DEF entered, locked
  <1>5. opened \in Account /\ opened.balance = a.balance
    BY <1>1, <1>3, AddActiveType
  <1> HIDE DEF opened
  <1>6. locked.balance = [a.balance EXCEPT ![t] = @ - amount]
    BY <1>4, <1>5 DEF Account
  <1>7. /\ locked.balance[t] = a.balance[t] - amount
        /\ \A k \in Tokens : k # t => locked.balance[k] = a.balance[k]
    BY <1>1, <1>6 DEF Account
  <1>8. /\ accounts'[u] = locked
        /\ \A v \in Users : v # u => accounts'[v] = accounts[v]
    BY <1>2 DEF TypeOK
  <1> QED
    BY <1>7, <1>8 DEF a

\* Tokens paid into an account are added to its balance.
LEMMA PayInBalance ==
    ASSUME NEW a \in Account, NEW t \in Tokens, NEW amount \in Nat,
           NEW s \in Slots
    PROVE  /\ PayIn(a, t, amount, s).balance[t] = a.balance[t] + amount
           /\ \A k \in Tokens : k # t =>
                 PayIn(a, t, amount, s).balance[k] = a.balance[k]
  <1> DEFINE paid == [a EXCEPT !.balance[t] = @ + amount]
             left == IF paid.margins[s].locked >= amount
                     THEN paid.margins[s].locked - amount ELSE 0
             free == IF paid.totalLocked[t] >= amount
                     THEN paid.totalLocked[t] - amount ELSE 0
             slot == [paid.margins[s] EXCEPT !.locked = left]
             margins == [paid.margins EXCEPT ![s] = slot]
             locked == [paid.totalLocked EXCEPT ![t] = free]
             b == [paid EXCEPT !.margins = margins, !.totalLocked = locked]
  <1>1. paid \in Account
    <2> DEFINE balance == [a.balance EXCEPT ![t] = @ + amount]
    <2>1. balance \in [Tokens -> Nat]
      BY DEF Account
    <2>2. paid = [a EXCEPT !.balance = balance]
      BY DEF Account
    <2> HIDE DEF balance, paid
    <2> QED
      BY <2>1, <2>2 DEF Account
  <1>2. /\ paid.balance[t] = a.balance[t] + amount
        /\ \A k \in Tokens : k # t => paid.balance[k] = a.balance[k]
    BY DEF Account
  <1>3. PayIn(a, t, amount, s) = UnlockFromPosition(paid, t, amount, s)
    BY DEF PayIn
  <1> HIDE DEF paid
  <1>4. UnlockFromPosition(paid, t, amount, s) =
          IF left = 0 THEN RemoveActivePosition(b, s) ELSE b
    BY <1>1 DEF UnlockFromPosition, Account
  <1> HIDE DEF left, margins, locked
  <1>5. b.balance = paid.balance
    BY <1>1 DEF Account
  <1>6. DOMAIN b = DOMAIN paid
    OBVIOUS
  <1>7. DOMAIN paid = {"exists", "balance", "totalLocked", "margins", "active",
                       "index"}
    BY <1>1 DEF Account
  <1> HIDE DEF b
  <1>8. RemoveActivePosition(b, s).balance = b.balance
    BY <1>6, <1>7 DEF RemoveActivePosition
  <1> QED
    BY <1>2, <1>3, <1>4, <1>5, <1>8

\* What is paid to a user is added to the balance of the account.
LEMMA PaidBalance ==
    ASSUME TypeOK, NEW u \in Users, NEW t \in Tokens, NEW amount \in Nat,
           NEW slot \in Slots,
           accounts' = IF amount = 0 THEN accounts
                       ELSE [accounts EXCEPT ![u] = PayIn(@, t, amount, slot)]
    PROVE  /\ accounts'[u].balance[t] = accounts[u].balance[t] + amount
           /\ \A v \in Users, k \in Tokens : v # u \/ k # t =>
                 accounts'[v].balance[k] = accounts[v].balance[k]
  <1> DEFINE paid == PayIn(accounts[u], t, amount, slot)
  <1>1. accounts[u] \in Account
    BY DEF TypeOK
  <1>2. accounts[u].balance[t] \in Nat
    BY <1>1 DEF Account
  <1>3. CASE amount = 0
    BY <1>2, <1>3
  <1>4. CASE amount # 0
    <2>1. accounts' = [accounts EXCEPT ![u] = paid]
      BY <1>4
    <2>2. /\ paid.balance[t] = accounts[u].balance[t] + amount
          /\ \A k \in Tokens : k # t => paid.balance[k] = accounts[u].balance[k]
      BY <1>1, PayInBalance
    <2> HIDE DEF paid
    <2>3. /\ accounts'[u] = paid
          /\ \A v \in Users : v # u => accounts'[v] = accounts[v]
      BY <2>1 DEF TypeOK
    <2> QED
      BY <2>2, <2>3
  <1> QED
    BY <1>3, <1>4

-----------------------------------------------------------------------------
(* At one price that is a whole number, without funding and without a      *)
(* vAMM, settling changes nothing and no position has a profit or a loss.  *)

FlatPrice ==
    /\ \E k \in Nat : Prices = {k * ONE}
    /\ FundingRates = {0}
    /\ InitialPool.base = 0
    /\ \A t \in Tokens : UsdScale[t].div = 1

\* The price a market has, if it has one, is p and no trade moves it.
FlatMarkets(p) ==
    \A m \in Markets :
       /\ latestPrice[m] \in {0, p}
       /\ pools[m].base = 0
       /\ fundingStates[m].long = 0
       /\ fundingStates[m].short = 0
       /\ fundingStates[m].rate = 0

\* A record stands at funding index 0 and, while it is open, at entry price
\* p in a market that has this price.
FlatEntry(pos, p) ==
    /\ pos.lastFundingIndex = 0
    /\ pos.active => pos.entryPrice = p /\ latestPrice[pos.marketId] = p

FlatBook(p) ==
    \A id \in PositionIds : Covered(positions[id]) /\ FlatEntry(positions[id], p)

FlatInv(p) == LifeInv /\ FlatMarkets(p) /\ FlatBook(p)

\* Accruing a zero rate leaves zero indices.
LEMMA FlatAccrual ==
    ASSUME TypeOK, NEW p, FlatMarkets(p), NEW m \in Markets
    PROVE  /\ AccruedFunding(m) \in FundingState
           /\ AccruedFunding(m).long = 0
           /\ AccruedFunding(m).short = 0
           /\ AccruedFunding(m).rate = 0
  <1> DEFINE fs == fundingStates[m]
             accrued == fs.rate * (now - fs.last)
             long == fs.long + accrued
             short == fs.short - accrued
  <1>1. fs \in FundingState /\ now \in Nat
    BY DEF TypeOK
  <1>2. fs.long = 0 /\ fs.short = 0 /\ fs.rate = 0
    BY DEF FlatMarkets
  <1>3. accrued = 0
    <2>1. now - fs.last \in Int
      BY <1>1 DEF FundingState
    <2> QED
      BY <1>2, <2>1
  <1>4. AccruedFunding(m) =
          IF fs.last = 0 THEN [fs EXCEPT !.last = now]
          ELSE [fs EXCEPT !.long = long, !.short = short, !.last = now]
    BY DEF AccruedFunding
  <1> HIDE DEF fs, accrued
  <1>5. long = 0 /\ short = 0
    BY <1>2, <1>3
  <1> HIDE DEF long, short
  <1>6. /\ AccruedFunding(m).long = 0
        /\ AccruedFunding(m).short = 0
        /\ AccruedFunding(m).rate = 0
    BY <1>1, <1>2, <1>4, <1>5 DEF FundingState
  <1> QED
    BY <1>6, AccruedFundingType DEF TypeOK

\* A fraction of nothing is nothing.
LEMMA NothingScaled ==
    ASSUME NEW a \in Int
    PROVE  mulFpSigned(a, 0) = 0 /\ mulFpSigned(0, a) = 0
  <1>1. a * 0 = 0 /\ 0 * a = 0 /\ ONE \in Nat \ {0}
    BY ONEAssumption
  <1>2. TruncDiv(0, ONE) = 0
    BY <1>1 DEF TruncDiv
  <1> QED
    BY <1>1, <1>2 DEF mulFpSigned

\* No USD are no tokens.
LEMMA NoUsdNoTokens ==
    ASSUME NEW t \in Tokens
    PROVE  usdToTokens(t, 0) = 0
  <1>1. UsdScale[t].mul \in Nat \ {0} /\ UsdScale[t].div \in Nat
    BY UsdScaleAssumption, CoreAssumption
  <1>2. 0 * UsdScale[t].div = 0
    BY <1>1
  <1>3. 0 \div UsdScale[t].mul = 0
    BY <1>1
  <1> QED
    BY <1>2, <1>3 DEF usdToTokens

\* Settling changes nothing.
LEMMA FlatSettled ==
    ASSUME TypeOK, NEW p, FlatMarkets(p), NEW pos \in Position,
           pos.lastFundingIndex = 0
    PROVE  Settled(pos) = pos
  <1> DEFINE index == FundingIndex(AccruedFunding(pos.marketId), pos.isLong)
             payment == mulFpSigned(pos.sizeUsd, index - pos.lastFundingIndex)
             t == pos.collateralToken
             tokens == usdToTokens(t, IF payment >= 0 THEN payment ELSE -payment)
             drained == payment > 0 /\ tokens >= pos.collateralAmount
             amount == IF drained THEN 0
                       ELSE IF payment > 0 THEN pos.collateralAmount - tokens
                       ELSE pos.collateralAmount + tokens
             usd == IF drained THEN 0
                    ELSE IF payment > 0 THEN SatSub(pos.collateralUsd, payment)
                    ELSE pos.collateralUsd - payment
  <1>1. /\ pos.marketId \in Markets /\ t \in Tokens /\ pos.sizeUsd \in Int
        /\ pos.collateralAmount \in Nat /\ pos.collateralUsd \in Nat
    BY DEF Position
  <1>2. index = 0
    BY <1>1, FlatAccrual DEF FundingIndex
  <1>3. Settled(pos) = [pos EXCEPT !.lastFundingIndex = index,
                                   !.collateralAmount = amount,
                                   !.collateralUsd = usd]
    BY DEF Settled, SettledAt
  <1> HIDE DEF index
  <1>4. payment = 0
    <2>1. index - pos.lastFundingIndex = 0
      BY <1>2
    <2> QED
      BY <1>1, <2>1, NothingScaled
  <1> HIDE DEF payment
  <1>5. tokens = 0
    BY <1>1, <1>4, NoUsdNoTokens
  <1> HIDE DEF tokens
  <1>6. amount = pos.collateralAmount /\ usd = pos.collateralUsd
    BY <1>1, <1>4, <1>5
  <1> HIDE DEF amount, usd
  <1> QED
    BY <1>2, <1>3, <1>6 DEF Position

\* A position entered at the price it is valued at neither won nor lost.
LEMMA FlatPnl ==
    ASSUME NEW pos \in Position, NEW p \in Nat, pos.entryPrice = p
    PROVE  calculatePnl(pos, p) = 0
  <1>1. pos.sizeUsd \in Int
    BY DEF Position
  <1>2. CASE p = 0
    BY <1>2 DEF calculatePnl
  <1>3. CASE p # 0
    <2>1. divFpSigned(0, p) = 0
      <3>1. 0 * ONE = 0 /\ 0 \div p = 0
        BY <1>3, ONEAssumption
      <3> QED
        BY <3>1 DEF divFpSigned, TruncDiv
    <2>2. p - p = 0
      OBVIOUS
    <2>3. mulFpSigned(pos.sizeUsd, 0) = 0
      BY <1>1, NothingScaled
    <2> QED
      BY <2>1, <2>2, <2>3 DEF calculatePnl
  <1> QED
    BY <1>2, <1>3

\* The average of two entries at a price of a whole number is that price.
LEMMA FlatAverage ==
    ASSUME NEW size \in Nat, NEW added \in Nat, added > 0, NEW k \in Nat
    PROVE  calculateAverageEntryPrice(size, k * ONE, added, k * ONE) = k * ONE
  <1>1. ONE \in Nat \ {0}
    BY ONEAssumption
  <1>2. ASSUME NEW s \in Nat
        PROVE  mulFp(s, k * ONE) = s * k
    <2>1. s * (k * ONE) = (s * k) * ONE
      BY <1>1
    <2>2. s * k \in Nat
      BY MulNat
    <2>3. ((s * k) * ONE) \div ONE = s * k
      BY <1>1, <2>2, DivExact
    <2> QED
      BY <2>1, <2>3 DEF mulFp
  <1>3. size * k + added * k = k * (size + added)
    OBVIOUS
  <1>4. size + added \in Nat \ {0}
    OBVIOUS
  <1>5. (k * (size + added)) \div (size + added) = k
    BY <1>4, DivExact
  <1>6. mulFp(size, k * ONE) + mulFp(added, k * ONE) = k * (size + added)
    BY <1>2, <1>3
  <1> QED
    BY <1>4, <1>5, <1>6 DEF calculateAverageEntryPrice

-----------------------------------------------------------------------------
(* At one price, one operation at a time.                                  *)

\* The records stay at their price and index, and nobody gains.
FlatStep(p) ==
    /\ NobodyGains
    /\ \A id \in PositionIds : FlatEntry(positions'[id], p)

\* One record is written that keeps its price and index, between a user's
\* account and the position.
LEMMA FlatWrite ==
    ASSUME TypeOK, TypeOK', NEW p, FlatBook(p),
           NEW id \in PositionIds, NEW new \in Position, FlatEntry(new, p),
           NEW u \in Users, NEW t \in Tokens, StakeMove(id, new, u, t)
    PROVE  FlatStep(p)
  <1>1. NobodyGains
    BY StakeMoved
  <1>2. ASSUME NEW i \in PositionIds
        PROVE  FlatEntry(positions'[i], p)
    <2>1. positions'[i] = IF i = id THEN new ELSE positions[i]
      BY DEF TypeOK, StakeMove
    <2>2. FlatEntry(positions[i], p)
      BY DEF FlatBook
    <2> QED
      BY <2>1, <2>2
  <1> QED
    BY <1>1, <1>2 DEF FlatStep

\* What holds of an open position in a flat market.
LEMMA FlatActive ==
    ASSUME NEW p \in Nat, FlatInv(p), NEW id \in PositionIds, positions[id].active
    PROVE  LET pos == positions[id]
           IN  /\ pos \in Position /\ Settled(pos) = pos /\ FlatEntry(pos, p)
               /\ pos.user \in Users /\ pos.collateralToken \in Tokens
               /\ pos.marketId \in Markets /\ pos.collateralAmount \in Nat
               /\ pos.entryPrice = p /\ latestPrice[pos.marketId] = p
               /\ calculatePnl(pos, latestPrice[pos.marketId]) = 0
               /\ accounts[pos.user].balance[pos.collateralToken] \in Nat
               /\ Stake(pos, pos.user, pos.collateralToken) = pos.collateralAmount
  <1> DEFINE pos == positions[id]
  <1>1. TypeOK /\ pos \in Position /\ pos.user \in Users
    BY DEF FlatInv, LifeInv, TypeOK, NetMode
  <1>2. /\ pos.collateralToken \in Tokens /\ pos.marketId \in Markets
        /\ pos.collateralAmount \in Nat
    BY <1>1 DEF Position
  <1>3. FlatEntry(pos, p) /\ FlatMarkets(p)
    BY DEF FlatInv, FlatBook
  <1>4. /\ pos.lastFundingIndex = 0 /\ pos.entryPrice = p
        /\ latestPrice[pos.marketId] = p
    BY <1>3 DEF FlatEntry
  <1>5. Settled(pos) = pos
    BY <1>1, <1>3, <1>4, FlatSettled
  <1>6. calculatePnl(pos, latestPrice[pos.marketId]) = 0
    BY <1>1, <1>4, FlatPnl
  <1>7. accounts[pos.user].balance[pos.collateralToken] \in Nat
    <2>1. accounts[pos.user] \in Account
      BY <1>1 DEF TypeOK
    <2> QED
      BY <1>2, <2>1 DEF Account
  <1>8. Stake(pos, pos.user, pos.collateralToken) = pos.collateralAmount
    BY DEF Stake
  <1> QED
    BY <1>1, <1>2, <1>3, <1>4, <1>5, <1>6, <1>7, <1>8

\* openPosition: the fee is not part of the stake.
LEMMA FlatOpenPosition ==
    ASSUME NEW p \in Nat, FlatInv(p), TypeOK',
           NEW u \in Users, NEW m \in Markets, NEW t \in Tokens,
           NEW a \in Amounts, NEW l \in Leverages, NEW long \in BOOLEAN,
           OpenPosition(u, m, t, a, l, long)
    PROVE  FlatStep(p)
  <1> DEFINE size == mulFp(normalizeToUsd(t, a), l)
             fee == TradingFeeTokens(t, size, TakerFeeBps)
             net == IF fee > 0 /\ fee < a THEN a - fee ELSE a
             id == NextId
             new == positions'[id]
  <1>1. TypeOK /\ FlatMarkets(p) /\ FlatBook(p) /\ UnusedIds
    BY DEF FlatInv, LifeInv
  <1>2. /\ id \in PositionIds /\ LockCollateral(u, t, a, 0)
        /\ UNCHANGED wallets
    BY DEF OpenPosition, outsideVars
  <1>3. /\ positions' = [positions EXCEPT ![id] = new]
        /\ new.user = u /\ new.collateralToken = t /\ new.marketId = m
        /\ new.active /\ new.collateralAmount = net
        /\ new.entryPrice = ExecutionPrice(pools[m], latestPrice[m], size, long)
        /\ new.lastFundingIndex = FundingIndex(AccruedFunding(m), long)
        /\ new.entryPrice > 0
    BY <1>1, <1>2 DEF OpenPosition, TypeOK
  <1>4. ~positions[id].active
    BY <1>1, <1>2 DEF UnusedIds, NextId, PositionIds, TypeOK
  <1> HIDE DEF id, new
  <1>5. new \in Position
    BY <1>1, <1>2, <1>3, WrittenIsPosition
  <1>6. a \in Nat /\ net \in Nat /\ net <= a
    <2>1. a \in Nat /\ l \in Nat
      BY CoreAssumption
    <2>2. size \in Nat
      BY <2>1, UsdNat, mulFpNat
    <2> HIDE DEF size
    <2>3. fee \in Nat
      BY <2>2, TradingFeeTokensNat
    <2> HIDE DEF fee
    <2> QED
      BY <2>1, <2>3
  <1> HIDE DEF net
  <1>7. FlatEntry(new, p)
    <2>1. ExecutionPrice(pools[m], latestPrice[m], size, long) = latestPrice[m]
      BY <1>1 DEF FlatMarkets, ExecutionPrice
    <2>2. latestPrice[m] \in {0, p}
      BY <1>1 DEF FlatMarkets
    <2>3. new.entryPrice = p /\ latestPrice[m] = p
      BY <1>3, <2>1, <2>2
    <2>4. new.lastFundingIndex = 0
      BY <1>1, <1>3, FlatAccrual DEF FundingIndex
    <2> QED
      BY <1>3, <2>3, <2>4 DEF FlatEntry
  <1>8. /\ accounts'[u].balance[t] = accounts[u].balance[t] - a
        /\ \A v \in Users, k \in Tokens : v # u \/ k # t =>
              accounts'[v].balance[k] = accounts[v].balance[k]
    BY <1>1, <1>2, <1>6, SlotsOfIds, LockBalance
  <1>9. Stake(new, u, t) = net /\ Stake(positions[id], u, t) = 0
    BY <1>3, <1>4 DEF Stake
  <1>10. accounts[u].balance[t] \in Nat
    <2>1. accounts[u] \in Account
      BY <1>1 DEF TypeOK
    <2> QED
      BY <2>1 DEF Account
  <1>11. accounts'[u].balance[t] + Stake(new, u, t)
            <= accounts[u].balance[t] + Stake(positions[id], u, t)
    BY <1>6, <1>8, <1>9, <1>10
  <1>12. StakeMove(id, new, u, t)
    BY <1>2, <1>3, <1>4, <1>8, <1>11 DEF StakeMove
  <1> QED
    BY <1>1, <1>2, <1>5, <1>7, <1>12, FlatWrite

\* addCollateral: the whole amount becomes part of the stake.
LEMMA FlatAddCollateral ==
    ASSUME NEW p \in Nat, FlatInv(p), TypeOK',
           NEW id \in PositionIds, NEW a \in Amounts, AddCollateral(id, a)
    PROVE  FlatStep(p)
  <1> DEFINE pos == positions[id]
             u == pos.user
             t == pos.collateralToken
             new == positions'[id]
  <1>1. TypeOK /\ FlatMarkets(p) /\ FlatBook(p) /\ a \in Nat
    BY CoreAssumption DEF FlatInv, LifeInv
  <1>2. pos.active /\ LockCollateral(u, t, a, id) /\ UNCHANGED wallets
    BY DEF AddCollateral, outsideVars
  <1>3. /\ pos \in Position /\ FlatEntry(pos, p) /\ u \in Users /\ t \in Tokens
        /\ pos.collateralAmount \in Nat /\ accounts[u].balance[t] \in Nat
        /\ Stake(pos, u, t) = pos.collateralAmount
    BY <1>2, FlatActive
  <1>4. /\ positions' = [positions EXCEPT ![id] = new]
        /\ new.user = u /\ new.collateralToken = t /\ new.marketId = pos.marketId
        /\ new.active /\ new.collateralAmount = pos.collateralAmount + a
        /\ new.entryPrice = pos.entryPrice
        /\ new.lastFundingIndex = pos.lastFundingIndex
    BY <1>1, <1>2, <1>3 DEF AddCollateral, TypeOK, Position
  <1> HIDE DEF new
  <1>5. new \in Position
    BY <1>1, <1>4, WrittenIsPosition
  <1>6. FlatEntry(new, p)
    BY <1>2, <1>3, <1>4 DEF FlatEntry
  <1>7. /\ accounts'[u].balance[t] = accounts[u].balance[t] - a
        /\ \A v \in Users, k \in Tokens : v # u \/ k # t =>
              accounts'[v].balance[k] = accounts[v].balance[k]
    BY <1>1, <1>2, <1>3, SlotsOfIds, LockBalance
  <1>8. Stake(new, u, t) = pos.collateralAmount + a
    BY <1>4 DEF Stake
  <1>9. accounts'[u].balance[t] + Stake(new, u, t)
           <= accounts[u].balance[t] + Stake(pos, u, t)
    <2> HIDE DEF pos, u, t
    <2> QED
      BY <1>1, <1>3, <1>7, <1>8
  <1>10. StakeMove(id, new, u, t)
    BY <1>2, <1>4, <1>7, <1>9 DEF StakeMove
  <1> QED
    BY <1>1, <1>3, <1>5, <1>6, <1>10, FlatWrite

\* removeCollateral: what the stake loses the account gains.
LEMMA FlatRemoveCollateral ==
    ASSUME NEW p \in Nat, FlatInv(p), TypeOK',
           NEW id \in PositionIds, NEW a \in Amounts, RemoveCollateral(id, a)
    PROVE  FlatStep(p)
  <1> DEFINE pos == positions[id]
             u == pos.user
             t == pos.collateralToken
             tokens == pos.collateralAmount - a
             usd == SatSub(pos.collateralUsd, normalizeToUsd(t, a))
             new == [pos EXCEPT !.collateralAmount = tokens,
                                !.collateralUsd = usd]
  <1>1. TypeOK /\ FlatMarkets(p) /\ FlatBook(p) /\ a \in Nat
    BY CoreAssumption DEF FlatInv, LifeInv
  <1>2. pos.active
    BY DEF RemoveCollateral
  <1>3. /\ pos \in Position /\ FlatEntry(pos, p) /\ u \in Users /\ t \in Tokens
        /\ pos.collateralAmount \in Nat /\ accounts[u].balance[t] \in Nat
        /\ Stake(pos, u, t) = pos.collateralAmount /\ Settled(pos) = pos
    BY <1>2, FlatActive
  <1>4. /\ positions' = [positions EXCEPT ![id] = new]
        /\ a <= pos.collateralAmount
        /\ PayoutToVault(u, t, a, 0) /\ UNCHANGED wallets
    BY <1>3 DEF RemoveCollateral, outsideVars
  <1> HIDE DEF tokens, usd
  <1>5. /\ new.user = u /\ new.collateralToken = t /\ new.marketId = pos.marketId
        /\ new.active /\ new.collateralAmount = tokens
        /\ new.entryPrice = pos.entryPrice
        /\ new.lastFundingIndex = pos.lastFundingIndex
    BY <1>2, <1>3 DEF Position
  <1> HIDE DEF new
  <1>6. new \in Position
    BY <1>1, <1>4, WrittenIsPosition
  <1>7. FlatEntry(new, p)
    BY <1>2, <1>3, <1>5 DEF FlatEntry
  <1>8. /\ accounts'[u].balance[t] = accounts[u].balance[t] + a
        /\ \A v \in Users, k \in Tokens : v # u \/ k # t =>
              accounts'[v].balance[k] = accounts[v].balance[k]
    BY <1>1, <1>3, <1>4, SlotsOfIds, PaidBalance DEF PayoutToVault
  <1>9. Stake(new, u, t) = pos.collateralAmount - a
    BY <1>5 DEF Stake, tokens
  <1>10. accounts'[u].balance[t] + Stake(new, u, t)
           <= accounts[u].balance[t] + Stake(pos, u, t)
    <2> HIDE DEF pos, u, t
    <2> QED
      BY <1>1, <1>3, <1>4, <1>8, <1>9
  <1>11. StakeMove(id, new, u, t)
    BY <1>4, <1>5, <1>8, <1>10 DEF StakeMove
  <1> QED
    BY <1>1, <1>3, <1>6, <1>7, <1>11, FlatWrite

\* addSize: the fee is not part of what the stake gains, and the entry price
\* averages two equal prices.
LEMMA FlatAddSize ==
    ASSUME NEW k \in Nat, NEW p \in Nat, p = k * ONE, FlatInv(p), TypeOK',
           NEW id \in PositionIds, NEW a \in Amounts, NEW l \in Leverages,
           AddSize(id, a, l)
    PROVE  FlatStep(p)
  <1> DEFINE pos == positions[id]
             u == pos.user
             t == pos.collateralToken
             price == latestPrice[pos.marketId]
             size == mulFp(normalizeToUsd(t, a), l)
             net == SatSub(a, TradingFeeTokens(t, size, TakerFeeBps))
             entry == calculateAverageEntryPrice(
                         pos.sizeUsd, pos.entryPrice, size, price)
             total == pos.sizeUsd + size
             tokens == pos.collateralAmount + net
             usd == pos.collateralUsd + normalizeToUsd(t, net)
             new == [pos EXCEPT !.entryPrice = entry, !.sizeUsd = total,
                                !.collateralAmount = tokens,
                                !.collateralUsd = usd]
  <1>1. /\ TypeOK /\ FlatMarkets(p) /\ FlatBook(p) /\ a \in Nat /\ l \in Nat
    BY CoreAssumption DEF FlatInv, LifeInv
  <1>2. pos.active
    BY DEF AddSize
  <1>3. /\ pos \in Position /\ FlatEntry(pos, p) /\ u \in Users /\ t \in Tokens
        /\ pos.collateralAmount \in Nat /\ accounts[u].balance[t] \in Nat
        /\ Stake(pos, u, t) = pos.collateralAmount /\ Settled(pos) = pos
        /\ pos.entryPrice = p /\ price = p
    BY <1>2, FlatActive
  <1>4. /\ positions' = [positions EXCEPT ![id] = new]
        /\ LeverageAllowed(size, normalizeToUsd(t, a), MaxLeverage)
        /\ LockCollateral(u, t, a, id) /\ UNCHANGED wallets
    BY <1>3 DEF AddSize, outsideVars
  <1>5. size \in Nat /\ size > 0
    BY <1>1, <1>3, <1>4, UsdNat, mulFpNat DEF LeverageAllowed
  <1>6. entry = p
    <2>1. pos.sizeUsd \in Nat
      BY <1>3 DEF Position
    <2> HIDE DEF size
    <2> QED
      BY <1>3, <1>5, <2>1, FlatAverage
  <1>7. net \in Nat /\ net <= a
    <2> HIDE DEF size
    <2> QED
      BY <1>1, <1>3, <1>5, TradingFeeTokensNat, SatSubNat
  <1> HIDE DEF size, net, entry, total, usd, tokens
  <1>8. /\ new.user = u /\ new.collateralToken = t /\ new.marketId = pos.marketId
        /\ new.active /\ new.collateralAmount = tokens /\ new.entryPrice = entry
        /\ new.lastFundingIndex = pos.lastFundingIndex
    BY <1>2, <1>3 DEF Position
  <1> HIDE DEF new
  <1>9. new \in Position
    BY <1>1, <1>4, WrittenIsPosition
  <1>10. FlatEntry(new, p)
    BY <1>2, <1>3, <1>6, <1>8 DEF FlatEntry
  <1>11. /\ accounts'[u].balance[t] = accounts[u].balance[t] - a
         /\ \A v \in Users, i \in Tokens : v # u \/ i # t =>
               accounts'[v].balance[i] = accounts[v].balance[i]
    BY <1>1, <1>3, <1>4, SlotsOfIds, LockBalance
  <1>12. Stake(new, u, t) = pos.collateralAmount + net
    BY <1>8 DEF Stake, tokens
  <1>13. accounts'[u].balance[t] + Stake(new, u, t)
            <= accounts[u].balance[t] + Stake(pos, u, t)
    <2> HIDE DEF pos, u, t
    <2> QED
      BY <1>1, <1>3, <1>7, <1>11, <1>12
  <1>14. StakeMove(id, new, u, t)
    BY <1>2, <1>4, <1>8, <1>11, <1>13 DEF StakeMove
  <1> QED
    BY <1>1, <1>3, <1>9, <1>10, <1>14, FlatWrite

\* Without a profit a payout is at most the collateral released.
LEMMA FlatPayout ==
    ASSUME NEW t \in Tokens, NEW released \in Nat, NEW fee \in Nat
    PROVE  /\ Payout(t, released, 0, fee) \in Nat
           /\ Payout(t, released, 0, fee) <= released
  <1>1. GrossPayout(t, released, 0) = released
    BY NoUsdNoTokens DEF GrossPayout
  <1> QED
    BY <1>1, SatSubNat DEF Payout

\* partialClose pays at most what it releases.
LEMMA FlatPartialClose ==
    ASSUME NEW p \in Nat, FlatInv(p), TypeOK',
           NEW id \in PositionIds, NEW size \in CloseSizes,
           PartialClose(id, size)
    PROVE  FlatStep(p)
  <1> DEFINE pos == positions[id]
             u == pos.user
             t == pos.collateralToken
             fraction == divFp(size, pos.sizeUsd)
             whole == calculatePnl(pos, latestPrice[pos.marketId])
             pnl == mulFpSigned(whole, fraction)
             released == mulFp(pos.collateralAmount, fraction)
             fee == TradingFeeTokens(t, size, TakerFeeBps)
             payout == Payout(t, released, pnl, fee)
             left == pos.sizeUsd - size
             tokens == pos.collateralAmount - released
             usd == pos.collateralUsd - mulFp(pos.collateralUsd, fraction)
             new == [pos EXCEPT !.sizeUsd = left, !.collateralAmount = tokens,
                                !.collateralUsd = usd]
  <1>1. /\ TypeOK /\ FlatMarkets(p) /\ FlatBook(p) /\ size \in Nat
    BY CoreAssumption DEF FlatInv, LifeInv
  <1>2. pos.active
    BY DEF PartialClose
  <1>3. /\ pos \in Position /\ FlatEntry(pos, p) /\ u \in Users /\ t \in Tokens
        /\ pos.collateralAmount \in Nat /\ accounts[u].balance[t] \in Nat
        /\ Stake(pos, u, t) = pos.collateralAmount /\ Settled(pos) = pos
        /\ whole = 0
    BY <1>2, FlatActive
  <1>4. /\ positions' = [positions EXCEPT ![id] = new]
        /\ size > 0 /\ size < pos.sizeUsd
        /\ PayoutToVault(u, t, payout, 0) /\ UNCHANGED wallets
    BY <1>3 DEF PartialClose, outsideVars
  <1>5. /\ fraction \in Nat /\ released \in Nat /\ tokens \in Nat
    <2>1. size <= pos.sizeUsd
      BY <1>1, <1>3, <1>4 DEF Position
    <2> QED
      BY <1>1, <1>3, <1>4, <2>1, FractionOfPosition
  <1> HIDE DEF whole, fraction, left, usd
  <1>6. payout \in Nat /\ payout <= released
    <2>1. pnl = 0
      BY <1>3, <1>5, NothingScaled
    <2>2. fee \in Nat
      BY <1>1, <1>3, TradingFeeTokensNat
    <2> HIDE DEF pnl, fee, released
    <2> QED
      BY <1>3, <1>5, <2>1, <2>2, FlatPayout
  <1> HIDE DEF payout, tokens
  <1>7. /\ new.user = u /\ new.collateralToken = t /\ new.marketId = pos.marketId
        /\ new.active /\ new.collateralAmount = tokens
        /\ new.entryPrice = pos.entryPrice
        /\ new.lastFundingIndex = pos.lastFundingIndex
    BY <1>2, <1>3 DEF Position
  <1> HIDE DEF new
  <1>8. new \in Position
    BY <1>1, <1>4, WrittenIsPosition
  <1>9. FlatEntry(new, p)
    BY <1>2, <1>3, <1>7 DEF FlatEntry
  <1>10. /\ accounts'[u].balance[t] = accounts[u].balance[t] + payout
         /\ \A v \in Users, k \in Tokens : v # u \/ k # t =>
               accounts'[v].balance[k] = accounts[v].balance[k]
    BY <1>1, <1>3, <1>4, <1>6, SlotsOfIds, PaidBalance DEF PayoutToVault
  <1>11. Stake(new, u, t) = pos.collateralAmount - released
    BY <1>7 DEF Stake, tokens
  <1>12. accounts'[u].balance[t] + Stake(new, u, t)
            <= accounts[u].balance[t] + Stake(pos, u, t)
    <2> HIDE DEF pos, u, t, released
    <2> QED
      BY <1>3, <1>5, <1>6, <1>10, <1>11
  <1>13. StakeMove(id, new, u, t)
    BY <1>2, <1>4, <1>7, <1>10, <1>12 DEF StakeMove
  <1> QED
    BY <1>1, <1>3, <1>8, <1>9, <1>13, FlatWrite

\* A position is retired and its user is paid at most its collateral.
LEMMA FlatRetired ==
    ASSUME NEW p \in Nat, FlatInv(p), TypeOK', NEW id \in PositionIds,
           positions[id].active, NEW slot \in Slots, NEW payout \in Nat,
           payout <= positions[id].collateralAmount,
           positions' = [positions EXCEPT ![id] =
                           [positions[id] EXCEPT !.active = FALSE]],
           UNCHANGED wallets,
           accounts' = IF payout = 0 THEN accounts
                       ELSE [accounts EXCEPT ![positions[id].user] =
                               PayIn(@, positions[id].collateralToken, payout,
                                     slot)]
    PROVE  FlatStep(p)
  <1> DEFINE pos == positions[id]
             u == pos.user
             t == pos.collateralToken
             new == [pos EXCEPT !.active = FALSE]
  <1>1. TypeOK /\ FlatMarkets(p) /\ FlatBook(p)
    BY DEF FlatInv, LifeInv
  <1>2. /\ pos \in Position /\ FlatEntry(pos, p) /\ u \in Users /\ t \in Tokens
        /\ pos.collateralAmount \in Nat /\ accounts[u].balance[t] \in Nat
        /\ Stake(pos, u, t) = pos.collateralAmount
        /\ payout <= pos.collateralAmount
    BY FlatActive
  <1>3. positions' = [positions EXCEPT ![id] = new]
    OBVIOUS
  <1>4. ~new.active /\ new.lastFundingIndex = pos.lastFundingIndex
    BY <1>2 DEF Position
  <1> HIDE DEF new
  <1>5. new \in Position
    BY <1>1, <1>3, WrittenIsPosition
  <1>6. FlatEntry(new, p)
    BY <1>2, <1>4 DEF FlatEntry
  <1>7. /\ accounts'[u].balance[t] = accounts[u].balance[t] + payout
        /\ \A v \in Users, k \in Tokens : v # u \/ k # t =>
              accounts'[v].balance[k] = accounts[v].balance[k]
    BY <1>1, <1>2, PaidBalance
  <1>8. Stake(new, u, t) = 0
    BY <1>4 DEF Stake
  <1>9. accounts'[u].balance[t] + Stake(new, u, t)
           <= accounts[u].balance[t] + Stake(pos, u, t)
    <2> HIDE DEF pos, u, t
    <2> QED
      BY <1>2, <1>7, <1>8
  <1>10. StakeMove(id, new, u, t)
    BY <1>3, <1>4, <1>7, <1>9 DEF StakeMove
  <1> QED
    BY <1>1, <1>2, <1>5, <1>6, <1>10, FlatWrite

\* closePosition pays at most the collateral.
LEMMA FlatClosePosition ==
    ASSUME NEW p \in Nat, FlatInv(p), TypeOK', NEW id \in PositionIds,
           ClosePosition(id)
    PROVE  FlatStep(p)
  <1> DEFINE pos == positions[id]
             t == pos.collateralToken
             pnl == calculatePnl(pos, latestPrice[pos.marketId])
             fee == TradingFeeTokens(t, pos.sizeUsd, TakerFeeBps)
             payout == Payout(t, pos.collateralAmount, pnl, fee)
  <1>1. pos.active
    BY DEF ClosePosition
  <1>2. /\ pos \in Position /\ t \in Tokens /\ pos.collateralAmount \in Nat
        /\ Settled(pos) = pos /\ pnl = 0
    BY <1>1, FlatActive
  <1>3. /\ positions' = [positions EXCEPT ![id] = [pos EXCEPT !.active = FALSE]]
        /\ PayoutToVault(pos.user, t, payout, 0) /\ UNCHANGED wallets
    BY <1>2 DEF ClosePosition, outsideVars
  <1> HIDE DEF pnl
  <1>4. payout \in Nat /\ payout <= pos.collateralAmount
    <2>1. pos.sizeUsd \in Nat
      BY <1>2 DEF Position
    <2>2. fee \in Nat
      BY <1>2, <2>1, TradingFeeTokensNat
    <2> HIDE DEF fee
    <2> QED
      BY <1>2, <2>2, FlatPayout
  <1> HIDE DEF payout
  <1> QED
    BY <1>1, <1>3, <1>4, SlotsOfIds, FlatRetired DEF PayoutToVault

\* liquidate returns at most what the USD value left is worth, which the
\* tokens cover.
LEMMA FlatLiquidate ==
    ASSUME NEW p \in Nat, FlatInv(p), TypeOK', NEW id \in PositionIds,
           \A k \in Tokens : UsdScale[k].div = 1, Liquidate(id)
    PROVE  FlatStep(p)
  <1> DEFINE pos == positions[id]
             t == pos.collateralToken
             pnl == calculatePnl(pos, latestPrice[pos.marketId])
             equity == Equity(pos, latestPrice[pos.marketId])
             remaining == IF equity > 0 THEN usdToTokens(t, equity) ELSE 0
             remainder == SatSub(remaining, LiquidationPenalty(remaining))
  <1>1. pos.active
    BY DEF Liquidate
  <1>2. /\ pos \in Position /\ t \in Tokens /\ pos.collateralAmount \in Nat
        /\ Settled(pos) = pos /\ pnl = 0
    BY <1>1, FlatActive
  <1>3. /\ positions' = [positions EXCEPT ![id] = [pos EXCEPT !.active = FALSE]]
        /\ accounts' = IF remainder = 0 THEN accounts
                       ELSE [accounts EXCEPT ![pos.user] =
                               PayIn(@, t, remainder, id)]
        /\ UNCHANGED wallets
    BY <1>2 DEF Liquidate, outsideVars
  <1>4. equity = pos.collateralUsd /\ pos.collateralUsd \in Nat
    BY <1>2 DEF Equity, Position
  <1> HIDE DEF equity, pnl
  <1>5. remaining \in Nat /\ remaining <= pos.collateralAmount
    <2> DEFINE mul == UsdScale[t].mul
               v == pos.collateralAmount
    <2>1. mul \in Nat \ {0} /\ UsdScale[t].div = 1
      BY <1>2, UsdScaleAssumption, CoreAssumption
    <2>2. pos.collateralUsd <= v * mul
      BY DEF Covered, FlatInv, FlatBook
    <2>3. usdToTokens(t, equity) = equity \div mul
      BY <1>4, <2>1 DEF usdToTokens
    <2> HIDE DEF mul, v
    <2>4. v \in Nat
      BY <1>2 DEF v
    <2>5. v * mul \in Nat /\ (v * mul) \div mul = v
      BY <2>1, <2>4, MulNat, DivExact
    <2>6. equity \div mul <= v /\ equity \div mul \in Nat
      BY <1>4, <2>1, <2>2, <2>5, DivMonotone, DivNat
    <2> QED
      BY <2>3, <2>4, <2>6 DEF v
  <1> HIDE DEF remaining
  <1>6. LiquidationPenalty(remaining) \in Nat
    BY <1>5, LiquidationSplit
  <1>7. remainder \in Nat /\ remainder <= pos.collateralAmount
    <2>1. remainder \in Nat /\ remainder <= remaining
      BY <1>5, <1>6, SatSubNat
    <2> HIDE DEF remainder
    <2> QED
      BY <1>2, <1>5, <2>1
  <1> HIDE DEF remainder
  <1> QED
    BY <1>1, <1>3, <1>7, SlotsOfIds, FlatRetired

\* autoDeleverage takes from winners only, and there are none.
LEMMA FlatAutoDeleverage ==
    ASSUME NEW p \in Nat, FlatInv(p), NEW id \in PositionIds, NEW size,
           AutoDeleverage(id, size)
    PROVE  FALSE
  <1> DEFINE pos == positions[id]
             pnl == calculatePnl(pos, latestPrice[pos.marketId])
  <1>1. pos.active /\ pnl > 0
    BY DEF AutoDeleverage, ADLAllowed
  <1>2. pnl = 0
    BY <1>1, FlatActive
  <1> QED
    BY <1>1, <1>2

\* The user's own operations move tokens between wallet and account.
LEMMA FlatAccountStep ==
    ASSUME TypeOK, TypeOK', AccountStep
    PROVE  UNCHANGED positions /\ NobodyGains
  <1> DEFINE Goal == UNCHANGED positions /\ NobodyGains
  <1>1. ASSUME NEW v \in Users, NEW k \in Tokens
        PROVE  /\ accounts[v].balance[k] \in Nat /\ wallets[v][k] \in Nat
               /\ accounts[v] \in Account
    <2>1. accounts[v] \in Account
      BY DEF TypeOK
    <2>2. accounts[v].balance[k] \in Nat
      BY <2>1 DEF Account
    <2>3. wallets[v][k] \in Nat
      BY DEF TypeOK
    <2> QED
      BY <2>1, <2>2, <2>3
  <1>2. ASSUME NEW u \in Users, CreateVault(u)
        PROVE  Goal
    <2>1. UNCHANGED <<positions, wallets>>
      BY <1>2 DEF CreateVault, positionVars, outsideVars
    <2>2. ASSUME NEW v \in Users, NEW k \in Tokens
          PROVE  Cash(v, k)' <= Cash(v, k)
      <3>1. accounts' = [accounts EXCEPT ![u] = EmptyAccount(TRUE)]
        BY <1>2 DEF CreateVault
      <3>2. accounts'[v] = IF v = u THEN EmptyAccount(TRUE) ELSE accounts[v]
        BY <3>1 DEF TypeOK
      <3>3. EmptyAccount(TRUE).balance[k] = 0
        BY DEF EmptyAccount
      <3>4. accounts'[v].balance[k] <= accounts[v].balance[k]
            /\ accounts'[v].balance[k] \in Nat
        <4>1. CASE v = u
          <5>1. accounts'[v].balance[k] = 0
            BY <3>2, <3>3, <4>1
          <5> QED
            BY <1>1, <5>1
        <4>2. CASE v # u
          <5>1. accounts'[v].balance[k] = accounts[v].balance[k]
            BY <3>2, <4>2
          <5> QED
            BY <1>1, <5>1
        <4> QED
          BY <4>1, <4>2
      <3> QED
        BY <1>1, <2>1, <3>4 DEF Cash
    <2> QED
      BY <2>1, <2>2, CashOnly
  <1>3. ASSUME NEW u \in Users, NEW t \in Tokens, NEW d \in Int,
               accounts' = [accounts EXCEPT ![u].balance[t] = @ + d],
               wallets' = [wallets EXCEPT ![u][t] = @ - d],
               UNCHANGED positions
        PROVE  Goal
    <2>1. ASSUME NEW v \in Users, NEW k \in Tokens
          PROVE  Cash(v, k)' <= Cash(v, k)
      <3>1. accounts'[v].balance[k] =
              IF v = u /\ k = t THEN accounts[v].balance[k] + d
                                ELSE accounts[v].balance[k]
        <4> DEFINE sum == accounts[u].balance[t] + d
                   row == [accounts[u].balance EXCEPT ![t] = sum]
                   account == [accounts[u] EXCEPT !.balance = row]
        <4>1. accounts' = [accounts EXCEPT ![u] = account]
          BY <1>3
        <4> HIDE DEF sum
        <4>2. row[k] = IF k = t THEN sum ELSE accounts[u].balance[k]
          BY <1>1 DEF Account
        <4> HIDE DEF row
        <4>3. account.balance = row
          BY <1>1 DEF Account
        <4> HIDE DEF account
        <4>4. accounts'[v] = IF v = u THEN account ELSE accounts[v]
          BY <4>1 DEF TypeOK
        <4> QED
          BY <4>2, <4>3, <4>4 DEF sum
      <3>2. wallets'[v][k] = IF v = u /\ k = t THEN wallets[v][k] - d
                                               ELSE wallets[v][k]
        BY <1>3 DEF TypeOK
      <3> QED
        BY <1>1, <1>3, <3>1, <3>2 DEF Cash
    <2> QED
      BY <1>3, <2>1, CashOnly
  <1>4. ASSUME NEW u \in Users, NEW t \in Tokens, NEW a \in Nat, Deposit(u, t, a)
        PROVE  Goal
    <2>1. /\ accounts' = [accounts EXCEPT ![u].balance[t] = @ + a]
          /\ wallets' = [wallets EXCEPT ![u][t] = @ - a]
          /\ UNCHANGED positionVars
      BY <1>4 DEF Deposit
    <2>2. UNCHANGED positions /\ a \in Int
      BY <2>1 DEF positionVars
    <2> QED
      BY <1>3, <2>1, <2>2
  <1>5. ASSUME NEW u \in Users, NEW t \in Tokens, NEW a \in Nat,
               MoveToWallet(u, t, a)
        PROVE  Goal
    <2> DEFINE d == -a
    <2>1. d \in Int
      OBVIOUS
    <2>2. accounts' = [accounts EXCEPT ![u].balance[t] = @ + d]
      <3>1. accounts[u].balance[t] - a = accounts[u].balance[t] + d
        BY <1>1
      <3> QED
        BY <1>5, <3>1 DEF MoveToWallet
    <2>3. wallets' = [wallets EXCEPT ![u][t] = @ - d]
      <3>1. wallets[u][t] + a = wallets[u][t] - d
        BY <1>1
      <3> QED
        BY <1>5, <3>1 DEF MoveToWallet
    <2>4. UNCHANGED positions
      BY <1>5 DEF MoveToWallet, positionVars
    <2> HIDE DEF d
    <2> QED
      BY <1>3, <2>1, <2>2, <2>3, <2>4
  <1>6. ASSUME NEW u \in Users, NEW t \in Tokens
        PROVE  AvailableBalance(accounts[u], t) \in Nat
    BY <1>1, AvailableNat
  <1>7. Amounts \subseteq Nat
    BY CoreAssumption
  <1> HIDE DEF Goal
  <1>8. Goal
    BY <1>2, <1>4, <1>5, <1>6, <1>7 DEF AccountStep, Withdraw, EmergencyWithdraw
  <1> QED
    BY <1>8 DEF Goal

\* Every transaction keeps the records at their price and index, and nobody
\* gains by any.
LEMMA FlatStepNext ==
    ASSUME FlatPrice, NEW k \in Nat, NEW p \in Nat, p = k * ONE, FlatInv(p),
           TypeOK', [Next]_vars
    PROVE  FlatStep(p)
  <1>1. TypeOK /\ FlatBook(p)
    BY DEF FlatInv, LifeInv
  <1>2. ASSUME UNCHANGED positions, NobodyGains
        PROVE  FlatStep(p)
    BY <1>1, <1>2 DEF FlatStep, FlatBook
  <1>3. ASSUME UNCHANGED <<positions, wallets, accounts>>
        PROVE  FlatStep(p)
    <2>1. ASSUME NEW u \in Users, NEW t \in Tokens
          PROVE  Cash(u, t)' <= Cash(u, t)
      <3>1. Cash(u, t)' = Cash(u, t)
        BY <1>3 DEF Cash
      <3>2. Cash(u, t) \in Nat
        BY <1>1, OwnedNat DEF OwnedParts
      <3> QED
        BY <3>1, <3>2
    <2> QED
      BY <1>1, <1>2, <1>3, <2>1, CashOnly
  <1>4. CASE PositionStep
    <2>1. ASSUME NEW u \in Users, NEW m \in Markets, NEW t \in Tokens,
                 NEW a \in Amounts, NEW l \in Leverages, NEW long \in BOOLEAN,
                 OpenPosition(u, m, t, a, l, long)
          PROVE  FlatStep(p)
      BY <2>1, FlatOpenPosition
    <2>2. ASSUME NEW id \in PositionIds, NEW a \in Amounts, AddCollateral(id, a)
          PROVE  FlatStep(p)
      BY <2>2, FlatAddCollateral
    <2>3. ASSUME NEW id \in PositionIds, NEW a \in Amounts,
                 RemoveCollateral(id, a)
          PROVE  FlatStep(p)
      BY <2>3, FlatRemoveCollateral
    <2>4. ASSUME NEW id \in PositionIds, NEW a \in Amounts, NEW l \in Leverages,
                 AddSize(id, a, l)
          PROVE  FlatStep(p)
      BY <2>4, FlatAddSize
    <2>5. ASSUME NEW id \in PositionIds, NEW size \in CloseSizes,
                 PartialClose(id, size)
          PROVE  FlatStep(p)
      BY <2>5, FlatPartialClose
    <2>6. ASSUME NEW id \in PositionIds, ClosePosition(id)
          PROVE  FlatStep(p)
      BY <2>6, FlatClosePosition
    <2> QED
      BY <1>4, <2>1, <2>2, <2>3, <2>4, <2>5, <2>6 DEF PositionStep
  <1>5. CASE LiquidationStep
    <2>1. ASSUME NEW id \in PositionIds, Liquidate(id)
          PROVE  FlatStep(p)
      BY <2>1, FlatLiquidate DEF FlatPrice
    <2>2. ASSUME NEW id \in PositionIds, NEW size, AutoDeleverage(id, size)
          PROVE  FlatStep(p)
      BY <2>2, FlatAutoDeleverage
    <2> QED
      BY <1>5, <2>1, <2>2 DEF LiquidationStep
  <1>6. CASE VaultStep
    BY <1>3, <1>6 DEF VaultStep, FundVault, DefundVault, WithdrawInsurance,
                      positionVars, outsideVars
  <1>7. CASE AccountStep
    BY <1>1, <1>2, <1>7, FlatAccountStep
  <1>8. CASE MarketStep
    BY <1>3, <1>8 DEF MarketStep, UpdatePrice, UpdateFundingRate, SyncToOracle,
                 SwitchMarketPause, SwitchMarketEnabled, SwitchGlobalPause,
                 positionVars, outsideVars
  <1>9. CASE Tick \/ UNCHANGED vars
    BY <1>3, <1>9 DEF Tick, vars, positionVars, outsideVars
  <1> QED
    BY <1>4, <1>5, <1>6, <1>7, <1>8, <1>9 DEF Next

\* No price but p, no rate and no pool come to a market.
LEMMA FlatMarketsNext ==
    ASSUME FlatPrice, NEW p, Prices = {p}, TypeOK, FlatMarkets(p), [Next]_vars
    PROVE  /\ FlatMarkets(p)'
           /\ \A m \in Markets : latestPrice[m] = p => latestPrice'[m] = p
  <1>1. \/ UNCHANGED latestPrice
        \/ \E m \in Markets : latestPrice' = [latestPrice EXCEPT ![m] = p]
    <2>1. ASSUME NEW m \in Markets, NEW price \in Prices, UpdatePrice(m, price)
          PROVE  latestPrice' = [latestPrice EXCEPT ![m] = p]
      BY <2>1 DEF UpdatePrice
    <2>2. CASE PositionStep
      <3>1. ASSUME NEW u, NEW m, NEW t, NEW a, NEW l, NEW long,
                   OpenPosition(u, m, t, a, l, long)
            PROVE  UNCHANGED oracleVars
        BY <3>1 DEF OpenPosition
      <3>2. ASSUME NEW id, NEW a, AddCollateral(id, a) \/ RemoveCollateral(id, a)
            PROVE  UNCHANGED oracleVars
        BY <3>2 DEF AddCollateral, RemoveCollateral
      <3>3. ASSUME NEW id, NEW a, NEW l, AddSize(id, a, l)
            PROVE  UNCHANGED oracleVars
        BY <3>3 DEF AddSize
      <3>4. ASSUME NEW id, NEW size, PartialClose(id, size) \/ ClosePosition(id)
            PROVE  UNCHANGED oracleVars
        BY <3>4 DEF PartialClose, ClosePosition
      <3>5. UNCHANGED oracleVars
        BY <2>2, <3>1, <3>2, <3>3, <3>4 DEF PositionStep
      <3> QED
        BY <3>5 DEF oracleVars
    <2>3. CASE LiquidationStep
      BY <2>3 DEF LiquidationStep, Liquidate, AutoDeleverage, oracleVars
    <2>4. CASE VaultStep
      BY <2>4 DEF VaultStep, FundVault, DefundVault, WithdrawInsurance, oracleVars
    <2>5. CASE AccountStep
      <3>1. ASSUME NEW u, CreateVault(u)
            PROVE  UNCHANGED oracleVars
        BY <3>1 DEF CreateVault
      <3>2. ASSUME NEW u, NEW t, NEW a, Deposit(u, t, a) \/ MoveToWallet(u, t, a)
            PROVE  UNCHANGED oracleVars
        BY <3>2, ZenonT(20) DEF Deposit, MoveToWallet
      <3>3. UNCHANGED oracleVars
        BY <2>5, <3>1, <3>2 DEF AccountStep, Withdraw, EmergencyWithdraw
      <3> QED
        BY <3>3 DEF oracleVars
    <2>6. CASE MarketStep
      BY <2>1, <2>6 DEF MarketStep, UpdateFundingRate, SyncToOracle,
                   SwitchMarketPause, SwitchMarketEnabled, SwitchGlobalPause,
                   oracleVars
    <2>7. CASE Tick \/ UNCHANGED vars
      BY <2>7 DEF Tick, vars, oracleVars
    <2> QED
      BY <2>2, <2>3, <2>4, <2>5, <2>6, <2>7 DEF Next
  <1>2. UNCHANGED pools
    <2>1. ASSUME NEW m \in Markets, NEW size, NEW long, NEW open,
                 TradeOnPool(m, size, long, open)
          PROVE  UNCHANGED pools
      <3>1. ApplyVirtualTrade(pools[m], size, long = open) = pools[m]
        BY DEF ApplyVirtualTrade, FlatMarkets
      <3> QED
        BY <2>1, <3>1 DEF TradeOnPool, TypeOK
    <2>2. CASE PositionStep
      <3>1. ASSUME NEW u, NEW m \in Markets, NEW t, NEW a, NEW l, NEW long,
                   OpenPosition(u, m, t, a, l, long)
            PROVE  UNCHANGED pools
        BY <2>1, <3>1 DEF OpenPosition
      <3>2. ASSUME NEW id, NEW a, AddCollateral(id, a) \/ RemoveCollateral(id, a)
            PROVE  UNCHANGED pools
        BY <3>2 DEF AddCollateral, RemoveCollateral
      <3>3. ASSUME NEW id \in PositionIds, NEW a, NEW l, AddSize(id, a, l)
            PROVE  UNCHANGED pools
        BY <2>1, <3>3, SettledMarket DEF AddSize
      <3>4. ASSUME NEW id \in PositionIds, NEW size, PartialClose(id, size)
            PROVE  UNCHANGED pools
        BY <2>1, <3>4, SettledMarket DEF PartialClose
      <3>5. ASSUME NEW id \in PositionIds, ClosePosition(id)
            PROVE  UNCHANGED pools
        BY <2>1, <3>5, SettledMarket DEF ClosePosition
      <3> QED
        BY <2>2, <3>1, <3>2, <3>3, <3>4, <3>5 DEF PositionStep
    <2>3. CASE LiquidationStep
      <3>1. ASSUME NEW id \in PositionIds, Liquidate(id)
            PROVE  UNCHANGED pools
        BY <2>1, <3>1, SettledMarket DEF Liquidate
      <3>2. ASSUME NEW id, NEW size, AutoDeleverage(id, size)
            PROVE  UNCHANGED pools
        BY <3>2 DEF AutoDeleverage
      <3> QED
        BY <2>3, <3>1, <3>2 DEF LiquidationStep
    <2>4. CASE VaultStep
      BY <2>4 DEF VaultStep, FundVault, DefundVault, WithdrawInsurance
    <2>5. CASE AccountStep
      <3>1. ASSUME NEW u, CreateVault(u)
            PROVE  UNCHANGED pools
        BY <3>1 DEF CreateVault
      <3>2. ASSUME NEW u, NEW t, NEW a, Deposit(u, t, a) \/ MoveToWallet(u, t, a)
            PROVE  UNCHANGED pools
        BY <3>2, ZenonT(20) DEF Deposit, MoveToWallet
      <3> QED
        BY <2>5, <3>1, <3>2 DEF AccountStep, Withdraw, EmergencyWithdraw
    <2>6. CASE MarketStep
      <3>1. ASSUME NEW m \in Markets, SyncToOracle(m)
            PROVE  FALSE
        BY <3>1 DEF SyncToOracle, FlatMarkets
      <3> QED
        BY <2>6, <3>1 DEF MarketStep, UpdatePrice, UpdateFundingRate,
                   SwitchMarketPause, SwitchMarketEnabled, SwitchGlobalPause
    <2>7. CASE Tick \/ UNCHANGED vars
      BY <2>7 DEF Tick, vars
    <2> QED
      BY <2>2, <2>3, <2>4, <2>5, <2>6, <2>7 DEF Next
  <1>3. ASSUME NEW m \in Markets
        PROVE  /\ fundingStates'[m].long = 0
               /\ fundingStates'[m].short = 0
               /\ fundingStates'[m].rate = 0
    <2>1. /\ fundingStates[m].long = 0
          /\ fundingStates[m].short = 0
          /\ fundingStates[m].rate = 0
      BY DEF FlatMarkets
    <2>2. ASSUME NEW i \in Markets, NEW new,
                 new.long = 0, new.short = 0, new.rate = 0,
                 fundingStates' = [fundingStates EXCEPT ![i] = new]
          PROVE  /\ fundingStates'[m].long = 0
                 /\ fundingStates'[m].short = 0
                 /\ fundingStates'[m].rate = 0
      <3>1. fundingStates'[m] = IF m = i THEN new ELSE fundingStates[m]
        BY <2>2 DEF TypeOK
      <3> QED
        BY <2>1, <2>2, <3>1
    <2>3. ASSUME NEW i \in Markets, AccrueFunding(i)
          PROVE  /\ fundingStates'[m].long = 0
                 /\ fundingStates'[m].short = 0
                 /\ fundingStates'[m].rate = 0
      BY <2>2, <2>3, FlatAccrual DEF AccrueFunding
    <2>4. ASSUME NEW i \in Markets, NEW r \in FundingRates, UpdateFundingRate(i, r)
          PROVE  /\ fundingStates'[m].long = 0
                 /\ fundingStates'[m].short = 0
                 /\ fundingStates'[m].rate = 0
      <3> DEFINE accrued == AccruedFunding(i)
                 new == [accrued EXCEPT !.rate = r]
      <3>1. /\ accrued \in FundingState /\ accrued.long = 0
            /\ accrued.short = 0 /\ r = 0
        BY FlatAccrual DEF FlatPrice
      <3>2. fundingStates' = [fundingStates EXCEPT ![i] = new]
        BY <2>4 DEF UpdateFundingRate
      <3> HIDE DEF accrued
      <3>3. new.long = 0 /\ new.short = 0 /\ new.rate = 0
        BY <3>1 DEF FundingState
      <3> HIDE DEF new
      <3> QED
        BY <2>2, <3>2, <3>3
    <2> QED
      BY <2>1, <2>3, <2>4, FundingOfStep
  <1>4. ASSUME NEW m \in Markets
        PROVE  /\ latestPrice'[m] \in {0, p}
               /\ latestPrice[m] = p => latestPrice'[m] = p
    <2>1. latestPrice[m] \in {0, p}
      BY DEF FlatMarkets
    <2> QED
      BY <1>1, <2>1 DEF TypeOK
  <1> QED
    BY <1>2, <1>3, <1>4 DEF FlatMarkets

\* At one price of a whole number, without funding and without a vAMM, in
\* collateral of at most 18 decimals, no sequence of operations leaves a user
\* with more tokens than the user brought: fees, fractions, the conversion
\* of tokens, the averaged entry and the penalty all round against the user.
THEOREM NoFreeMoneyEver == FlatPrice => (Spec => []NoFreeMoney)
  <1> SUFFICES ASSUME FlatPrice
               PROVE  Spec => []NoFreeMoney
    OBVIOUS
  <1>1. PICK k \in Nat : Prices = {k * ONE}
    BY DEF FlatPrice
  <1> DEFINE p == k * ONE
             Inv == FlatInv(p) /\ NoFreeMoney
  <1>2. p \in Nat /\ p = k * ONE /\ Prices = {p}
    BY <1>1, MulNat, ONEAssumption
  <1> HIDE DEF p
  <1>3. Init => Inv
    <2> SUFFICES ASSUME Init
                 PROVE  Inv
      OBVIOUS
    <2>1. LifeInv /\ TypeOK
      BY LifeInvInit, InitType
    <2>2. FlatMarkets(p)
      BY DEF Init, FlatMarkets, FlatPrice
    <2>3. ASSUME NEW id \in PositionIds
          PROVE  Covered(positions[id]) /\ FlatEntry(positions[id], p)
      <3>1. positions[id] = EmptyPosition /\ EmptyPosition \in Position
        BY <2>1 DEF Init, TypeOK
      <3>2. UsdScale[EmptyPosition.collateralToken].mul \in Nat
        <4>1. EmptyPosition.collateralToken \in Tokens
          BY <3>1 DEF Position
        <4> QED
          BY <4>1, UsdScaleAssumption, CoreAssumption
      <3>3. /\ EmptyPosition.collateralUsd = 0
            /\ EmptyPosition.collateralAmount = 0
            /\ EmptyPosition.lastFundingIndex = 0
            /\ EmptyPosition.active = FALSE
        BY DEF EmptyPosition
      <3> QED
        BY <3>1, <3>2, <3>3 DEF Covered, FlatEntry
    <2>4. ASSUME NEW u \in Users, NEW t \in Tokens
          PROVE  Owned(u, t) <= WalletFunds
      <3> DEFINE f == [i \in PositionIds |-> Stake(positions[i], u, t)]
      <3>1. \A i \in PositionIds : f[i] = 0
        BY DEF Init, EmptyPosition, Stake
      <3>2. IsFiniteSet(PositionIds)
        BY FS_Interval, CoreAssumption DEF PositionIds
      <3>3. Stakes(positions, u, t) = SumFunctionOnSet(f, PositionIds)
        BY DEF Stakes, SumFunction
      <3> HIDE DEF f
      <3>4. Stakes(positions, u, t) = 0
        BY <3>1, <3>2, <3>3, SumOfZeros
      <3>5. Cash(u, t) = WalletFunds
        BY CoreAssumption DEF Init, Cash, EmptyAccount
      <3> QED
        BY <2>1, <3>4, <3>5, OwnedNat, CoreAssumption DEF OwnedParts
    <2> QED
      BY <2>1, <2>2, <2>3, <2>4 DEF FlatInv, FlatBook, NoFreeMoney
  <1>4. Inv /\ [Next]_vars => Inv'
    <2> SUFFICES ASSUME Inv, [Next]_vars
                 PROVE  Inv'
      OBVIOUS
    <2>1. TypeOK /\ LifeInv /\ FlatMarkets(p) /\ FlatBook(p) /\ NoFreeMoney
      BY DEF FlatInv, LifeInv
    <2>2. TypeOK' /\ LifeInv'
      BY <2>1, NextType, LifeOfStep, LifeInvNext
    <2>3. /\ FlatMarkets(p)'
          /\ \A m \in Markets : latestPrice[m] = p => latestPrice'[m] = p
      BY <1>2, <2>1, FlatMarketsNext
    <2>4. FlatStep(p)
      BY <1>2, <2>2, FlatStepNext
    <2>5. \A id \in PositionIds : Covered(positions'[id])
      <3>1. ASSUME NEW id \in PositionIds
            PROVE  Covered(positions[id]) /\ Covered(Settled(positions[id]))
        <4>1. /\ positions[id] \in Position /\ Covered(positions[id])
              /\ positions[id].lastFundingIndex = 0
          BY <2>1 DEF TypeOK, FlatBook, FlatEntry
        <4> QED
          BY <2>1, <4>1, FlatSettled
      <3> QED
        BY <2>1, <3>1, CoveredOfStep DEF FlatPrice
    <2>6. FlatBook(p)'
      <3> SUFFICES ASSUME NEW id \in PositionIds
                   PROVE  (Covered(positions[id]) /\ FlatEntry(positions[id], p))'
        BY DEF FlatBook
      <3>1. FlatEntry(positions'[id], p) /\ positions'[id] \in Position
        BY <2>2, <2>4 DEF FlatStep, TypeOK
      <3>2. positions'[id].marketId \in Markets
        BY <3>1 DEF Position
      <3>3. FlatEntry(positions[id], p)'
        BY <2>3, <3>1, <3>2 DEF FlatEntry
      <3>4. Covered(positions[id])'
        BY <2>5 DEF Covered
      <3> QED
        BY <3>3, <3>4
    <2>7. NoFreeMoney'
      <3>1. OwnedParts /\ OwnedParts'
        BY <2>1, <2>2, OwnedNat, PTL
      <3> SUFFICES ASSUME NEW u \in Users, NEW t \in Tokens
                   PROVE  Owned(u, t)' <= WalletFunds
        BY DEF NoFreeMoney
      <3>2. Owned(u, t)' <= Owned(u, t) /\ Owned(u, t) <= WalletFunds
        BY <2>1, <2>4 DEF FlatStep, NobodyGains, NoFreeMoney
      <3>3. Owned(u, t) \in Nat /\ Owned(u, t)' \in Nat
        BY <3>1 DEF OwnedParts
      <3> QED
        BY <3>2, <3>3, CoreAssumption
    <2> QED
      BY <2>2, <2>3, <2>6, <2>7 DEF FlatInv
  <1>5. Inv => NoFreeMoney
    OBVIOUS
  <1> QED
    BY <1>3, <1>4, <1>5, PTL DEF Spec
==============================================================================
