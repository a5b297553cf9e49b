------------------------------- MODULE LibMath -------------------------------
(***************************************************************************)
(* Fixed-point arithmetic of contracts/diamond/libraries/LibMath.sol.      *)
(* ONE stands for PRECISION = 1e18: a quantity x of the model is the       *)
(* fixed-point number x / ONE.  Solidity's division truncates toward zero  *)
(* for signed operands, TLA+'s \div rounds down, hence TruncDiv.           *)
(* Operands are unbounded: the amounts of this protocol stay far below     *)
(* 2^256 and the compiler's checked arithmetic reverts otherwise.          *)
(***************************************************************************)
EXTENDS Integers

CONSTANT ONE          \* LibMath.PRECISION, 1e18 in the code

ASSUME ONEAssumption == ONE \in Nat \ {0}

BPS == 10000          \* LibMath.BPS_PRECISION

\* Solidity's signed division by a positive divisor: the sign moves out.
TruncDiv(a, b) == IF a >= 0 THEN a \div b ELSE -((-a) \div b)

mulFp(a, b) == (a * b) \div ONE
divFp(a, b) == (a * ONE) \div b
mulFpSigned(a, b) == TruncDiv(a * b, ONE)
divFpSigned(a, b) == TruncDiv(a * ONE, b)

SatSub_Unchecked(a, b) == a - b

\* "x > y ? x - y : 0", the saturating subtraction the facets write inline.
SatSub(a, b) == IF a > b THEN a - b ELSE 0
==============================================================================
