---------------------------- MODULE MCPerpTrading ----------------------------
(***************************************************************************)
(* Small instances of PerpTrading for TLC.  ONE = 4, so that a price or a  *)
(* leverage of 8 reads 2.0; amounts are small enough that every division   *)
(* of the code truncates on some path.                                     *)
(***************************************************************************)
EXTENDS PerpTrading, TLC

\* Tokens of 18 decimals and, scaled down, of fewer and of more than 18.
Dec18 == [t \in Tokens |-> [mul |-> 1, div |-> 1]]
Dec6  == [t \in Tokens |-> [mul |-> 3, div |-> 1]]
Dec24 == [t \in Tokens |-> [mul |-> 1, div |-> 3]]

NoPool == [base |-> 0, quote |-> 0]
SmallPool == [base |-> 40, quote |-> 80]

Rates == {-1, 0, 1}

SymUsers == Permutations(Users)
==============================================================================
