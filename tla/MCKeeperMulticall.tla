--------------------------- MODULE MCKeeperMulticall ---------------------------
(***************************************************************************)
(* Small instances of KeeperMulticall for TLC, with the units of           *)
(* MCPerpTrading.                                                          *)
(***************************************************************************)
EXTENDS KeeperMulticall, TLC

Dec18 == [t \in Tokens |-> [mul |-> 1, div |-> 1]]

NoPool == [base |-> 0, quote |-> 0]
SmallPool == [base |-> 40, quote |-> 80]

SymUsers == Permutations(Users)

Rates == {-1, 0, 1}
==============================================================================
