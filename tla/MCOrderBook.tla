----------------------------- MODULE MCOrderBook -----------------------------
(***************************************************************************)
(* Small instances of OrderBook for TLC, with the units of MCPerpTrading.  *)
(***************************************************************************)
EXTENDS OrderBook, TLC

Dec18 == [t \in Tokens |-> [mul |-> 1, div |-> 1]]

NoPool == [base |-> 0, quote |-> 0]
==============================================================================
