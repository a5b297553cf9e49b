----------------------------- MODULE MCOracleNode -----------------------------
(* One market of each source.  The first market's price rises out of one     *)
(* posting's reach and comes back.                                           *)
EXTENDS OracleNode

MCSource == [m \in Markets |-> IF m = 0 THEN "pyth" ELSE "orderly"]
\* One more digit than the chain keeps, and one less.
MCDigits == [m \in Markets |-> IF m = 0 THEN 2 ELSE 0]
MCPriceAt == LET at(p, q) == [m \in Markets |-> IF m = 0 THEN p ELSE q]
             IN  <<at(105, 7), at(165, 7), at(125, 8)>>
==============================================================================
