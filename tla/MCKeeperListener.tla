-------------------------- MODULE MCKeeperListener --------------------------
(* Two markets, two overlapping scans beside the fallback.                   *)
EXTENDS KeeperListener
=============================================================================
