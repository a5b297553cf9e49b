------------------------------ MODULE MCIndexer ------------------------------
(* A short chain, one position and one order, a batch of two blocks.         *)
EXTENDS Indexer
=============================================================================
