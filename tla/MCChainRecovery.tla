--------------------------- MODULE MCChainRecovery --------------------------
(* Small instances of ChainRecovery for TLC.                               *)
EXTENDS ChainRecovery, MCTrees
==============================================================================
