---------------------------- MODULE MCChainState ----------------------------
(* Small instances of ChainState for TLC.                                  *)
EXTENDS ChainStateProofs, MCTrees

(* The trees keep the difficulty within a retarget period, as the theorems *)
(* on work assume.                                                         *)
ASSUME TreesKeepDifficulty == DifficultyKept

(* Without a block to assume and without a backfill, FairSpec is:          *)
UndisturbedSpec == Init /\ [][Synchronize \/ Shutdown \/ Crash]_vars /\ WF_vars(Progress)
==============================================================================
