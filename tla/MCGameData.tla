----------------------------- MODULE MCGameData -----------------------------
(***************************************************************************)
(* GameData for TLC: more files than the channel and the workers can take, *)
(* of which one is looked up.                                              *)
(***************************************************************************)
EXTENDS GameData

CONSTANTS MCFileCount, MCTableCount, MCChangingCount

MCFiles == 1..MCFileCount
MCTables == 1..MCTableCount
MCChanging == 1..MCChangingCount

(* A behaviour may end when the process is dead.                           *)
Dead == process # "up" /\ UNCHANGED vars
MCSpec == Init /\ [][Next \/ Dead]_vars /\ Fairness
=============================================================================
