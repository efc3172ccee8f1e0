------------------------- MODULE MCGameStateExact --------------------------
(***************************************************************************)
(* The instances of GameState with the histories of GameStateExact.        *)
(***************************************************************************)
EXTENDS MCGameState, GameStateExact

Ended == AtRest /\ UNCHANGED <<due, alone>>
MCExactSpec == ExactInit /\ [][ExactNext \/ Ended]_exactVars
============================================================================
