----------------------------- MODULE MCSession ------------------------------
(***************************************************************************)
(* Session for TLC: a battle, a second one, and any other packet.          *)
(***************************************************************************)
EXTENDS Session

CONSTANTS start1, finish1, start2, finish2, other

MCSessions == 1..2
MCBattles ==
  SelectSeq(<<start1, finish1, start2, finish2>>, LAMBDA p : p \in Packets)
MCOp == [p \in Packets |->
  CASE p \in {start1, start2} -> "start" [] p \in {finish1, finish2} -> "finish" [] OTHER -> "other"]

(* A behaviour may end when everybody is done, or with the process.        *)
AtRest ==
  /\ \/ process # "up"
     \/ \A p \in Packets : pc[p] = "done" /\ printer[p] = "done" /\ routine[p] \in {"none", "done"}
  /\ UNCHANGED vars
MCSpec == Init /\ [][Next \/ AtRest]_vars /\ Fairness
=============================================================================
