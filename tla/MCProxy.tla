------------------------------ MODULE MCProxy ------------------------------
(***************************************************************************)
(* Proxy for TLC: ann logs in twice and asks once, bob logs in once.  Of   *)
(* two modules the second has a shutdown callback.                         *)
(***************************************************************************)
EXTENDS Proxy, TLC

CONSTANTS ann, bob, login1, login2, login3, game1

MCUser == [x \in Exchanges |-> IF x = login3 THEN bob ELSE ann]
MCKind == [x \in Exchanges |-> IF x = game1 THEN "game" ELSE "login"]
MCWithShutdown == {2}

(* A behaviour may end when no exchange is left or the process is dead.    *)
AtRest ==
  /\ \/ ~Alive
     \/ \A x \in Exchanges : pc[x] \in {"done", "failed"}
  /\ UNCHANGED vars
MCSpec == Init /\ [][Next \/ AtRest]_vars /\ Fairness
============================================================================
