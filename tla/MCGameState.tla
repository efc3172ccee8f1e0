---------------------------- MODULE MCGameState ----------------------------
(***************************************************************************)
(* Instances of GameState for TLC.  The packets of a run are a subset of   *)
(* those below; "a" and "b" are the two paths that hooks can ask for.      *)
(***************************************************************************)
EXTENDS GameState, TLC

CONSTANTS sync1, sync2, delta1, delta2, delete1, other1, hook1, hook2, hook3

AllKinds == (sync1 :> "sync") @@ (sync2 :> "sync") @@ (delta1 :> "delta")
  @@ (delta2 :> "delta") @@ (delete1 :> "delete") @@ (other1 :> "other")

AllWalks == [p \in DOMAIN AllKinds |->
  CASE p = delta1 -> <<"a", "b">> [] p = delta2 -> <<"b">> [] OTHER -> <<>>]

MCKind == [p \in Packets |-> AllKinds[p]]
MCWalk == [p \in Packets |-> AllWalks[p]]
MCPaths == {"a", "b"}

(* hook1 and hook3 compete for a path, hook2 comes later in delta1.        *)
MCTarget == [h \in Hooks |-> IF h = hook2 THEN "b" ELSE "a"]

(* A behaviour of the instance may end when the process is dead, or when   *)
(* no packet is left to handle and nobody waits; anything else in which    *)
(* nobody can move is a deadlock.                                          *)
NobodyWaits ==
  /\ \A p \in Packets : pc[p] = "done" /\ worker[p] \in {"none", "done"}
  /\ parser = "receive" /\ hookQueue = <<>>
  /\ \A h \in Hooks : client[h] \in {"hooked", "unhooked", "missed", "panicked"}
AtRest == (~crashed => NobodyWaits) /\ UNCHANGED vars
MCSpec == Init /\ [][Next \/ AtRest]_vars
MCFairSpec == FairSpec
============================================================================
