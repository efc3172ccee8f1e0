--------------------------- MODULE MCPacketHooks ---------------------------
(***************************************************************************)
(* Instances of PacketHooks for TLC: hooks of three priorities on one op,  *)
(* a hook for every packet, and an op that has no hooks of its own.        *)
(***************************************************************************)
EXTENDS PacketHooks, TLC

CONSTANT
  FewHooks   \* bound: those that are hooked when two packets overlap

CONSTANTS high, middle, low, wild, start, finish

OneOp == {start}
TwoOps == {start, finish}
MCTarget == [h \in Hooks |-> IF h = wild THEN Wild ELSE start]
MCPriority == [h \in Hooks |-> CASE h = high -> 2 [] h = middle -> 1 [] OTHER -> 0]

(* Only the death of the process ends a behaviour.                         *)
Killed == crashed /\ UNCHANGED vars
Bounded == Alone' \/ \A h \in Hooks \ FewHooks : status'[h] = "idle"
MCSpec == Init /\ [][(Next /\ Bounded) \/ Killed]_vars

SamePackets == Permutations(Packets)
============================================================================
