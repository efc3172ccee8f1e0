---------------------------- MODULE StateMirror ----------------------------
(***************************************************************************)
(* What the gamestate package promises to a module, free of goroutines,    *)
(* locks and queues.  Packets are accepted one after the other, in the     *)
(* order in which their handlers get to them; the mirror of the player's   *)
(* state absorbs every accepted packet, in that order; and a caller of     *)
(* GetStateRef, Get or StateSync gets a mirror that exists and that        *)
(* already holds every packet accepted before it called ("the gamestate is *)
(* guaranteed to be at least as new as the seqnum of the packet context    *)
(* that StateSync was called on", gamestate.go).                           *)
(***************************************************************************)
EXTENDS Naturals, Sequences

CONSTANTS Packets,      \* the packets that carry game state
          Readers       \* the goroutines that ask for the state

VARIABLES accepted,     \* the packets accepted so far, in order
          state,        \* the packets the mirror holds, in order
          calling,      \* the readers whose call has not returned
          asOf,         \* asOf[r]: packets accepted when r called
          view          \* view[r]: packets held by what r was last given

mirrorVars == <<accepted, state, calling, asOf, view>>

Init ==
  /\ accepted = <<>>
  /\ state = <<>>
  /\ calling = {}
  /\ asOf = [r \in Readers |-> 0]
  /\ view = [r \in Readers |-> 0]

Accept(p) ==
  /\ accepted' = Append(accepted, p)
  /\ UNCHANGED <<state, calling, asOf, view>>

Absorb ==
  /\ Len(state) < Len(accepted)
  /\ state' = Append(state, accepted[Len(state) + 1])
  /\ UNCHANGED <<accepted, calling, asOf, view>>

Call(r) ==
  /\ r \notin calling
  /\ calling' = calling \cup {r}
  /\ asOf' = [asOf EXCEPT ![r] = Len(accepted)]
  /\ UNCHANGED <<accepted, state, view>>

Return(r) ==
  /\ r \in calling
  /\ Len(state) >= 1
  /\ Len(state) >= asOf[r]
  /\ calling' = calling \ {r}
  /\ view' = [view EXCEPT ![r] = Len(state)]
  /\ UNCHANGED <<accepted, state, asOf>>

Next ==
  \/ \E p \in Packets : Accept(p)
  \/ Absorb
  \/ \E r \in Readers : Call(r) \/ Return(r)

Safety == Init /\ [][Next]_mirrorVars

(* An accepted packet is absorbed, and once there is a mirror every call   *)
(* returns.                                                                *)
Spec == Safety /\ WF_mirrorVars(Absorb) /\ \A r \in Readers : WF_mirrorVars(Return(r))
============================================================================
