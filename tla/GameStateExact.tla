--------------------------- MODULE GameStateExact ---------------------------
(***************************************************************************)
(* GameState beside a reader of the traffic that takes one packet at a     *)
(* time: `due' is the mirror it would have.                                *)
(***************************************************************************)
EXTENDS GameState

VARIABLES
  due,    \* history: the first sync that came and the deltas that came since
  alone   \* history: has no packet come while another was processed?

exactVars == <<vars, due, alone>>

(* The packets with a handler or a goroutine at work on them.              *)
Processing ==
  {p \in Packets : pc[p] \in {"lock", "setLoaded"} \/ worker[p] \notin {"none", "done"}}

Arriving == {p \in Packets : pc[p] = "idle" /\ pc'[p] # "idle"}

(* What p adds to a mirror that is kept in order: nothing before the first *)
(* sync, and nothing if it is a later one or has no modifications.         *)
DueWith(p) ==
  CASE Kind[p] = "sync" /\ due = <<>>  -> <<p>>
    [] Kind[p] = "delta" /\ due # <<>> -> Append(due, p)
    [] OTHER                           -> due

ExactInit == Init /\ due = <<>> /\ alone = TRUE

ExactNext ==
  /\ Next
  /\ \/ Arriving = {} /\ UNCHANGED <<due, alone>>
     \/ \E p \in Arriving :
          /\ due' = DueWith(p)
          /\ alone' = (alone /\ Processing = {})

ExactSpec == ExactInit /\ [][ExactNext]_exactVars

(* As long as no two packets were processed at a time, the mirror holds,   *)
(* between any two of them, the first sync and every delta that came after *)
(* it: no packet is lost to a reader, a hook or a walk that has the mutex, *)
(* none is merged twice, and nothing that came before the sync is.  What   *)
(* handle lets pass are deletions and the syncs after the first one.       *)
MirrorExact == alone /\ loaded /\ Processing = {} => state = due
=============================================================================
