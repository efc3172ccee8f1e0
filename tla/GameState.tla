----------------------------- MODULE GameState -----------------------------
(***************************************************************************)
(* One instance of the gamestate package (proxy/gamestate): the mirror of  *)
(* one player's state, the mutex that guards it, the goroutines that take  *)
(* turns on that mutex and the queue through which state hooks arrive.     *)
(*                                                                         *)
(* The mutex is used in an unusual way.  It is born locked (New) and first *)
(* unlocked by the goroutine that parses S/account/syncData, so that every *)
(* caller waits for a state to exist; and afterwards the HTTP handler of a *)
(* packet locks it and hands it to the goroutine it spawns, so that the    *)
(* handler of the next packet waits for the merge of this one.  A Go mutex *)
(* has no owner, and unlocking a free one kills the process.               *)
(*                                                                         *)
(* Data is abstracted to what the properties tell apart: a packet is an    *)
(* identity with a kind and the paths of its JSON keys, the mirrored state *)
(* is the sequence of the packets merged into it, an event is the packet   *)
(* that caused it.                                                         *)
(***************************************************************************)
EXTENDS Naturals, Sequences, FiniteSets

CONSTANTS
  Packets,       \* responses of the game server; each is handled once
  Kind,          \* Kind[p]: "sync", "delta", "delete" or "other", see below
  Paths,         \* dotted paths of JSON object keys
  Walk,          \* Walk[p]: the paths of p's keys in document order
  Unresolved,    \* paths that go-lookup does not find in the state struct
  Hooks,         \* the calls of GameState.Hook
  Target,        \* Target[h]: the path h asks for
  EventOnly,     \* the hooks created with event = true
  Readers,       \* goroutines calling GetStateRef, Get or StateSync
  HookQueueMax,  \* capacity of the hookQueue channel (hookQueueMax = 100)
  ListenerCap,   \* capacity of the listener channel of every hook
  MaxInFlight,   \* responses the client may have outstanding at a time
  SyncOverlap,   \* may two S/account/syncData responses be handled at once?
  NoHook

(* "sync" is a S/account/syncData response, "delta" one that has a         *)
(* playerDataDelta.modified object, "delete" one whose playerDataDelta     *)
(* only has deletions, "other" any other packet, requests included.        *)
Kinds == {"sync", "delta", "delete", "other"}

ASSUME ConstantsAssumption ==
  /\ Kind \in [Packets -> Kinds]
  /\ Walk \in [Packets -> Seq(Paths)]
  /\ Target \in [Hooks -> Paths]
  /\ NoHook \notin Hooks
  /\ HookQueueMax \in Nat \ {0}
  /\ ListenerCap \in Nat \ {0}
  /\ MaxInFlight \in Nat \ {0}
  /\ SyncOverlap \in BOOLEAN

VARIABLES
  mutex,        \* stateMutex: "free", or what it was locked for
  loaded,       \* the field loaded
  state,        \* the packets merged into the mirror; <<>> while it is nil
  pc,           \* pc[p]: where the HTTP handler of p is
  worker,       \* worker[p]: where the goroutine spawned for p is
  pos,          \* pos[p]: the key of Walk[p] that WalkAndNotify is at
  hookQueue,    \* the channel hookQueue
  taken,        \* the hook parseHookQueue has received, or NoHook
  parser,       \* where parseHookQueue is
  stateHooks,   \* stateHooks[path]: the hooks attached to path
  listener,     \* listener[h]: the events in the channel of h
  client,       \* client[h]: what the module did with h
  reader,       \* reader[r]: where a caller of GetStateRef is
  crashed,      \* did the runtime kill the process?
  accepted,     \* history: packets with state, in the order of acceptance
  asOf,         \* history: asOf[r] packets had been accepted when r called
  view          \* history: view[r] packets were in the state r was given

lockVars   == <<mutex, crashed>>
mirrorVars == <<loaded, state, accepted>>
packetVars == <<pc, worker, pos>>
hookVars   == <<hookQueue, taken, parser, stateHooks, listener, client>>
readerVars == <<reader, asOf, view>>
vars == <<lockVars, mirrorVars, packetVars, hookVars, readerVars>>

TypeOK ==
  /\ mutex \in {"free", "new", "worker", "parser", "unhook", "reader"}
  /\ loaded \in BOOLEAN
  /\ state \in Seq(Packets)
  /\ pc \in [Packets -> {"idle", "lock", "setLoaded", "done"}]
  /\ worker \in [Packets -> {"none", "sync", "merge", "walk", "done"}]
  /\ pos \in [Packets -> Nat \ {0}]
  /\ hookQueue \in Seq(Hooks)
  /\ Len(hookQueue) <= HookQueueMax
  /\ taken \in Hooks \cup {NoHook}
  /\ parser \in {"receive", "lock", "append"}
  /\ stateHooks \in [Paths -> Seq(Hooks)]
  /\ listener \in [Hooks -> Seq(Packets)]
  /\ \A h \in Hooks : Len(listener[h]) <= ListenerCap
  /\ client \in [Hooks -> {"idle", "hooked", "nil", "lock", "remove",
                           "unhooked", "missed", "panicked"}]
  /\ reader \in [Readers -> {"idle", "lock", "read"}]
  /\ crashed \in BOOLEAN
  /\ accepted \in Seq(Packets)
  /\ asOf \in [Readers -> Nat]
  /\ view \in [Readers -> Nat]

----------------------------------------------------------------------------
(* The mutex                                                               *)

(* Slip: New forgets to lock.                                              *)
MutexAtBirth_Free == "free"

(* New locks the mutex before anybody can reach it.                        *)
MutexAtBirth == "new"

Lock(purpose) ==
  /\ mutex = "free"
  /\ mutex' = purpose
  /\ UNCHANGED crashed

(* sync.Mutex.Unlock throws "unlock of unlocked mutex", which no recover   *)
(* can catch, when the mutex is free.                                      *)
Unlock ==
  /\ mutex' = "free"
  /\ crashed' = (mutex = "free")

Init ==
  /\ mutex = MutexAtBirth
  /\ loaded = FALSE
  /\ state = <<>>
  /\ pc = [p \in Packets |-> "idle"]
  /\ worker = [p \in Packets |-> "none"]
  /\ pos = [p \in Packets |-> 1]
  /\ hookQueue = <<>>
  /\ taken = NoHook
  /\ parser = "receive"
  /\ stateHooks = [path \in Paths |-> <<>>]
  /\ listener = [h \in Hooks |-> <<>>]
  /\ client = [h \in Hooks |-> "idle"]
  /\ reader = [r \in Readers |-> "idle"]
  /\ crashed = FALSE
  /\ accepted = <<>>
  /\ asOf = [r \in Readers |-> 0]
  /\ view = [r \in Readers |-> 0]

----------------------------------------------------------------------------
(* Packets: GameState.handle, on the goroutine of the HTTP exchange        *)

InFlight == {p \in Packets : pc[p] \in {"lock", "setLoaded"}}

(* The response p comes back from the server and is given to handle.       *)
Arrives(p) ==
  /\ pc[p] = "idle"
  /\ Cardinality(InFlight) < MaxInFlight
  /\ Kind[p] = "sync" /\ ~SyncOverlap =>
       \A q \in InFlight : pc[q] # "setLoaded"

(* Slip: a packet that finds the mutex taken is skipped.                   *)
HandleLoaded_TryLock(p) ==
  /\ Arrives(p)
  /\ loaded
  /\ pc' = [pc EXCEPT ![p] = IF mutex = "free" THEN "lock" ELSE "done"]
  /\ UNCHANGED <<lockVars, loaded, state, accepted, worker, pos, hookVars, readerVars>>

(* handle: mod.loaded is read without synchronisation.                     *)
HandleLoaded(p) ==
  /\ Arrives(p)
  /\ loaded
  /\ pc' = [pc EXCEPT ![p] = "lock"]
  /\ UNCHANGED <<lockVars, loaded, state, accepted, worker, pos, hookVars, readerVars>>

(* Slip: the handler spawns the goroutine without locking for it.          *)
HandleLock_Unlocked(p) ==
  /\ pc[p] = "lock"
  /\ pc' = [pc EXCEPT ![p] = "done"]
  /\ worker' = [worker EXCEPT ![p] = "merge"]
  /\ accepted' = IF Kind[p] = "delta" THEN Append(accepted, p) ELSE accepted
  /\ UNCHANGED <<lockVars, loaded, state, pos, hookVars, readerVars>>

(* ... mod.stateMutex.Lock(); go mod.parseDataDelta(data, op)              *)
HandleLock(p) ==
  /\ pc[p] = "lock"
  /\ Lock("worker")
  /\ pc' = [pc EXCEPT ![p] = "done"]
  /\ worker' = [worker EXCEPT ![p] = "merge"]
  /\ accepted' = IF Kind[p] = "delta" THEN Append(accepted, p) ELSE accepted
  /\ UNCHANGED <<loaded, state, pos, hookVars, readerVars>>

(* ... else if op == "S/account/syncData": go mod.handleSyncData(data)     *)
HandleSync(p) ==
  /\ Arrives(p)
  /\ ~loaded
  /\ Kind[p] = "sync"
  /\ pc' = [pc EXCEPT ![p] = "setLoaded"]
  /\ worker' = [worker EXCEPT ![p] = "sync"]
  /\ accepted' = Append(accepted, p)
  /\ UNCHANGED <<lockVars, loaded, state, pos, hookVars, readerVars>>

(* ... mod.loaded = true                                                   *)
HandleSetLoaded(p) ==
  /\ pc[p] = "setLoaded"
  /\ loaded' = TRUE
  /\ pc' = [pc EXCEPT ![p] = "done"]
  /\ UNCHANGED <<lockVars, state, accepted, worker, pos, hookVars, readerVars>>

(* Before the sync every other packet is ignored.                          *)
HandleIgnored(p) ==
  /\ Arrives(p)
  /\ ~loaded
  /\ Kind[p] # "sync"
  /\ pc' = [pc EXCEPT ![p] = "done"]
  /\ UNCHANGED <<lockVars, loaded, state, accepted, worker, pos, hookVars, readerVars>>

----------------------------------------------------------------------------
(* Packets: the goroutine that handle spawns                               *)

(* handleSyncData, to its deferred Unlock.  A decoding error is only       *)
(* logged: whatever was decoded becomes the state.                         *)
HandleSyncData(p) ==
  /\ worker[p] = "sync"
  /\ state' = <<p>>
  /\ Unlock
  /\ worker' = [worker EXCEPT ![p] = "done"]
  /\ UNCHANGED <<loaded, accepted, pc, pos, hookVars, readerVars>>

(* parseDataDelta when there is no playerDataDelta.modified: return, which *)
(* runs the deferred Unlock.                                               *)
ParseNothing(p) ==
  /\ worker[p] = "merge"
  /\ Kind[p] # "delta"
  /\ Unlock
  /\ worker' = [worker EXCEPT ![p] = "done"]
  /\ UNCHANGED <<mirrorVars, pc, pos, hookVars, readerVars>>

(* parseDataDelta to the end of mergo.Merge.  Errors of decoding and of    *)
(* merging are logged and the walk goes on.                                *)
ParseDataDelta(p) ==
  /\ worker[p] = "merge"
  /\ Kind[p] = "delta"
  /\ state' = Append(state, p)
  /\ worker' = [worker EXCEPT ![p] = "walk"]
  /\ UNCHANGED <<lockVars, loaded, accepted, pc, pos, hookVars, readerVars>>

(* WalkAndNotify looks up the payload of a hook that wants one; a lookup   *)
(* that fails ends the walk.                                               *)
LookupFails(h) == h \notin EventOnly /\ Target[h] \in Unresolved

Fatal(path) == \E i \in 1..Len(stateHooks[path]) : LookupFails(stateHooks[path][i])

(* The hooks on path that the loop reaches before a lookup fails.          *)
Reached(path) ==
  {stateHooks[path][i] : i \in {j \in 1..Len(stateHooks[path]) :
     \A k \in 1..j : ~LookupFails(stateHooks[path][k])}}

(* A send that would block is dropped.                                     *)
Notify(path, p) ==
  listener' = [h \in Hooks |->
    IF h \in Reached(path) /\ Len(listener[h]) < ListenerCap
    THEN Append(listener[h], p) ELSE listener[h]]

(* Slip: the send to the listener has no default case and blocks.          *)
NotifyKey_Blocking(p) ==
  /\ worker[p] = "walk"
  /\ pos[p] <= Len(Walk[p])
  /\ ~Fatal(Walk[p][pos[p]])
  /\ \A h \in Reached(Walk[p][pos[p]]) : Len(listener[h]) < ListenerCap
  /\ Notify(Walk[p][pos[p]], p)
  /\ pos' = [pos EXCEPT ![p] = @ + 1]
  /\ UNCHANGED <<lockVars, mirrorVars, pc, worker,
                 hookQueue, taken, parser, stateHooks, client, readerVars>>

(* WalkAndNotify at one object key.                                        *)
NotifyKey(p) ==
  /\ worker[p] = "walk"
  /\ pos[p] <= Len(Walk[p])
  /\ ~Fatal(Walk[p][pos[p]])
  /\ Notify(Walk[p][pos[p]], p)
  /\ pos' = [pos EXCEPT ![p] = @ + 1]
  /\ UNCHANGED <<lockVars, mirrorVars, pc, worker,
                 hookQueue, taken, parser, stateHooks, client, readerVars>>

(* ... at a key where a lookup fails: return err, and parseDataDelta ends. *)
AbortWalk(p) ==
  /\ worker[p] = "walk"
  /\ pos[p] <= Len(Walk[p])
  /\ Fatal(Walk[p][pos[p]])
  /\ Notify(Walk[p][pos[p]], p)
  /\ Unlock
  /\ worker' = [worker EXCEPT ![p] = "done"]
  /\ UNCHANGED <<mirrorVars, pc, pos,
                 hookQueue, taken, parser, stateHooks, client, readerVars>>

(* Slip: the last return of parseDataDelta does not unlock.                *)
EndWalk_Locked(p) ==
  /\ worker[p] = "walk"
  /\ pos[p] > Len(Walk[p])
  /\ worker' = [worker EXCEPT ![p] = "done"]
  /\ UNCHANGED <<lockVars, mirrorVars, pc, pos, hookVars, readerVars>>

EndWalk(p) ==
  /\ worker[p] = "walk"
  /\ pos[p] > Len(Walk[p])
  /\ Unlock
  /\ worker' = [worker EXCEPT ![p] = "done"]
  /\ UNCHANGED <<mirrorVars, pc, pos, hookVars, readerVars>>

----------------------------------------------------------------------------
(* Hooks                                                                   *)

(* Slip: the queue has no bound.                                           *)
Hook_Unbounded(h) ==
  /\ client[h] = "idle"
  /\ hookQueue' = Append(hookQueue, h)
  /\ client' = [client EXCEPT ![h] = "hooked"]
  /\ UNCHANGED <<lockVars, mirrorVars, packetVars, taken, parser, stateHooks,
                 listener, readerVars>>

(* GameState.Hook: select { case mod.hookQueue <- hook: default: }         *)
Hook(h) ==
  /\ client[h] = "idle"
  /\ Len(hookQueue) < HookQueueMax
  /\ hookQueue' = Append(hookQueue, h)
  /\ client' = [client EXCEPT ![h] = "hooked"]
  /\ UNCHANGED <<lockVars, mirrorVars, packetVars, taken, parser, stateHooks,
                 listener, readerVars>>

(* ... the queue is full: return nil                                       *)
HookDropped(h) ==
  /\ client[h] = "idle"
  /\ Len(hookQueue) = HookQueueMax
  /\ client' = [client EXCEPT ![h] = "nil"]
  /\ UNCHANGED <<lockVars, mirrorVars, packetVars, hookQueue, taken, parser,
                 stateHooks, listener, readerVars>>

(* parseHookQueue: for hook := range mod.hookQueue                         *)
ParserReceive ==
  /\ parser = "receive"
  /\ hookQueue # <<>>
  /\ taken' = Head(hookQueue)
  /\ hookQueue' = Tail(hookQueue)
  /\ parser' = "lock"
  /\ UNCHANGED <<lockVars, mirrorVars, packetVars, stateHooks, listener, client, readerVars>>

ParserLock ==
  /\ parser = "lock"
  /\ Lock("parser")
  /\ parser' = "append"
  /\ UNCHANGED <<mirrorVars, packetVars, hookQueue, taken, stateHooks, listener,
                 client, readerVars>>

ParserAppend ==
  /\ parser = "append"
  /\ stateHooks' = [stateHooks EXCEPT ![Target[taken]] = Append(@, taken)]
  /\ taken' = NoHook
  /\ Unlock
  /\ parser' = "receive"
  /\ UNCHANGED <<mirrorVars, packetVars, hookQueue, listener, client, readerVars>>

(* GameStateHook.Unhook on the hook that Hook returned                     *)
Unhook(h) ==
  /\ client[h] = "hooked"
  /\ client' = [client EXCEPT ![h] = "lock"]
  /\ UNCHANGED <<lockVars, mirrorVars, packetVars, hookQueue, taken, parser,
                 stateHooks, listener, readerVars>>

UnhookLock(h) ==
  /\ client[h] = "lock"
  /\ Lock("unhook")
  /\ client' = [client EXCEPT ![h] = "remove"]
  /\ UNCHANGED <<mirrorVars, packetVars, hookQueue, taken, parser, stateHooks,
                 listener, readerVars>>

Attached(h) == \E i \in 1..Len(stateHooks[Target[h]]) : stateHooks[Target[h]][i] = h

(* Slip: oldHooks[:i+1] keeps the hook.                                    *)
Without_OffByOne(hooks, i) == SubSeq(hooks, 1, i) \o SubSeq(hooks, i + 1, Len(hooks))

Without(hooks, i) == SubSeq(hooks, 1, i - 1) \o SubSeq(hooks, i + 1, Len(hooks))

UnhookFound(h) ==
  /\ client[h] = "remove"
  /\ \E i \in 1..Len(stateHooks[Target[h]]) :
       /\ stateHooks[Target[h]][i] = h
       /\ \A j \in 1..(i - 1) : stateHooks[Target[h]][j] # h
       /\ stateHooks' = [stateHooks EXCEPT ![Target[h]] = Without(@, i)]
  /\ Unlock
  /\ client' = [client EXCEPT ![h] = "unhooked"]
  /\ UNCHANGED <<mirrorVars, packetVars, hookQueue, taken, parser, listener, readerVars>>

(* ... "Hook not found": the hook may still be on its way to stateHooks.   *)
UnhookNotFound(h) ==
  /\ client[h] = "remove"
  /\ ~Attached(h)
  /\ Unlock
  /\ client' = [client EXCEPT ![h] = "missed"]
  /\ UNCHANGED <<mirrorVars, packetVars, hookQueue, taken, parser, stateHooks,
                 listener, readerVars>>

(* ... on a nil receiver: oldHook.gs.log dereferences it.                  *)
UnhookNil(h) ==
  /\ client[h] = "nil"
  /\ client' = [client EXCEPT ![h] = "panicked"]
  /\ UNCHANGED <<lockVars, mirrorVars, packetVars, hookQueue, taken, parser,
                 stateHooks, listener, readerVars>>

(* The module takes an event out of its channel.                           *)
Receive(h) ==
  /\ listener[h] # <<>>
  /\ listener' = [listener EXCEPT ![h] = Tail(@)]
  /\ UNCHANGED <<lockVars, mirrorVars, packetVars, hookQueue, taken, parser,
                 stateHooks, client, readerVars>>

----------------------------------------------------------------------------
(* Readers: GetStateRef, Get and StateSync                                 *)

ReadCall(r) ==
  /\ reader[r] = "idle"
  /\ reader' = [reader EXCEPT ![r] = "lock"]
  /\ asOf' = [asOf EXCEPT ![r] = Len(accepted)]
  /\ UNCHANGED <<lockVars, mirrorVars, packetVars, hookVars, view>>

ReadLock(r) ==
  /\ reader[r] = "lock"
  /\ Lock("reader")
  /\ reader' = [reader EXCEPT ![r] = "read"]
  /\ UNCHANGED <<mirrorVars, packetVars, hookVars, asOf, view>>

ReadReturn(r) ==
  /\ reader[r] = "read"
  /\ view' = [view EXCEPT ![r] = Len(state)]
  /\ Unlock
  /\ reader' = [reader EXCEPT ![r] = "idle"]
  /\ UNCHANGED <<mirrorVars, packetVars, hookVars, asOf>>

----------------------------------------------------------------------------
HandleStep(p) ==
  \/ HandleLoaded(p) \/ HandleLock(p)
  \/ HandleSync(p) \/ HandleSetLoaded(p) \/ HandleIgnored(p)

WorkerStep(p) ==
  \/ HandleSyncData(p) \/ ParseNothing(p) \/ ParseDataDelta(p)
  \/ NotifyKey(p) \/ AbortWalk(p) \/ EndWalk(p)

ParserStep == ParserReceive \/ ParserLock \/ ParserAppend

ClientStep(h) ==
  \/ Hook(h) \/ HookDropped(h)
  \/ Unhook(h) \/ UnhookLock(h) \/ UnhookFound(h) \/ UnhookNotFound(h)
  \/ UnhookNil(h) \/ Receive(h)

ReaderStep(r) == ReadCall(r) \/ ReadLock(r) \/ ReadReturn(r)

Step ==
  \/ \E p \in Packets : HandleStep(p) \/ WorkerStep(p)
  \/ ParserStep
  \/ \E h \in Hooks : ClientStep(h)
  \/ \E r \in Readers : ReaderStep(r)

Next == ~crashed /\ Step

Spec == Init /\ [][Next]_vars

(* Every goroutine that can run does, and nobody who waits for the mutex   *)
(* is passed over for ever: a Go mutex that kept a waiter for a            *)
(* millisecond is handed over in FIFO order.  Nothing obliges the server   *)
(* to answer, a module to hook, to unhook or to receive, a reader to call. *)
Fairness ==
  /\ \A p \in Packets :
       /\ SF_vars(~crashed /\ HandleLock(p))
       /\ WF_vars(~crashed /\ HandleSetLoaded(p))
       /\ WF_vars(~crashed /\ WorkerStep(p))
  /\ WF_vars(~crashed /\ (ParserReceive \/ ParserAppend))
  /\ SF_vars(~crashed /\ ParserLock)
  /\ \A h \in Hooks :
       /\ SF_vars(~crashed /\ UnhookLock(h))
       /\ WF_vars(~crashed /\ (UnhookFound(h) \/ UnhookNotFound(h)))
  /\ \A r \in Readers :
       /\ SF_vars(~crashed /\ ReadLock(r))
       /\ WF_vars(~crashed /\ ReadReturn(r))

FairSpec == Spec /\ Fairness

----------------------------------------------------------------------------
(* Safety                                                                  *)

(* stateMutex does its job although no two of its Unlocks are in the       *)
(* function of their Lock: only the goroutine the mutex was locked for is  *)
(* in its critical section, be it the parse of the sync, the merge and     *)
(* walk of a delta, parseHookQueue, Unhook or a reader.                    *)
MutualExclusion ==
  /\ \A p, q \in Packets :
       /\ worker[p] = "sync" => mutex = "new"
       /\ worker[p] \in {"merge", "walk"} => mutex = "worker"
       /\ worker[p] \in {"sync", "merge", "walk"} /\ worker[q] \in {"sync", "merge", "walk"}
            => p = q
  /\ parser = "append" => mutex = "parser"
  /\ \A g, h \in Hooks :
       /\ client[h] = "remove" => mutex = "unhook"
       /\ client[g] = "remove" /\ client[h] = "remove" => g = h
  /\ \A r, s \in Readers :
       /\ reader[r] = "read" => mutex = "reader"
       /\ reader[r] = "read" /\ reader[s] = "read" => r = s

(* The mutex is never unlocked while it is free, which would take the      *)
(* whole proxy down.                                                       *)
NeverCrashes == ~crashed

(* The deltas and syncs that have been accepted and not yet merged.        *)
Pending(p) == worker[p] = "sync" \/ (worker[p] = "merge" /\ Kind[p] = "delta")

(* The mirror lags behind what handle has accepted by the packet that the  *)
(* holder of the mutex has in hand, and by no other; before the first sync *)
(* the mutex is still the one New locked.  Together with MutualExclusion,  *)
(* NeverCrashes and the types this is inductive.                           *)
HandoverInv ==
  /\ (mutex = "new") <=> (state = <<>>)
  /\ (~loaded /\ \A p \in Packets : pc[p] # "setLoaded") =>
       (mutex = "new" /\ \A p \in Packets : worker[p] # "sync")
  /\ \A p, q \in Packets : (pc[p] = "setLoaded" /\ pc[q] = "setLoaded") => p = q
  /\ \A p \in Packets : pc[p] = "setLoaded" => ~loaded
  /\ \A p \in Packets : Pending(p) => accepted = Append(state, p)
  /\ (\A p \in Packets : ~Pending(p)) => accepted = state
  /\ \A r \in Readers : asOf[r] <= Len(accepted)
  /\ parser \in {"lock", "append"} => taken \in Hooks

(* A channel holds the events of a hook in the order in which the deltas   *)
(* were merged, and only of deltas that have been merged: the mutex orders *)
(* the walks as it orders the merges.                                      *)
EventsInMergeOrder ==
  \A h \in Hooks : \E place \in [1..Len(listener[h]) -> 1..Len(state)] :
    /\ \A i \in 1..Len(listener[h]) : state[place[i]] = listener[h][i]
    /\ \A i, j \in 1..Len(listener[h]) : i < j => place[i] <= place[j]

(* GetStateRef, Get and StateSync return only when there is a state.       *)
ReadsSeeState ==
  [][\A r \in Readers : reader[r] = "read" /\ reader'[r] = "idle" => state # <<>>]_vars

(* ... and that state holds every packet that handle had accepted when the *)
(* call began, parsed or not: the promise of StateSync.                    *)
ReadsAreFresh ==
  [][\A r \in Readers : reader[r] = "read" /\ reader'[r] = "idle" =>
       view'[r] >= asOf[r]]_vars

(* Once Unhook has found and removed a hook, its channel gets no event,    *)
(* whatever packet is being processed at that moment.                      *)
UnhookStops ==
  [][\A h \in Hooks : client[h] = "unhooked" => Len(listener'[h]) <= Len(listener[h])]_vars

(* The same for every Unhook that has returned: "Unhook unhooks the hook   *)
(* from the gamestate".                                                    *)
UnhookAlwaysStops ==
  [][\A h \in Hooks : client[h] \in {"unhooked", "missed"} =>
       Len(listener'[h]) <= Len(listener[h])]_vars

(* Liveness                                                                *)

(* The handler of a packet, and with it the player's HTTP exchange, does   *)
(* not wait for ever: no listener, however slow, can hold it up.           *)
HandlersReturn == \A p \in Packets : pc[p] = "lock" ~> pc[p] = "done"

(* Once the sync has come, a hook in the queue gets attached, however many *)
(* packets and readers compete for the mutex.                              *)
HooksGetAttached ==
  \A h \in Hooks :
    loaded /\ (taken = h \/ \E i \in 1..Len(hookQueue) : hookQueue[i] = h)
      ~> Attached(h)

(* The package implements its promise, see StateMirror.                    *)
Mirror == INSTANCE StateMirror WITH
  Packets <- Packets, Readers <- Readers, accepted <- accepted, state <- state,
  calling <- {r \in Readers : reader[r] # "idle"}, asOf <- asOf, view <- view

MirrorSafety == Mirror!Safety
MirrorSpec == Mirror!Spec
============================================================================
