-------------------------- MODULE GameStateProofs --------------------------
(***************************************************************************)
(* Theorems about GameState for every set of packets, hooks and readers,   *)
(* most of them under the assumption ~SyncOverlap: the client does not     *)
(* have two S/account/syncData responses handled at once.                  *)
(***************************************************************************)
EXTENDS GameStateExact, TLAPS

(* The inductive invariant.                                                *)
IInv == TypeOK /\ MutualExclusion /\ NeverCrashes /\ HandoverInv

(* parseHookQueue holds a hook from the receive to the append.             *)
TakenInv == parser \in {"lock", "append"} => taken \in Hooks

USE DEF vars, lockVars, mirrorVars, packetVars, hookVars, readerVars

(* Taking one hook out of a list leaves a list of hooks.                   *)
LEMMA WithoutType ==
  ASSUME NEW s \in Seq(Hooks), NEW i \in 1..Len(s)
  PROVE  Without(s, i) \in Seq(Hooks)
BY DEF Without

(* A mirror that has absorbed a packet is not nil.                         *)
LEMMA AppendNonEmpty ==
  ASSUME NEW s \in Seq(Packets), NEW p \in Packets
  PROVE  Append(s, p) # <<>>
<1>1. Len(Append(s, p)) # 0  OBVIOUS
<1>2. Len(<<>>) = 0  OBVIOUS
<1> QED  BY <1>1, <1>2, Zenon

(* The types are right from the start.                                     *)
LEMMA InitType == Init => TypeOK
<1> SUFFICES ASSUME Init PROVE TypeOK  OBVIOUS
<1>1. <<>> \in Seq(Packets) /\ <<>> \in Seq(Hooks) /\ Len(<<>>) = 0  OBVIOUS
<1>2. state \in Seq(Packets) /\ hookQueue \in Seq(Hooks) /\ Len(hookQueue) <= HookQueueMax
  BY <1>1, ConstantsAssumption DEF Init
<1>3. /\ listener \in [Hooks -> Seq(Packets)]
      /\ \A h \in Hooks : Len(listener[h]) <= ListenerCap
  BY <1>1, ConstantsAssumption DEF Init
<1>4. stateHooks \in [Paths -> Seq(Hooks)]  BY <1>1 DEF Init
<1>5. /\ pc \in [Packets -> {"idle", "lock", "setLoaded", "done"}]
      /\ worker \in [Packets -> {"none", "sync", "merge", "walk", "done"}]
      /\ pos \in [Packets -> Nat \ {0}]
  BY DEF Init
<1>6. /\ client \in [Hooks -> {"idle", "hooked", "nil", "lock", "remove",
                              "unhooked", "missed", "panicked"}]
      /\ reader \in [Readers -> {"idle", "lock", "read"}]
      /\ asOf \in [Readers -> Nat] /\ view \in [Readers -> Nat]
  BY DEF Init
<1>7. /\ accepted \in Seq(Packets)
      /\ loaded \in BOOLEAN /\ crashed \in BOOLEAN
  BY <1>1 DEF Init
<1> QED  BY <1>2, <1>3, <1>4, <1>5, <1>6, <1>7 DEF Init, TypeOK, MutexAtBirth

(* What the steps of the HTTP handlers do to the types.                    *)
LEMMA HandleType ==
  ASSUME TypeOK, NEW p \in Packets, HandleStep(p)
  PROVE  TypeOK'
<1> USE ConstantsAssumption DEF TypeOK
<1>1. CASE HandleLoaded(p)  BY <1>1 DEF HandleLoaded
<1>2. CASE HandleLock(p)
  <2>1. pc' \in [Packets -> {"idle", "lock", "setLoaded", "done"}]
    BY <1>2 DEF HandleLock
  <2>2. worker' \in [Packets -> {"none", "sync", "merge", "walk", "done"}]
    BY <1>2 DEF HandleLock
  <2>3. accepted' \in Seq(Packets)  BY <1>2 DEF HandleLock
  <2> QED  BY <1>2, <2>1, <2>2, <2>3 DEF HandleLock, Lock
<1>3. CASE HandleSync(p)
  <2>1. pc' \in [Packets -> {"idle", "lock", "setLoaded", "done"}]
    BY <1>3 DEF HandleSync
  <2>2. worker' \in [Packets -> {"none", "sync", "merge", "walk", "done"}]
    BY <1>3 DEF HandleSync
  <2>3. accepted' \in Seq(Packets)  BY <1>3 DEF HandleSync
  <2> QED  BY <1>3, <2>1, <2>2, <2>3 DEF HandleSync
<1>4. CASE HandleSetLoaded(p)  BY <1>4 DEF HandleSetLoaded
<1>5. CASE HandleIgnored(p)  BY <1>5 DEF HandleIgnored
<1> QED  BY <1>1, <1>2, <1>3, <1>4, <1>5 DEF HandleStep

(* ... the steps of the goroutines that parse packets, ...                 *)
LEMMA WorkerType ==
  ASSUME TypeOK, NEW p \in Packets, WorkerStep(p)
  PROVE  TypeOK'
<1> USE ConstantsAssumption DEF TypeOK
<1>0. ASSUME NEW path \in Paths, Notify(path, p)
      PROVE  /\ listener' \in [Hooks -> Seq(Packets)]
             /\ \A h \in Hooks : Len(listener'[h]) <= ListenerCap
  BY <1>0 DEF Notify
<1>1. CASE HandleSyncData(p)  BY <1>1 DEF HandleSyncData, Unlock
<1>2. CASE ParseNothing(p)  BY <1>2 DEF ParseNothing, Unlock
<1>3. CASE ParseDataDelta(p)
  <2>1. worker' \in [Packets -> {"none", "sync", "merge", "walk", "done"}]
    BY <1>3 DEF ParseDataDelta
  <2>2. state' \in Seq(Packets)  BY <1>3 DEF ParseDataDelta
  <2> QED  BY <1>3, <2>1, <2>2 DEF ParseDataDelta
<1>4. CASE NotifyKey(p)
  <2>1. Walk[p][pos[p]] \in Paths  BY <1>4 DEF NotifyKey
  <2>2. pos[p] + 1 \in Nat \ {0}  OBVIOUS
  <2>3. pos' \in [Packets -> Nat \ {0}]  BY <1>4, <2>2 DEF NotifyKey
  <2> QED  BY <1>0, <1>4, <2>1, <2>3 DEF NotifyKey
<1>5. CASE AbortWalk(p)
  <2>1. Walk[p][pos[p]] \in Paths  BY <1>5 DEF AbortWalk
  <2> QED  BY <1>0, <1>5, <2>1 DEF AbortWalk, Unlock
<1>6. CASE EndWalk(p)  BY <1>6 DEF EndWalk, Unlock
<1> QED  BY <1>1, <1>2, <1>3, <1>4, <1>5, <1>6 DEF WorkerStep

(* ... parseHookQueue, which needs to hold a hook when it attaches one,    *)
LEMMA ParserType ==
  ASSUME TypeOK, TakenInv, ParserStep
  PROVE  TypeOK'
<1> USE ConstantsAssumption DEF TypeOK
<1>1. CASE ParserReceive
  <2>1. /\ taken' \in Hooks
        /\ hookQueue' \in Seq(Hooks)
        /\ Len(hookQueue') = Len(hookQueue) - 1
    BY <1>1 DEF ParserReceive
  <2>2. Len(hookQueue) \in Nat /\ HookQueueMax \in Nat /\ Len(hookQueue) <= HookQueueMax
    OBVIOUS
  <2>3. Len(hookQueue') <= HookQueueMax  BY <2>1, <2>2 DEF ParserReceive
  <2> QED  BY <1>1, <2>1, <2>3 DEF ParserReceive
<1>2. CASE ParserLock  BY <1>2 DEF ParserLock, Lock
<1>3. CASE ParserAppend
  <2>1. taken \in Hooks  BY <1>3 DEF ParserAppend, TakenInv
  <2>2. stateHooks' \in [Paths -> Seq(Hooks)]  BY <1>3, <2>1 DEF ParserAppend
  <2> QED  BY <1>3, <2>2 DEF ParserAppend, Unlock
<1> QED  BY <1>1, <1>2, <1>3 DEF ParserStep

(* ... the modules that hook, unhook and receive,                          *)
LEMMA ClientType ==
  ASSUME TypeOK, NEW h \in Hooks, ClientStep(h)
  PROVE  TypeOK'
<1> USE ConstantsAssumption DEF TypeOK
<1>1. CASE Hook(h)  BY <1>1 DEF Hook
<1>2. CASE HookDropped(h)  BY <1>2 DEF HookDropped
<1>3. CASE Unhook(h)  BY <1>3 DEF Unhook
<1>4. CASE UnhookLock(h)  BY <1>4 DEF UnhookLock, Lock
<1>5. CASE UnhookFound(h)
  <2>1. PICK i \in 1..Len(stateHooks[Target[h]]) :
          stateHooks' = [stateHooks EXCEPT ![Target[h]] = Without(@, i)]
    BY <1>5 DEF UnhookFound
  <2>2. Without(stateHooks[Target[h]], i) \in Seq(Hooks)  BY WithoutType
  <2>3. stateHooks' \in [Paths -> Seq(Hooks)]  BY <2>1, <2>2
  <2> QED  BY <1>5, <2>3 DEF UnhookFound, Unlock
<1>6. CASE UnhookNotFound(h)  BY <1>6 DEF UnhookNotFound, Unlock
<1>7. CASE UnhookNil(h)  BY <1>7 DEF UnhookNil
<1>8. CASE Receive(h)
  <2>1. /\ Tail(listener[h]) \in Seq(Packets)
        /\ Len(Tail(listener[h])) = Len(listener[h]) - 1
    BY <1>8 DEF Receive
  <2>2. listener' = [listener EXCEPT ![h] = Tail(@)]  BY <1>8 DEF Receive
  <2>3. listener' \in [Hooks -> Seq(Packets)]  BY <2>1, <2>2
  <2>4. listener'[h] = Tail(listener[h]) /\ \A g \in Hooks : g # h => listener'[g] = listener[g]
    BY <2>2
  <2>5. Len(listener'[h]) = Len(listener[h]) - 1  BY <2>1, <2>4, Zenon
  <2>6. Len(listener[h]) \in Nat /\ Len(listener[h]) <= ListenerCap /\ ListenerCap \in Nat
    OBVIOUS
  <2>7. \A g \in Hooks : Len(listener'[g]) <= ListenerCap
    <3>1. Len(listener'[h]) <= ListenerCap  BY <2>5, <2>6
    <3> QED  BY <2>4, <3>1
  <2> QED  BY <1>8, <2>3, <2>7 DEF Receive
<1> QED  BY <1>1, <1>2, <1>3, <1>4, <1>5, <1>6, <1>7, <1>8 DEF ClientStep

(* ... and the readers.                                                    *)
LEMMA ReaderType ==
  ASSUME TypeOK, NEW r \in Readers, ReaderStep(r)
  PROVE  TypeOK'
<1> USE DEF TypeOK
<1>1. CASE ReadCall(r)  BY <1>1 DEF ReadCall
<1>2. CASE ReadLock(r)  BY <1>2 DEF ReadLock, Lock
<1>3. CASE ReadReturn(r)  BY <1>3 DEF ReadReturn, Unlock
<1> QED  BY <1>1, <1>2, <1>3 DEF ReaderStep

LEMMA TypeStep ==
  ASSUME TypeOK, TakenInv, [Next]_vars
  PROVE  TypeOK' /\ TakenInv'
<1>1. CASE UNCHANGED vars  BY <1>1 DEF TypeOK, TakenInv
<1>2. ASSUME NEW p \in Packets, HandleStep(p) PROVE TypeOK' /\ TakenInv'
  <2>1. UNCHANGED <<parser, taken>>
    BY <1>2 DEF HandleStep, HandleLoaded, HandleLock, HandleSync, HandleSetLoaded, HandleIgnored
  <2> QED  BY <1>2, <2>1, HandleType DEF TakenInv
<1>3. ASSUME NEW p \in Packets, WorkerStep(p) PROVE TypeOK' /\ TakenInv'
  <2>1. UNCHANGED <<parser, taken>>
    BY <1>3 DEF WorkerStep, HandleSyncData, ParseNothing, ParseDataDelta, NotifyKey, AbortWalk,
                EndWalk
  <2> QED  BY <1>3, <2>1, WorkerType DEF TakenInv
<1>4. CASE ParserStep
  <2>1. CASE ParserReceive  BY <2>1, <1>4, ParserType DEF ParserReceive, TakenInv, TypeOK
  <2>2. CASE ParserLock  BY <2>2, <1>4, ParserType DEF ParserLock, TakenInv
  <2>3. CASE ParserAppend  BY <2>3, <1>4, ParserType DEF ParserAppend, TakenInv
  <2> QED  BY <1>4, <2>1, <2>2, <2>3 DEF ParserStep
<1>5. ASSUME NEW h \in Hooks, ClientStep(h) PROVE TypeOK' /\ TakenInv'
  <2>1. UNCHANGED <<parser, taken>>
    BY <1>5 DEF ClientStep, Hook, HookDropped, Unhook, UnhookLock, UnhookFound, UnhookNotFound,
                UnhookNil, Receive
  <2> QED  BY <1>5, <2>1, ClientType DEF TakenInv
<1>6. ASSUME NEW r \in Readers, ReaderStep(r) PROVE TypeOK' /\ TakenInv'
  <2>1. UNCHANGED <<parser, taken>>
    BY <1>6 DEF ReaderStep, ReadCall, ReadLock, ReadReturn
  <2> QED  BY <1>6, <2>1, ReaderType DEF TakenInv
<1> QED  BY <1>1, <1>2, <1>3, <1>4, <1>5, <1>6 DEF Next, Step

(* Whatever the client does, and even after a crash, the variables keep    *)
(* their types: the bounds of hookQueue (100) and of every listener        *)
(* channel included.                                                       *)
THEOREM TypeCorrect == Spec => []TypeOK
<1>1. Init => TypeOK /\ TakenInv  BY InitType DEF Init, TakenInv
<1>2. TypeOK /\ TakenInv /\ [Next]_vars => (TypeOK /\ TakenInv)'  BY TypeStep
<1> QED  BY <1>1, <1>2, PTL DEF Spec

----------------------------------------------------------------------------
(* The critical sections and the handover                                  *)

(* While the mutex is free no packet is in hand: the mirror is up to date. *)
LEMMA NobodyPending ==
  ASSUME IInv, mutex \notin {"new", "worker"}
  PROVE  accepted = state
BY DEF IInv, MutualExclusion, HandoverInv, Pending

(* A step keeps IInv's parts if all they depend on stays as it is.         *)
LEMMA FrameInv ==
  ASSUME IInv,
         UNCHANGED <<mutex, crashed, loaded, state, accepted, pc, worker>>,
         UNCHANGED <<parser, taken, reader, asOf>>,
         \A h \in Hooks : client'[h] = "remove" <=> client[h] = "remove"
  PROVE  MutualExclusion' /\ NeverCrashes' /\ HandoverInv'
<1> USE DEF IInv
<1>1. MutualExclusion'  BY DEF MutualExclusion
<1>2. NeverCrashes'  BY DEF NeverCrashes
<1>3. HandoverInv'  BY DEF HandoverInv, Pending
<1> QED  BY <1>1, <1>2, <1>3

(* The HTTP handlers.  Without overlapping syncs, a handler that sees      *)
(* ~loaded is the only one to do so with a sync in its hands.              *)
LEMMA HandleInv ==
  ASSUME ~SyncOverlap, IInv, NEW p \in Packets, HandleStep(p)
  PROVE  MutualExclusion' /\ NeverCrashes' /\ HandoverInv'
<1> USE DEF IInv, TypeOK
<1>1. CASE HandleLoaded(p)
  <2>1. MutualExclusion'  BY <1>1 DEF HandleLoaded, MutualExclusion
  <2>2. NeverCrashes'  BY <1>1 DEF HandleLoaded, NeverCrashes
  <2>3. HandoverInv'  BY <1>1 DEF HandleLoaded, HandoverInv, Pending
  <2> QED  BY <2>1, <2>2, <2>3
<1>2. CASE HandleLock(p)
  <2>1. MutualExclusion'  BY <1>2 DEF HandleLock, Lock, MutualExclusion
  <2>2. NeverCrashes'  BY <1>2 DEF HandleLock, Lock, NeverCrashes
  <2>3. HandoverInv'
    <3>1. accepted = state  BY <1>2, NobodyPending DEF HandleLock, Lock
    <3>2. \A q \in Packets : ~Pending(q)
      BY <1>2 DEF HandleLock, Lock, MutualExclusion, Pending
    <3>3. \A q \in Packets : Pending(q)' <=> q = p /\ Kind[p] = "delta"
      BY <1>2, <3>2 DEF HandleLock, Pending
    <3>4. /\ \A q \in Packets : Pending(q)' => accepted' = Append(state', q)
          /\ (\A q \in Packets : ~Pending(q)') => accepted' = state'
      BY <1>2, <3>1, <3>3 DEF HandleLock
    <3>5. \A r \in Readers : asOf'[r] <= Len(accepted')
      BY <1>2 DEF HandleLock, HandoverInv
    <3> QED  BY <1>2, <3>4, <3>5 DEF HandleLock, Lock, HandoverInv
  <2> QED  BY <2>1, <2>2, <2>3
<1>3. CASE HandleSync(p)
  <2>1. \A q \in Packets : pc[q] # "setLoaded"
    BY <1>3 DEF HandleSync, Arrives, InFlight
  <2>2. mutex = "new" /\ \A q \in Packets : worker[q] \in {"none", "done"}
    BY <1>3, <2>1 DEF HandleSync, HandoverInv, MutualExclusion
  <2>3. state = <<>> /\ accepted = state
    BY <2>2 DEF HandoverInv, Pending
  <2>4. MutualExclusion'  BY <1>3, <2>2 DEF HandleSync, MutualExclusion
  <2>5. NeverCrashes'  BY <1>3 DEF HandleSync, NeverCrashes
  <2>6. HandoverInv'
    <3>1. \A q \in Packets : Pending(q)' <=> q = p
      BY <1>3, <2>2 DEF HandleSync, Pending
    <3>2. \A r \in Readers : asOf'[r] <= Len(accepted')
      BY <1>3 DEF HandleSync, HandoverInv
    <3> QED  BY <1>3, <2>1, <2>2, <2>3, <3>1, <3>2 DEF HandleSync, HandoverInv
  <2> QED  BY <2>4, <2>5, <2>6
<1>4. CASE HandleSetLoaded(p)
  <2>1. MutualExclusion'  BY <1>4 DEF HandleSetLoaded, MutualExclusion
  <2>2. NeverCrashes'  BY <1>4 DEF HandleSetLoaded, NeverCrashes
  <2>3. HandoverInv'  BY <1>4 DEF HandleSetLoaded, HandoverInv, Pending
  <2> QED  BY <2>1, <2>2, <2>3
<1>5. CASE HandleIgnored(p)
  <2>1. MutualExclusion'  BY <1>5 DEF HandleIgnored, MutualExclusion
  <2>2. NeverCrashes'  BY <1>5 DEF HandleIgnored, NeverCrashes
  <2>3. HandoverInv'  BY <1>5 DEF HandleIgnored, Arrives, HandoverInv, Pending
  <2> QED  BY <2>1, <2>2, <2>3
<1> QED  BY <1>1, <1>2, <1>3, <1>4, <1>5 DEF HandleStep

(* The goroutines that parse: the one that unlocks is the one the mutex    *)
(* was locked for.                                                         *)
LEMMA WorkerInv ==
  ASSUME IInv, NEW p \in Packets, WorkerStep(p)
  PROVE  MutualExclusion' /\ NeverCrashes' /\ HandoverInv'
<1> USE DEF IInv, TypeOK
<1>0. ASSUME mutex = "worker", worker[p] \in {"merge", "walk"}, ~Pending(p),
             Unlock, worker' = [worker EXCEPT ![p] = "done"],
             UNCHANGED <<loaded, state, accepted, pc, parser, taken, client, reader, asOf>>
      PROVE  MutualExclusion' /\ NeverCrashes' /\ HandoverInv'
  <2>1. MutualExclusion'  BY <1>0 DEF Unlock, MutualExclusion
  <2>2. NeverCrashes'  BY <1>0 DEF Unlock, NeverCrashes
  <2>3. \A q \in Packets : Pending(q)' <=> Pending(q)
    BY <1>0 DEF Pending
  <2>4. HandoverInv'  BY <1>0, <2>3 DEF Unlock, HandoverInv
  <2> QED  BY <2>1, <2>2, <2>4
<1>1. CASE HandleSyncData(p)
  <2>0. mutex = "new" /\ state = <<>> /\ accepted = Append(state, p)
    BY <1>1 DEF HandleSyncData, MutualExclusion, HandoverInv, Pending
  <2>1. mutex = "new" /\ accepted = <<p>> /\ <<p>> # <<>>  BY <2>0
  <2>2. MutualExclusion'  BY <1>1, <2>1 DEF HandleSyncData, Unlock, MutualExclusion
  <2>3. NeverCrashes'  BY <1>1, <2>1 DEF HandleSyncData, Unlock, NeverCrashes
  <2>4. \A q \in Packets : ~Pending(q)'
    BY <1>1 DEF HandleSyncData, MutualExclusion, Pending
  <2>5. (mutex = "new")' <=> (state = <<>>)'
    BY <1>1, <2>1 DEF HandleSyncData, Unlock
  <2>6. \A r \in Readers : asOf'[r] <= Len(accepted')
    BY <1>1 DEF HandleSyncData, HandoverInv
  <2>7. ~(~loaded' /\ \A q \in Packets : pc'[q] # "setLoaded")
    BY <1>1 DEF HandleSyncData, HandoverInv
  <2>8. HandoverInv'
    BY <1>1, <2>1, <2>4, <2>5, <2>6, <2>7 DEF HandleSyncData, HandoverInv
  <2> QED  BY <2>2, <2>3, <2>8
<1>2. CASE ParseNothing(p)
  BY <1>0, <1>2 DEF ParseNothing, MutualExclusion, Pending
<1>3. CASE ParseDataDelta(p)
  <2>1. mutex = "worker" /\ accepted = Append(state, p)
    BY <1>3 DEF ParseDataDelta, MutualExclusion, HandoverInv, Pending
  <2>2. Append(state, p) # <<>> /\ state # <<>>
    BY <2>1, AppendNonEmpty DEF HandoverInv
  <2>3. MutualExclusion'  BY <1>3 DEF ParseDataDelta, MutualExclusion
  <2>4. NeverCrashes'  BY <1>3 DEF ParseDataDelta, NeverCrashes
  <2>5. \A q \in Packets : ~Pending(q)'
    BY <1>3 DEF ParseDataDelta, MutualExclusion, Pending
  <2>6. HandoverInv'
    BY <1>3, <2>1, <2>2, <2>5 DEF ParseDataDelta, HandoverInv
  <2> QED  BY <2>3, <2>4, <2>6
<1>4. CASE NotifyKey(p)  BY <1>4, FrameInv DEF NotifyKey
<1>5. CASE AbortWalk(p)
  BY <1>0, <1>5 DEF AbortWalk, MutualExclusion, Pending
<1>6. CASE EndWalk(p)
  BY <1>0, <1>6 DEF EndWalk, MutualExclusion, Pending
<1> QED  BY <1>1, <1>2, <1>3, <1>4, <1>5, <1>6 DEF WorkerStep

(* parseHookQueue.                                                         *)
LEMMA ParserInv ==
  ASSUME IInv, ParserStep
  PROVE  MutualExclusion' /\ NeverCrashes' /\ HandoverInv'
<1> USE DEF IInv, TypeOK
<1>1. CASE ParserReceive
  <2>1. MutualExclusion'  BY <1>1 DEF ParserReceive, MutualExclusion
  <2>2. NeverCrashes'  BY <1>1 DEF ParserReceive, NeverCrashes
  <2>3. taken' \in Hooks  BY <1>1 DEF ParserReceive
  <2>4. HandoverInv'  BY <1>1, <2>3 DEF ParserReceive, HandoverInv, Pending
  <2> QED  BY <2>1, <2>2, <2>4
<1>2. CASE ParserLock
  <2>1. MutualExclusion'  BY <1>2 DEF ParserLock, Lock, MutualExclusion
  <2>2. NeverCrashes'  BY <1>2 DEF ParserLock, Lock, NeverCrashes
  <2>3. HandoverInv'  BY <1>2 DEF ParserLock, Lock, HandoverInv, Pending
  <2> QED  BY <2>1, <2>2, <2>3
<1>3. CASE ParserAppend
  <2>1. mutex = "parser"  BY <1>3 DEF ParserAppend, MutualExclusion
  <2>2. MutualExclusion'  BY <1>3, <2>1 DEF ParserAppend, Unlock, MutualExclusion
  <2>3. NeverCrashes'  BY <1>3, <2>1 DEF ParserAppend, Unlock, NeverCrashes
  <2>4. HandoverInv'  BY <1>3, <2>1 DEF ParserAppend, Unlock, HandoverInv, Pending
  <2> QED  BY <2>2, <2>3, <2>4
<1> QED  BY <1>1, <1>2, <1>3 DEF ParserStep

(* The modules' calls.                                                     *)
LEMMA ClientInv ==
  ASSUME IInv, NEW h \in Hooks, ClientStep(h)
  PROVE  MutualExclusion' /\ NeverCrashes' /\ HandoverInv'
<1> USE DEF IInv, TypeOK
<1>0. ASSUME client[h] = "remove", Unlock, client'[h] # "remove",
             \A g \in Hooks \ {h} : client'[g] = client[g],
             UNCHANGED <<loaded, state, accepted, pc, worker, parser, taken, reader, asOf>>
      PROVE  MutualExclusion' /\ NeverCrashes' /\ HandoverInv'
  <2>1. mutex = "unhook"  BY <1>0 DEF MutualExclusion
  <2>2. MutualExclusion'  BY <1>0, <2>1 DEF Unlock, MutualExclusion
  <2>3. NeverCrashes'  BY <1>0, <2>1 DEF Unlock, NeverCrashes
  <2>4. HandoverInv'  BY <1>0, <2>1 DEF Unlock, HandoverInv, Pending
  <2> QED  BY <2>2, <2>3, <2>4
<1>1. CASE Hook(h)  BY <1>1, FrameInv DEF Hook
<1>2. CASE HookDropped(h)  BY <1>2, FrameInv DEF HookDropped
<1>3. CASE Unhook(h)  BY <1>3, FrameInv DEF Unhook
<1>4. CASE UnhookLock(h)
  <2>1. MutualExclusion'  BY <1>4 DEF UnhookLock, Lock, MutualExclusion
  <2>2. NeverCrashes'  BY <1>4 DEF UnhookLock, Lock, NeverCrashes
  <2>3. HandoverInv'  BY <1>4 DEF UnhookLock, Lock, HandoverInv, Pending
  <2> QED  BY <2>1, <2>2, <2>3
<1>5. CASE UnhookFound(h)  BY <1>0, <1>5 DEF UnhookFound
<1>6. CASE UnhookNotFound(h)  BY <1>0, <1>6 DEF UnhookNotFound
<1>7. CASE UnhookNil(h)  BY <1>7, FrameInv DEF UnhookNil
<1>8. CASE Receive(h)  BY <1>8, FrameInv DEF Receive
<1> QED  BY <1>1, <1>2, <1>3, <1>4, <1>5, <1>6, <1>7, <1>8 DEF ClientStep

(* The readers.                                                            *)
LEMMA ReaderInv ==
  ASSUME IInv, NEW r \in Readers, ReaderStep(r)
  PROVE  MutualExclusion' /\ NeverCrashes' /\ HandoverInv'
<1> USE DEF IInv, TypeOK
<1>1. CASE ReadCall(r)
  <2>1. MutualExclusion'  BY <1>1 DEF ReadCall, MutualExclusion
  <2>2. NeverCrashes'  BY <1>1 DEF ReadCall, NeverCrashes
  <2>3. \A s \in Readers : asOf'[s] <= Len(accepted')
    BY <1>1 DEF ReadCall, HandoverInv
  <2>4. HandoverInv'  BY <1>1, <2>3 DEF ReadCall, HandoverInv, Pending
  <2> QED  BY <2>1, <2>2, <2>4
<1>2. CASE ReadLock(r)
  <2>1. MutualExclusion'  BY <1>2 DEF ReadLock, Lock, MutualExclusion
  <2>2. NeverCrashes'  BY <1>2 DEF ReadLock, Lock, NeverCrashes
  <2>3. HandoverInv'  BY <1>2 DEF ReadLock, Lock, HandoverInv, Pending
  <2> QED  BY <2>1, <2>2, <2>3
<1>3. CASE ReadReturn(r)
  <2>1. mutex = "reader"  BY <1>3 DEF ReadReturn, MutualExclusion
  <2>2. MutualExclusion'  BY <1>3, <2>1 DEF ReadReturn, Unlock, MutualExclusion
  <2>3. NeverCrashes'  BY <1>3, <2>1 DEF ReadReturn, Unlock, NeverCrashes
  <2>4. HandoverInv'  BY <1>3, <2>1 DEF ReadReturn, Unlock, HandoverInv, Pending
  <2> QED  BY <2>2, <2>3, <2>4
<1> QED  BY <1>1, <1>2, <1>3 DEF ReaderStep

----------------------------------------------------------------------------
(* The theorems                                                            *)

(* New establishes the inductive invariant, ...                            *)
LEMMA InitInv == Init => IInv
<1> SUFFICES ASSUME Init PROVE MutualExclusion /\ NeverCrashes /\ HandoverInv
  BY InitType DEF IInv
<1>1. MutualExclusion  BY DEF Init, MutualExclusion
<1>2. NeverCrashes  BY DEF Init, NeverCrashes
<1>3. Len(accepted) = 0 /\ \A r \in Readers : asOf[r] = 0  BY DEF Init
<1>4. HandoverInv  BY <1>3 DEF Init, MutexAtBirth, HandoverInv, Pending
<1> QED  BY <1>1, <1>2, <1>4

(* ... and every step keeps it.                                            *)
LEMMA StepInv ==
  ASSUME ~SyncOverlap, IInv, [Next]_vars
  PROVE  IInv'
<1>1. CASE UNCHANGED vars
  <2>1. TypeOK'  BY <1>1 DEF IInv, TypeOK
  <2> QED  BY <1>1, <2>1, FrameInv DEF IInv
<1>2. ASSUME NEW p \in Packets, HandleStep(p) PROVE IInv'
  BY <1>2, HandleType, HandleInv DEF IInv
<1>3. ASSUME NEW p \in Packets, WorkerStep(p) PROVE IInv'
  BY <1>3, WorkerType, WorkerInv DEF IInv
<1>4. ASSUME ParserStep PROVE IInv'  BY <1>4, ParserType, ParserInv DEF IInv, HandoverInv, TakenInv
<1>5. ASSUME NEW h \in Hooks, ClientStep(h) PROVE IInv'
  BY <1>5, ClientType, ClientInv DEF IInv
<1>6. ASSUME NEW r \in Readers, ReaderStep(r) PROVE IInv'
  BY <1>6, ReaderType, ReaderInv DEF IInv
<1> QED  BY <1>1, <1>2, <1>3, <1>4, <1>5, <1>6 DEF Next, Step

(* If the client never has two syncs handled at once, then throughout      *)
(* every run the critical sections of stateMutex exclude each other, it is *)
(* never unlocked while free, and the mirror lags behind what handle has   *)
(* accepted by the packet in hand at most.                                 *)
THEOREM InvariantHolds ==
  ASSUME ~SyncOverlap
  PROVE  Spec => []IInv
<1>1. Init => IInv  BY InitInv
<1>2. IInv /\ [Next]_vars => IInv'  BY StepInv
<1> QED  BY <1>1, <1>2, PTL DEF Spec

(* stateMutex excludes, although it is handed from the goroutine that      *)
(* locks it to the one that unlocks it.                                    *)
THEOREM MutexExcludes ==
  ASSUME ~SyncOverlap
  PROVE  Spec => []MutualExclusion
<1>1. IInv => MutualExclusion  BY DEF IInv
<1> QED  BY <1>1, InvariantHolds, PTL

(* No Unlock ever finds the mutex free.                                    *)
THEOREM NoCrash ==
  ASSUME ~SyncOverlap
  PROVE  Spec => []NeverCrashes
<1>1. IInv => NeverCrashes  BY DEF IInv
<1> QED  BY <1>1, InvariantHolds, PTL

(* The mirror lags behind by the packet in hand at most.                   *)
THEOREM HandoverHolds ==
  ASSUME ~SyncOverlap
  PROVE  Spec => []HandoverInv
<1>1. IInv => HandoverInv  BY DEF IInv
<1> QED  BY <1>1, InvariantHolds, PTL

(* Only the readers' own steps move them.                                  *)
LEMMA ReaderMoves ==
  ASSUME [Next]_vars, NEW r \in Readers, TypeOK, reader'[r] # reader[r]
  PROVE  ReaderStep(r)
<1>1. ~(UNCHANGED reader)  OBVIOUS
<1>2. ASSUME NEW p \in Packets, HandleStep(p) PROVE UNCHANGED reader
  BY <1>2 DEF HandleStep, HandleLoaded, HandleLock, HandleSync, HandleSetLoaded,
              HandleIgnored
<1>3. ASSUME NEW p \in Packets, WorkerStep(p) PROVE UNCHANGED reader
  BY <1>3 DEF WorkerStep, HandleSyncData, ParseNothing, ParseDataDelta, NotifyKey,
              AbortWalk, EndWalk
<1>4. ASSUME ParserStep PROVE UNCHANGED reader
  BY <1>4 DEF ParserStep, ParserReceive, ParserLock, ParserAppend
<1>5. ASSUME NEW h \in Hooks, ClientStep(h) PROVE UNCHANGED reader
  BY <1>5 DEF ClientStep, Hook, HookDropped, Unhook, UnhookLock, UnhookFound,
              UnhookNotFound, UnhookNil, Receive
<1>6. ASSUME NEW s \in Readers, ReaderStep(s) PROVE s = r
  BY <1>6 DEF ReaderStep, ReadCall, ReadLock, ReadReturn, TypeOK
<1> QED  BY <1>1, <1>2, <1>3, <1>4, <1>5, <1>6 DEF Next, Step

(* GetStateRef, Get and StateSync never return before there is a state.    *)
THEOREM ReadsSee ==
  ASSUME ~SyncOverlap
  PROVE  Spec => ReadsSeeState
<1>1. IInv /\ [Next]_vars =>
        [\A r \in Readers : reader[r] = "read" /\ reader'[r] = "idle" => state # <<>>]_vars
  BY DEF IInv, MutualExclusion, HandoverInv
<1> QED  BY <1>1, InvariantHolds, PTL DEF Spec, ReadsSeeState

(* ... and what they return holds every packet accepted before the call.   *)
THEOREM ReadsFresh ==
  ASSUME ~SyncOverlap
  PROVE  Spec => ReadsAreFresh
<1>1. IInv /\ [Next]_vars =>
        [\A r \in Readers : reader[r] = "read" /\ reader'[r] = "idle" =>
           view'[r] >= asOf[r]]_vars
  <2> SUFFICES ASSUME IInv, [Next]_vars, NEW r \in Readers,
                      reader[r] = "read", reader'[r] = "idle"
               PROVE  view'[r] >= asOf[r]
    OBVIOUS
  <2>1. ReaderStep(r)  BY ReaderMoves DEF IInv
  <2>2. ReadReturn(r)  BY <2>1 DEF ReaderStep, ReadCall, ReadLock
  <2>3. accepted = state  BY NobodyPending DEF IInv, MutualExclusion
  <2>4. view'[r] = Len(state)  BY <2>2 DEF ReadReturn, IInv, TypeOK
  <2> QED  BY <2>3, <2>4 DEF IInv, HandoverInv, TypeOK
<1> QED  BY <1>1, InvariantHolds, PTL DEF Spec, ReadsAreFresh

----------------------------------------------------------------------------
(* Where a hook is                                                         *)

Queued(h) == \E i \in 1..Len(hookQueue) : hookQueue[i] = h

(* A hook is in one place at a time: in the queue, in the hands of         *)
(* parseHookQueue or attached to its path, and there once.                 *)
OneInv ==
  /\ \A i, j \in 1..Len(hookQueue) : hookQueue[i] = hookQueue[j] => i = j
  /\ \A path \in Paths : \A i, j \in 1..Len(stateHooks[path]) :
       /\ Target[stateHooks[path][i]] = path
       /\ stateHooks[path][i] = stateHooks[path][j] => i = j
  /\ \A h \in Hooks : Queued(h) => taken # h /\ ~Attached(h)
  /\ taken \in Hooks => ~Attached(taken)

(* Before Hook, after a nil and after an Unhook that found it: nowhere.    *)
Gone(h) == client[h] \in {"idle", "nil", "panicked", "unhooked"}

GoneInv == \A h \in Hooks : Gone(h) => ~Queued(h) /\ taken # h /\ ~Attached(h)

HooksInv == OneInv /\ GoneInv

LEMMA InitHooks == Init => HooksInv
<1> SUFFICES ASSUME Init PROVE HooksInv  OBVIOUS
<1>1. Len(hookQueue) = 0 /\ taken = NoHook /\ \A path \in Paths : Len(stateHooks[path]) = 0
  BY DEF Init
<1>2. \A h \in Hooks : ~Queued(h) /\ ~Attached(h)
  BY <1>1, ConstantsAssumption DEF Queued, Attached
<1> QED  BY <1>1, <1>2, ConstantsAssumption DEF HooksInv, OneInv, GoneInv

LEMMA HooksFrame ==
  ASSUME HooksInv, UNCHANGED <<hookQueue, taken, stateHooks>>, \A h \in Hooks : Gone(h)' => Gone(h)
  PROVE  HooksInv'
<1>1. \A h \in Hooks : (Queued(h)' <=> Queued(h)) /\ (Attached(h)' <=> Attached(h))
  BY DEF Queued, Attached
<1>2. (taken \in Hooks => ~Attached(taken))'  BY DEF HooksInv, OneInv, Attached
<1> QED  BY <1>1, <1>2 DEF HooksInv, OneInv, GoneInv

(* What Without leaves.                                                    *)
LEMMA WithoutElements ==
  ASSUME NEW s \in Seq(Hooks), NEW i \in 1..Len(s)
  PROVE  /\ Len(Without(s, i)) = Len(s) - 1
         /\ \A j \in 1..Len(s) - 1 : Without(s, i)[j] = s[IF j < i THEN j ELSE j + 1]
<1> DEFINE a == SubSeq(s, 1, i - 1)
           b == SubSeq(s, i + 1, Len(s))
<1>1. /\ a \in Seq(Hooks) /\ Len(a) = i - 1 /\ \A j \in 1..i - 1 : a[j] = s[j]
      /\ b \in Seq(Hooks) /\ Len(b) = Len(s) - i /\ \A j \in 1..Len(s) - i : b[j] = s[i + j]
  OBVIOUS
<1>2. Without(s, i) = a \o b  BY DEF Without
<1> HIDE DEF a, b
<1>3. Len(a \o b) = Len(s) - 1  BY <1>1
<1>4. ASSUME NEW j \in 1..Len(s) - 1 PROVE (a \o b)[j] = s[IF j < i THEN j ELSE j + 1]
  <2>1. CASE j < i  BY <1>1, <2>1
  <2>2. CASE j >= i
    <3>1. (a \o b)[j] = b[j - (i - 1)]  BY <1>1, <2>2
    <3>2. j - (i - 1) \in 1..Len(s) - i /\ i + (j - (i - 1)) = j + 1  BY <2>2
    <3> QED  BY <1>1, <2>2, <3>1, <3>2
  <2>3. j \in Nat /\ i \in Nat  OBVIOUS
  <2>4. j < i \/ j >= i  BY <2>3
  <2> QED  BY <2>1, <2>2, <2>4, Zenon
<1> QED  BY <1>2, <1>3, <1>4

(* A hook that comes is the last of the queue.                             *)
LEMMA HookKeeps ==
  ASSUME TypeOK, HooksInv, NEW x \in Hooks, Hook(x)
  PROVE  HooksInv'
<1> DEFINE n == Len(hookQueue)
<1>1. /\ client[x] = "idle" /\ UNCHANGED <<taken, stateHooks>>
      /\ client' = [client EXCEPT ![x] = "hooked"] /\ hookQueue' = Append(hookQueue, x)
  BY DEF Hook
<1>2. ~Queued(x) /\ taken # x /\ ~Attached(x)  BY <1>1 DEF HooksInv, GoneInv, Gone
<1>3. /\ n \in Nat /\ Len(hookQueue') = n + 1 /\ hookQueue'[n + 1] = x
      /\ \A i \in 1..n : hookQueue'[i] = hookQueue[i] /\ hookQueue[i] # x
  BY <1>1, <1>2 DEF TypeOK, Queued
<1> HIDE DEF n
<1>4. \A h \in Hooks : Queued(h)' <=> Queued(h) \/ h = x  BY <1>3 DEF Queued, n
<1>5. \A h \in Hooks : Attached(h)' <=> Attached(h)  BY <1>1 DEF Attached
<1>6. \A h \in Hooks : Gone(h)' => Gone(h) /\ h # x  BY <1>1 DEF Gone, TypeOK
<1>7. OneInv'
  <2>1. \A i, j \in 1..Len(hookQueue') : hookQueue'[i] = hookQueue'[j] => i = j
    BY <1>3 DEF HooksInv, OneInv, n
  <2>2. (taken \in Hooks => ~Attached(taken))'  BY <1>1 DEF HooksInv, OneInv, Attached
  <2> QED  BY <1>1, <1>2, <1>4, <1>5, <2>1, <2>2 DEF HooksInv, OneInv
<1>8. GoneInv'  BY <1>1, <1>4, <1>5, <1>6 DEF HooksInv, GoneInv
<1> QED  BY <1>7, <1>8 DEF HooksInv

(* parseHookQueue takes the first of the queue ...                         *)
LEMMA ReceiveKeeps ==
  ASSUME TypeOK, HooksInv, ParserReceive
  PROVE  HooksInv'
<1>1. /\ hookQueue # <<>> /\ taken' = Head(hookQueue) /\ hookQueue' = Tail(hookQueue)
      /\ UNCHANGED <<client, stateHooks>>
  BY DEF ParserReceive
<1>2. PICK n \in Nat : n = Len(hookQueue)  BY DEF TypeOK
<1>3. /\ n > 0 /\ Len(hookQueue') = n - 1 /\ taken' = hookQueue[1] /\ taken' \in Hooks
      /\ \A i \in 1..n - 1 : hookQueue'[i] = hookQueue[i + 1]
  BY <1>1, <1>2 DEF TypeOK
<1>4. PICK x \in Hooks : x = taken' /\ Queued(x)  BY <1>2, <1>3 DEF Queued
<1>5. \A i, j \in 1..n : hookQueue[i] = hookQueue[j] => i = j  BY <1>2 DEF HooksInv, OneInv
<1>6. \A h \in Hooks : Queued(h)' => Queued(h) /\ h # x
  <2> SUFFICES ASSUME NEW h \in Hooks, NEW i \in 1..n - 1, hookQueue'[i] = h
               PROVE  Queued(h) /\ h # x
    BY <1>3 DEF Queued
  <2>1. i + 1 \in 1..n /\ 1 \in 1..n /\ i + 1 # 1  BY <1>2, <1>3
  <2>2. hookQueue[i + 1] = h  BY <1>3
  <2> QED  BY <1>2, <1>3, <1>4, <1>5, <2>1, <2>2 DEF Queued
<1>7. \A h \in Hooks : (Attached(h)' <=> Attached(h)) /\ (Gone(h)' <=> Gone(h))
  BY <1>1 DEF Attached, Gone
<1>8. OneInv'
  <2>1. \A i, j \in 1..Len(hookQueue') : hookQueue'[i] = hookQueue'[j] => i = j
    <3> SUFFICES ASSUME NEW i \in 1..n - 1, NEW j \in 1..n - 1, hookQueue'[i] = hookQueue'[j]
                 PROVE  i = j
      BY <1>3
    <3>1. i + 1 \in 1..n /\ j + 1 \in 1..n  BY <1>2
    <3>2. i + 1 = j + 1  BY <1>3, <1>5, <3>1
    <3> QED  BY <3>2
  <2>2. ~Attached(x)'  BY <1>4, <1>7 DEF HooksInv, OneInv
  <2>3. (taken \in Hooks => ~Attached(taken))'  BY <1>4, <2>2 DEF Attached
  <2> QED  BY <1>1, <1>4, <1>6, <1>7, <2>1, <2>3 DEF HooksInv, OneInv
<1>9. GoneInv'  BY <1>4, <1>6, <1>7 DEF HooksInv, GoneInv
<1> QED  BY <1>8, <1>9 DEF HooksInv

(* ... and attaches it behind those of its path.                           *)
LEMMA AppendKeeps ==
  ASSUME TypeOK, HooksInv, taken \in Hooks, ParserAppend
  PROVE  HooksInv'
<1>1. PICK x \in Hooks, path \in Paths : x = taken /\ path = Target[x]
  BY ConstantsAssumption
<1>2. /\ stateHooks' = [stateHooks EXCEPT ![path] = Append(@, x)] /\ taken' = NoHook
      /\ UNCHANGED <<client, hookQueue>>
  BY <1>1 DEF ParserAppend
<1>3. PICK n \in Nat : n = Len(stateHooks[path])  BY DEF TypeOK
<1>4. stateHooks[path] \in Seq(Hooks) /\ stateHooks \in [Paths -> Seq(Hooks)]  BY DEF TypeOK
<1>5. /\ Len(stateHooks'[path]) = n + 1 /\ stateHooks'[path][n + 1] = x
      /\ \A i \in 1..n : stateHooks'[path][i] = stateHooks[path][i]
      /\ \A q \in Paths : q # path => stateHooks'[q] = stateHooks[q]
  BY <1>2, <1>3, <1>4
<1>6. ~Attached(x) /\ ~Queued(x)  BY <1>1 DEF HooksInv, OneInv
<1>7. \A i \in 1..n : stateHooks[path][i] # x  BY <1>1, <1>3, <1>6 DEF Attached
<1>8. \A h \in Hooks : Attached(h)' => Attached(h) \/ h = x
  <2> TAKE h \in Hooks
  <2>1. Target[h] \in Paths  BY ConstantsAssumption
  <2>2. CASE Target[h] = path  BY <1>3, <1>5, <2>2 DEF Attached
  <2>3. CASE Target[h] # path  BY <1>5, <2>1, <2>3 DEF Attached
  <2> QED  BY <2>2, <2>3
<1>9. \A h \in Hooks : (Queued(h)' <=> Queued(h)) /\ (Gone(h)' <=> Gone(h))
  BY <1>2 DEF Queued, Gone
<1>10. OneInv'
  <2>1. ASSUME NEW q \in Paths, NEW i \in 1..Len(stateHooks'[q]), NEW j \in 1..Len(stateHooks'[q])
        PROVE  /\ Target[stateHooks'[q][i]] = q
               /\ stateHooks'[q][i] = stateHooks'[q][j] => i = j
    <3>1. CASE q = path
      <4>1. \A k, m \in 1..n : /\ Target[stateHooks[path][k]] = path
                               /\ stateHooks[path][k] = stateHooks[path][m] => k = m
        BY <1>3 DEF HooksInv, OneInv
      <4>2. (i \in 1..n \/ i = n + 1) /\ (j \in 1..n \/ j = n + 1)  BY <1>5, <2>1, <3>1
      <4> QED  BY <1>1, <1>5, <1>7, <3>1, <4>1, <4>2
    <3>2. CASE q # path
      <4>1. stateHooks'[q] = stateHooks[q]  BY <1>5, <3>2
      <4>2. i \in 1..Len(stateHooks[q]) /\ j \in 1..Len(stateHooks[q])  BY <2>1, <4>1
      <4>3. /\ Target[stateHooks[q][i]] = q
            /\ stateHooks[q][i] = stateHooks[q][j] => i = j
        BY <4>2 DEF HooksInv, OneInv
      <4> QED  BY <4>1, <4>3
    <3> QED  BY <3>1, <3>2
  <2>2. \A h \in Hooks : Queued(h) => ~Attached(h)'  BY <1>6, <1>8 DEF HooksInv, OneInv
  <2>3. taken' \notin Hooks  BY <1>2, ConstantsAssumption
  <2>4. \A i, j \in 1..Len(hookQueue') : hookQueue'[i] = hookQueue'[j] => i = j
    BY <1>2 DEF HooksInv, OneInv
  <2> QED  BY <1>9, <2>1, <2>2, <2>3, <2>4 DEF OneInv
<1>11. GoneInv'
  <2>1. \A h \in Hooks : Gone(h) => ~Queued(h) /\ h # x /\ ~Attached(h)
    BY <1>1 DEF HooksInv, GoneInv
  <2>2. taken' \notin Hooks  BY <1>2, ConstantsAssumption
  <2> QED  BY <1>8, <1>9, <2>1, <2>2 DEF GoneInv
<1> QED  BY <1>10, <1>11 DEF HooksInv

(* An Unhook that finds its hook takes out the only one.                   *)
LEMMA FoundKeeps ==
  ASSUME TypeOK, HooksInv, NEW x \in Hooks, UnhookFound(x)
  PROVE  HooksInv'
<1>1. PICK path \in Paths : path = Target[x]  BY ConstantsAssumption
<1>2. PICK c \in 1..Len(stateHooks[path]) :
        /\ stateHooks[path][c] = x
        /\ stateHooks' = [stateHooks EXCEPT ![path] = Without(@, c)]
        /\ UNCHANGED <<hookQueue, taken>> /\ client' = [client EXCEPT ![x] = "unhooked"]
  BY <1>1 DEF UnhookFound
<1>3. PICK n \in Nat : n = Len(stateHooks[path]) /\ n > 0  BY <1>2 DEF TypeOK
<1>4. stateHooks[path] \in Seq(Hooks) /\ stateHooks \in [Paths -> Seq(Hooks)]  BY DEF TypeOK
<1> DEFINE old(j) == IF j < c THEN j ELSE j + 1
<1>5. /\ Len(stateHooks'[path]) = n - 1
      /\ \A j \in 1..n - 1 : stateHooks'[path][j] = stateHooks[path][old(j)]
      /\ \A q \in Paths : q # path => stateHooks'[q] = stateHooks[q]
  BY <1>2, <1>3, <1>4, WithoutElements
<1>6. \A j \in 1..n - 1 : old(j) \in 1..n /\ old(j) # c  BY <1>2, <1>3
<1>7. \A j, k \in 1..n - 1 : old(j) = old(k) => j = k  BY <1>2, <1>3
<1> HIDE DEF old
<1>8. \A k, m \in 1..n : /\ Target[stateHooks[path][k]] = path
                         /\ stateHooks[path][k] = stateHooks[path][m] => k = m
  BY <1>3 DEF HooksInv, OneInv
<1>9. \A j \in 1..n - 1 : stateHooks'[path][j] # x  BY <1>2, <1>3, <1>5, <1>6, <1>8
<1>10. \A h \in Hooks : Attached(h)' => Attached(h) /\ h # x
  <2> TAKE h \in Hooks
  <2>1. Target[h] \in Paths  BY ConstantsAssumption
  <2>2. CASE Target[h] = path
    <3> SUFFICES ASSUME NEW j \in 1..n - 1, stateHooks'[path][j] = h PROVE Attached(h) /\ h # x
      BY <1>5, <2>2 DEF Attached
    <3>1. stateHooks[path][old(j)] = h /\ old(j) \in 1..n  BY <1>5, <1>6
    <3> QED  BY <1>3, <1>9, <2>2, <3>1 DEF Attached
  <2>3. CASE Target[h] # path  BY <1>1, <1>5, <2>1, <2>3 DEF Attached
  <2> QED  BY <2>2, <2>3
<1>11. Attached(x)  BY <1>1, <1>2 DEF Attached
<1>12. ~Queued(x) /\ taken # x  BY <1>11 DEF HooksInv, OneInv
<1>13. \A h \in Hooks : (Queued(h)' <=> Queued(h)) /\ (h # x => (Gone(h)' <=> Gone(h)))
  BY <1>2 DEF Queued, Gone, TypeOK
<1>14. OneInv'
  <2>1. ASSUME NEW q \in Paths, NEW i \in 1..Len(stateHooks'[q]), NEW j \in 1..Len(stateHooks'[q])
        PROVE  /\ Target[stateHooks'[q][i]] = q
               /\ stateHooks'[q][i] = stateHooks'[q][j] => i = j
    <3>1. CASE q = path
      <4>1. i \in 1..n - 1 /\ j \in 1..n - 1  BY <1>5, <3>1
      <4>2. old(i) \in 1..n /\ old(j) \in 1..n  BY <1>6, <4>1
      <4>3. /\ stateHooks'[path][i] = stateHooks[path][old(i)]
            /\ stateHooks'[path][j] = stateHooks[path][old(j)]
        BY <1>5, <4>1
      <4>4. Target[stateHooks[path][old(i)]] = path  BY <1>8, <4>2
      <4>5. stateHooks[path][old(i)] = stateHooks[path][old(j)] => old(i) = old(j)  BY <1>8, <4>2
      <4> QED  BY <1>7, <3>1, <4>1, <4>3, <4>4, <4>5
    <3>2. CASE q # path
      <4>1. stateHooks'[q] = stateHooks[q]  BY <1>5, <3>2
      <4>2. i \in 1..Len(stateHooks[q]) /\ j \in 1..Len(stateHooks[q])  BY <2>1, <4>1
      <4>3. /\ Target[stateHooks[q][i]] = q
            /\ stateHooks[q][i] = stateHooks[q][j] => i = j
        BY <4>2 DEF HooksInv, OneInv
      <4> QED  BY <4>1, <4>3
    <3> QED  BY <3>1, <3>2
  <2>2. (taken \in Hooks => ~Attached(taken))'
    <3>1. taken \in Hooks => \E h \in Hooks : h = taken' /\ ~Attached(h)'
      BY <1>2, <1>10 DEF HooksInv, OneInv
    <3> QED  BY <1>2, <3>1 DEF Attached
  <2>3. \A i, j \in 1..Len(hookQueue') : hookQueue'[i] = hookQueue'[j] => i = j
    BY <1>2 DEF HooksInv, OneInv
  <2>4. \A h \in Hooks : Queued(h)' => taken' # h /\ ~Attached(h)'
    BY <1>2, <1>10, <1>13 DEF HooksInv, OneInv
  <2> QED  BY <2>1, <2>2, <2>3, <2>4 DEF OneInv
<1>15. GoneInv'  BY <1>2, <1>10, <1>12, <1>13 DEF HooksInv, GoneInv
<1> QED  BY <1>14, <1>15 DEF HooksInv

LEMMA HooksStep ==
  ASSUME TypeOK, TakenInv, HooksInv, [Next]_vars
  PROVE  HooksInv'
<1>1. ASSUME UNCHANGED <<hookQueue, taken, stateHooks, client>> PROVE HooksInv'
  BY <1>1, HooksFrame DEF Gone
<1>2. CASE UNCHANGED vars  BY <1>1, <1>2
<1>3. ASSUME NEW p \in Packets, HandleStep(p) PROVE HooksInv'
  BY <1>1, <1>3 DEF HandleStep, HandleLoaded, HandleLock, HandleSync, HandleSetLoaded, HandleIgnored
<1>4. ASSUME NEW p \in Packets, WorkerStep(p) PROVE HooksInv'
  BY <1>1, <1>4 DEF WorkerStep, HandleSyncData, ParseNothing, ParseDataDelta, NotifyKey, AbortWalk,
                    EndWalk
<1>5. CASE ParserStep
  BY <1>1, <1>5, ReceiveKeeps, AppendKeeps DEF ParserStep, ParserLock, ParserAppend, TakenInv
<1>6. ASSUME NEW h \in Hooks, ClientStep(h) PROVE HooksInv'
  <2>1. CASE Hook(h)  BY <2>1, HookKeeps
  <2>2. CASE HookDropped(h) \/ Unhook(h) \/ UnhookLock(h) \/ UnhookNotFound(h) \/ UnhookNil(h)
    <3>1. \A g \in Hooks : Gone(g)' => Gone(g)
      BY <2>2 DEF HookDropped, Unhook, UnhookLock, UnhookNotFound, UnhookNil, Gone, TypeOK
    <3> QED  BY <2>2, <3>1, HooksFrame DEF HookDropped, Unhook, UnhookLock, UnhookNotFound, UnhookNil
  <2>3. CASE UnhookFound(h)  BY <2>3, FoundKeeps
  <2>4. CASE Receive(h)  BY <1>1, <2>4 DEF Receive
  <2> QED  BY <1>6, <2>1, <2>2, <2>3, <2>4 DEF ClientStep
<1>7. ASSUME NEW r \in Readers, ReaderStep(r) PROVE HooksInv'
  BY <1>1, <1>7 DEF ReaderStep, ReadCall, ReadLock, ReadReturn
<1> QED  BY <1>2, <1>3, <1>4, <1>5, <1>6, <1>7 DEF Next, Step

(* A hook of GameState is at one place at a time, and nowhere after an     *)
(* Unhook that found it: neither two Hooks nor the queue can bring it back.*)
THEOREM HooksInOnePlace == Spec => [](TypeOK /\ HooksInv)
<1>1. Init => TypeOK /\ TakenInv /\ HooksInv  BY InitType, InitHooks DEF Init, TakenInv
<1>2. TypeOK /\ TakenInv /\ HooksInv /\ [Next]_vars => (TypeOK /\ TakenInv /\ HooksInv)'
  BY TypeStep, HooksStep
<1> QED  BY <1>1, <1>2, PTL DEF Spec

(* Only a key that h is attached to puts an event into its channel.        *)
LEMMA EventsOfAttached ==
  ASSUME TypeOK, HooksInv, NEW path \in Paths, NEW p, Notify(path, p), NEW h \in Hooks, ~Attached(h)
  PROVE  listener'[h] = listener[h]
<1>1. h \notin Reached(path)
  <2> SUFFICES ASSUME NEW i \in 1..Len(stateHooks[path]), stateHooks[path][i] = h PROVE FALSE
    BY DEF Reached
  <2>1. Target[h] = path  BY DEF HooksInv, OneInv
  <2> QED  BY <2>1 DEF Attached
<1> QED  BY <1>1 DEF Notify

(* A channel grows only in WalkAndNotify.                                  *)
LEMMA ListenerMoves ==
  ASSUME TypeOK, [Next]_vars, NEW h \in Hooks
  PROVE  \/ listener'[h] = listener[h]
         \/ listener[h] # <<>> /\ listener'[h] = Tail(listener[h]) /\ UNCHANGED <<state, worker>>
         \/ \E p \in Packets, path \in Paths : worker[p] = "walk" /\ Notify(path, p)
<1>1. CASE UNCHANGED listener  BY <1>1
<1>2. ASSUME NEW p \in Packets, HandleStep(p) PROVE UNCHANGED listener
  BY <1>2 DEF HandleStep, HandleLoaded, HandleLock, HandleSync, HandleSetLoaded, HandleIgnored
<1>3. ASSUME NEW p \in Packets, WorkerStep(p)
      PROVE  UNCHANGED listener \/ (worker[p] = "walk" /\ \E path \in Paths : Notify(path, p))
  <2>1. CASE NotifyKey(p) \/ AbortWalk(p)
    <3>1. pos[p] \in 1..Len(Walk[p]) /\ Walk[p] \in Seq(Paths)
      BY <2>1, ConstantsAssumption DEF NotifyKey, AbortWalk, TypeOK
    <3>2. Walk[p][pos[p]] \in Paths  BY <3>1
    <3> QED  BY <2>1, <3>2 DEF NotifyKey, AbortWalk
  <2>2. CASE ~(NotifyKey(p) \/ AbortWalk(p))
    BY <1>3, <2>2 DEF WorkerStep, HandleSyncData, ParseNothing, ParseDataDelta, EndWalk
  <2> QED  BY <2>1, <2>2
<1>4. CASE ParserStep
  BY <1>1, <1>4 DEF ParserStep, ParserReceive, ParserLock, ParserAppend
<1>5. ASSUME NEW g \in Hooks, ClientStep(g)
      PROVE  UNCHANGED listener \/ Receive(g)
  BY <1>5 DEF ClientStep, Hook, HookDropped, Unhook, UnhookLock, UnhookFound, UnhookNotFound, UnhookNil
<1>6. ASSUME NEW r \in Readers, ReaderStep(r) PROVE UNCHANGED listener
  BY <1>6 DEF ReaderStep, ReadCall, ReadLock, ReadReturn
<1>7. ASSUME NEW g \in Hooks, Receive(g)
      PROVE  /\ UNCHANGED <<state, worker>>
             /\ listener'[h] = listener[h] \/ (listener[h] # <<>> /\ listener'[h] = Tail(listener[h]))
  BY <1>7 DEF Receive, TypeOK
<1> QED  BY <1>1, <1>2, <1>3, <1>4, <1>5, <1>6, <1>7 DEF Next, Step

(* Once Unhook has found and removed a hook, no event gets into its        *)
(* channel, whatever the client, the walks and the other hooks do.         *)
THEOREM UnhookEnds == Spec => UnhookStops
<1>1. TypeOK /\ HooksInv /\ [Next]_vars =>
        [\A h \in Hooks : client[h] = "unhooked" => Len(listener'[h]) <= Len(listener[h])]_vars
  <2> SUFFICES ASSUME TypeOK, HooksInv, [Next]_vars, NEW h \in Hooks, client[h] = "unhooked"
               PROVE  Len(listener'[h]) <= Len(listener[h])
    OBVIOUS
  <2>1. ~Attached(h)  BY DEF HooksInv, GoneInv, Gone
  <2>2. listener[h] \in Seq(Packets) /\ Len(listener[h]) \in Nat  BY DEF TypeOK
  <2>3. CASE listener'[h] = listener[h]  BY <2>2, <2>3
  <2>4. CASE listener[h] # <<>> /\ listener'[h] = Tail(listener[h])
    <3>1. Len(Tail(listener[h])) = Len(listener[h]) - 1  BY <2>2, <2>4
    <3> QED  BY <2>2, <2>4, <3>1
  <2>5. ASSUME NEW p \in Packets, NEW path \in Paths, Notify(path, p)
        PROVE  listener'[h] = listener[h]
    BY <2>1, <2>5, EventsOfAttached
  <2> QED  BY <2>3, <2>4, <2>5, ListenerMoves
<1> QED  BY <1>1, HooksInOnePlace, PTL DEF Spec, UnhookStops

----------------------------------------------------------------------------
(* The order of the events                                                 *)

(* The events l occur in s in their order.                                 *)
InOrder(l, s) ==
  \E place \in [1..Len(l) -> 1..Len(s)] :
    /\ \A i \in 1..Len(l) : s[place[i]] = l[i]
    /\ \A i, j \in 1..Len(l) : i < j => place[i] <= place[j]

(* A walk is that of the packet that was merged last.                      *)
WalkInv == \A p \in Packets : worker[p] = "walk" => state # <<>> /\ state[Len(state)] = p

EventsInv == WalkInv /\ EventsInMergeOrder

LEMMA OrderLonger ==
  ASSUME NEW l \in Seq(Packets), NEW s \in Seq(Packets), NEW p \in Packets, InOrder(l, s)
  PROVE  InOrder(l, Append(s, p))
<1>1. PICK place \in [1..Len(l) -> 1..Len(s)] :
        /\ \A i \in 1..Len(l) : s[place[i]] = l[i]
        /\ \A i, j \in 1..Len(l) : i < j => place[i] <= place[j]
  BY DEF InOrder
<1>2. Len(Append(s, p)) = Len(s) + 1 /\ Len(s) \in Nat /\ \A k \in 1..Len(s) : Append(s, p)[k] = s[k]
  OBVIOUS
<1>3. place \in [1..Len(l) -> 1..Len(Append(s, p))]  BY <1>2
<1>4. \A i \in 1..Len(l) : Append(s, p)[place[i]] = l[i]  BY <1>1, <1>2
<1> QED  BY <1>1, <1>3, <1>4 DEF InOrder

LEMMA OrderEvent ==
  ASSUME NEW l \in Seq(Packets), NEW s \in Seq(Packets), NEW p \in Packets, InOrder(l, s),
         s # <<>>, s[Len(s)] = p
  PROVE  InOrder(Append(l, p), s)
<1>1. PICK place \in [1..Len(l) -> 1..Len(s)] :
        /\ \A i \in 1..Len(l) : s[place[i]] = l[i]
        /\ \A i, j \in 1..Len(l) : i < j => place[i] <= place[j]
  BY DEF InOrder
<1>2. PICK n \in Nat, m \in Nat : n = Len(l) /\ m = Len(s) /\ m > 0  OBVIOUS
<1> DEFINE e == Append(l, p)
           new == [i \in 1..n + 1 |-> IF i = n + 1 THEN m ELSE place[i]]
<1>3. Len(e) = n + 1 /\ e[n + 1] = p /\ \A i \in 1..n : e[i] = l[i]  BY <1>2
<1>4. \A i \in 1..n : place[i] \in 1..m  BY <1>2
<1>5. new \in [1..n + 1 -> 1..m]
  <2>1. \A i \in 1..n + 1 : i # n + 1 => i \in 1..n  BY <1>2
  <2> QED  BY <1>2, <1>4, <2>1
<1>6. new[n + 1] = m /\ \A i \in 1..n : new[i] = place[i]  BY <1>2
<1> HIDE DEF new, e
<1>7. \A i \in 1..n + 1 : i = n + 1 \/ i \in 1..n  BY <1>2
<1>8. \A i \in 1..n + 1 : s[new[i]] = e[i]  BY <1>1, <1>2, <1>3, <1>6, <1>7
<1>9. ASSUME NEW i \in 1..n + 1, NEW j \in 1..n + 1, i < j PROVE new[i] <= new[j]
  <2>1. i \in 1..n  BY <1>2, <1>9
  <2>2. CASE j = n + 1  BY <1>4, <1>6, <2>1, <2>2
  <2>3. CASE j \in 1..n  BY <1>1, <1>2, <1>6, <1>9, <2>1, <2>3
  <2> QED  BY <1>7, <2>2, <2>3
<1> QED  BY <1>2, <1>3, <1>5, <1>8, <1>9 DEF InOrder, e

LEMMA OrderTail ==
  ASSUME NEW l \in Seq(Packets), NEW s \in Seq(Packets), l # <<>>, InOrder(l, s)
  PROVE  InOrder(Tail(l), s)
<1>1. PICK place \in [1..Len(l) -> 1..Len(s)] :
        /\ \A i \in 1..Len(l) : s[place[i]] = l[i]
        /\ \A i, j \in 1..Len(l) : i < j => place[i] <= place[j]
  BY DEF InOrder
<1>2. PICK n \in Nat : n = Len(l) /\ n > 0  OBVIOUS
<1> DEFINE t == Tail(l)
           new == [i \in 1..n - 1 |-> place[i + 1]]
<1>3. Len(t) = n - 1 /\ \A i \in 1..n - 1 : t[i] = l[i + 1]  BY <1>2
<1>4. \A i \in 1..n - 1 : i + 1 \in 1..n  BY <1>2
<1>5. new \in [1..n - 1 -> 1..Len(s)] /\ \A i \in 1..n - 1 : new[i] = place[i + 1]  BY <1>2, <1>4
<1> HIDE DEF new, t
<1>6. \A i \in 1..n - 1 : s[new[i]] = t[i]  BY <1>1, <1>2, <1>3, <1>4, <1>5
<1>7. ASSUME NEW i \in 1..n - 1, NEW j \in 1..n - 1, i < j PROVE new[i] <= new[j]
  BY <1>1, <1>2, <1>4, <1>5, <1>7
<1> QED  BY <1>3, <1>5, <1>6, <1>7 DEF InOrder, t

LEMMA OrderEmpty ==
  ASSUME NEW l \in Seq(Packets), NEW s \in Seq(Packets), Len(l) = 0
  PROVE  InOrder(l, s)
<1> DEFINE place == [i \in 1..Len(l) |-> 1]
<1>1. 1..Len(l) = {}  OBVIOUS
<1>2. place \in [1..Len(l) -> 1..Len(s)]  BY <1>1
<1> QED  BY <1>1, <1>2 DEF InOrder

LEMMA EventsStep ==
  ASSUME IInv, EventsInv, [Next]_vars
  PROVE  EventsInv'
<1>1. TypeOK /\ WalkInv /\ \A h \in Hooks : listener[h] \in Seq(Packets) /\ InOrder(listener[h], state)
  BY DEF EventsInv, EventsInMergeOrder, InOrder, IInv, TypeOK
<1>2. state \in Seq(Packets)  BY <1>1 DEF TypeOK
<1>3. ASSUME NEW p \in Packets, HandleSyncData(p) PROVE EventsInv'
  <2>1. mutex = "new" /\ state = <<>> /\ Len(state) = 0
    BY <1>3 DEF HandleSyncData, IInv, MutualExclusion, HandoverInv
  <2>2. \A q \in Packets : worker'[q] # "walk"
    BY <1>3, <2>1 DEF HandleSyncData, IInv, MutualExclusion, TypeOK
  <2>3. \A h \in Hooks : Len(listener[h]) = 0
    <3> TAKE h \in Hooks
    <3>1. PICK place \in [1..Len(listener[h]) -> 1..Len(state)] : TRUE  BY <1>1 DEF InOrder
    <3>2. 1..Len(state) = {}  BY <2>1
    <3>3. 1 \notin 1..Len(listener[h])  BY <3>1, <3>2
    <3> QED  BY <1>1, <3>3
  <2>4. listener' = listener /\ state' \in Seq(Packets)  BY <1>3 DEF HandleSyncData
  <2>5. \A h \in Hooks : InOrder(listener'[h], state')  BY <1>1, <2>3, <2>4, OrderEmpty
  <2> QED  BY <2>2, <2>5 DEF EventsInv, WalkInv, EventsInMergeOrder, InOrder
<1>4. ASSUME NEW p \in Packets, ParseDataDelta(p) PROVE EventsInv'
  <2>1. state' = Append(state, p) /\ listener' = listener
    BY <1>4 DEF ParseDataDelta
  <2>2. \A q \in Packets : worker'[q] = "walk" => q = p
    BY <1>4 DEF ParseDataDelta, IInv, MutualExclusion, TypeOK
  <2>3. state' # <<>> /\ state'[Len(state')] = p  BY <1>2, <2>1, AppendNonEmpty
  <2>4. \A h \in Hooks : InOrder(listener'[h], state')  BY <1>1, <1>2, <2>1, OrderLonger
  <2> QED  BY <2>2, <2>3, <2>4 DEF EventsInv, WalkInv, EventsInMergeOrder, InOrder
<1>5. ASSUME state' = state, \A p \in Packets : worker'[p] = "walk" => worker[p] = "walk"
      PROVE  EventsInv'
  <2>1. WalkInv'  BY <1>1, <1>5 DEF WalkInv
  <2>2. ASSUME NEW h \in Hooks PROVE InOrder(listener'[h], state)
    <3>1. CASE listener'[h] = listener[h]  BY <1>1, <3>1
    <3>2. CASE listener[h] # <<>> /\ listener'[h] = Tail(listener[h])
      BY <1>1, <1>2, <3>2, OrderTail
    <3>3. ASSUME NEW p \in Packets, NEW path \in Paths, worker[p] = "walk", Notify(path, p)
          PROVE  InOrder(listener'[h], state)
      <4>1. listener'[h] = listener[h] \/ listener'[h] = Append(listener[h], p)
        BY <3>3 DEF Notify
      <4>2. state # <<>> /\ state[Len(state)] = p  BY <1>1, <3>3 DEF WalkInv
      <4> QED  BY <1>1, <1>2, <4>1, <4>2, OrderEvent
    <3> QED  BY <1>1, <3>1, <3>2, <3>3, ListenerMoves
  <2> QED  BY <1>5, <2>1, <2>2 DEF EventsInv, EventsInMergeOrder, InOrder
<1>6. CASE UNCHANGED vars  BY <1>5, <1>6
<1>7. ASSUME NEW p \in Packets, HandleStep(p) PROVE EventsInv'
  <2>1. state' = state  BY <1>7 DEF HandleStep, HandleLoaded, HandleLock, HandleSync, HandleSetLoaded,
                            HandleIgnored
  <2>2. \A q \in Packets : worker'[q] = "walk" => worker[q] = "walk"
    BY <1>1, <1>7 DEF HandleStep, HandleLoaded, HandleLock, HandleSync, HandleSetLoaded,
                      HandleIgnored, TypeOK
  <2> QED  BY <1>5, <2>1, <2>2
<1>8. ASSUME NEW p \in Packets, WorkerStep(p) PROVE EventsInv'
  <2>1. CASE ParseNothing(p) \/ NotifyKey(p) \/ AbortWalk(p) \/ EndWalk(p)
    <3>1. \A q \in Packets : worker'[q] = "walk" => worker[q] = "walk"
      BY <1>1, <2>1 DEF ParseNothing, NotifyKey, AbortWalk, EndWalk, TypeOK
    <3> QED  BY <1>5, <2>1, <3>1 DEF ParseNothing, NotifyKey, AbortWalk, EndWalk
  <2> QED  BY <1>3, <1>4, <1>8, <2>1 DEF WorkerStep
<1>9. CASE ParserStep
  BY <1>5, <1>9 DEF ParserStep, ParserReceive, ParserLock, ParserAppend
<1>10. ASSUME NEW h \in Hooks, ClientStep(h) PROVE EventsInv'
  BY <1>5, <1>10 DEF ClientStep, Hook, HookDropped, Unhook, UnhookLock, UnhookFound, UnhookNotFound,
                     UnhookNil, Receive
<1>11. ASSUME NEW r \in Readers, ReaderStep(r) PROVE EventsInv'
  BY <1>5, <1>11 DEF ReaderStep, ReadCall, ReadLock, ReadReturn
<1> QED  BY <1>6, <1>7, <1>8, <1>9, <1>10, <1>11 DEF Next, Step

(* Every hook gets its events in the order in which the deltas behind them *)
(* were merged, and none that was not: the handlers of later packets wait  *)
(* for the walk of this one.                                               *)
THEOREM EventsOrdered ==
  ASSUME ~SyncOverlap
  PROVE  Spec => []EventsInMergeOrder
<1>1. Init => EventsInv
  <2> SUFFICES ASSUME Init PROVE EventsInv  OBVIOUS
  <2>1. <<>> \in Seq(Packets) /\ Len(<<>>) = 0  OBVIOUS
  <2>2. \A h \in Hooks : InOrder(listener[h], state)  BY <2>1, OrderEmpty DEF Init
  <2> QED  BY <2>2 DEF Init, EventsInv, WalkInv, EventsInMergeOrder, InOrder
<1>2. IInv /\ EventsInv /\ [Next]_vars => EventsInv'  BY EventsStep
<1>3. EventsInv => EventsInMergeOrder  BY DEF EventsInv
<1> QED  BY <1>1, <1>2, <1>3, InvariantHolds, PTL DEF Spec

----------------------------------------------------------------------------
(* The package implements StateMirror.                                     *)

Calling == {r \in Readers : reader[r] # "idle"}

(* What StateMirror sees of a step that moves no reader.                   *)
LEMMA MirrorOfHandle ==
  ASSUME IInv, NEW p \in Packets, HandleStep(p)
  PROVE  Mirror!Accept(p) \/ UNCHANGED Mirror!mirrorVars
<1> USE DEF IInv, TypeOK, Mirror!Accept, Mirror!mirrorVars
<1>1. CASE HandleLoaded(p)  BY <1>1 DEF HandleLoaded
<1>2. CASE HandleLock(p)  BY <1>2 DEF HandleLock
<1>3. CASE HandleSync(p)  BY <1>3 DEF HandleSync
<1>4. CASE HandleSetLoaded(p)  BY <1>4 DEF HandleSetLoaded
<1>5. CASE HandleIgnored(p)  BY <1>5 DEF HandleIgnored
<1> QED  BY <1>1, <1>2, <1>3, <1>4, <1>5 DEF HandleStep

LEMMA MirrorOfWorker ==
  ASSUME IInv, NEW p \in Packets, WorkerStep(p)
  PROVE  Mirror!Absorb \/ UNCHANGED Mirror!mirrorVars
<1> USE DEF IInv, TypeOK, Mirror!Absorb, Mirror!mirrorVars
<1>0. ASSUME accepted = Append(state, p), state' = Append(state, p),
             UNCHANGED <<accepted, reader, asOf, view>>
      PROVE  Mirror!Absorb
  <2>1. /\ Len(accepted) = Len(state) + 1
        /\ accepted[Len(state) + 1] = p
    BY <1>0
  <2> QED  BY <1>0, <2>1
<1>1. CASE HandleSyncData(p)
  <2>1. state = <<>> /\ accepted = Append(state, p)
    BY <1>1 DEF HandleSyncData, MutualExclusion, HandoverInv, Pending
  <2>2. state' = Append(state, p)  BY <1>1, <2>1 DEF HandleSyncData
  <2> QED  BY <1>0, <1>1, <2>1, <2>2 DEF HandleSyncData
<1>2. CASE ParseNothing(p)  BY <1>2 DEF ParseNothing
<1>3. CASE ParseDataDelta(p)
  <2>1. accepted = Append(state, p)
    BY <1>3 DEF ParseDataDelta, HandoverInv, Pending
  <2> QED  BY <1>0, <1>3, <2>1 DEF ParseDataDelta
<1>4. CASE NotifyKey(p)  BY <1>4 DEF NotifyKey
<1>5. CASE AbortWalk(p)  BY <1>5 DEF AbortWalk
<1>6. CASE EndWalk(p)  BY <1>6 DEF EndWalk
<1> QED  BY <1>1, <1>2, <1>3, <1>4, <1>5, <1>6 DEF WorkerStep

LEMMA MirrorOfHooks ==
  ASSUME ParserStep \/ \E h \in Hooks : ClientStep(h)
  PROVE  UNCHANGED Mirror!mirrorVars
<1> USE DEF Mirror!mirrorVars
<1>1. CASE ParserStep
  BY <1>1 DEF ParserStep, ParserReceive, ParserLock, ParserAppend
<1>2. ASSUME NEW h \in Hooks, ClientStep(h) PROVE UNCHANGED Mirror!mirrorVars
  BY <1>2 DEF ClientStep, Hook, HookDropped, Unhook, UnhookLock, UnhookFound,
              UnhookNotFound, UnhookNil, Receive
<1> QED  BY <1>1, <1>2

LEMMA MirrorOfReader ==
  ASSUME IInv, NEW r \in Readers, ReaderStep(r)
  PROVE  Mirror!Call(r) \/ Mirror!Return(r) \/ UNCHANGED Mirror!mirrorVars
<1> USE DEF IInv, TypeOK, Mirror!Call, Mirror!Return, Mirror!mirrorVars
<1>1. CASE ReadCall(r)
  <2>1. Calling' = Calling \cup {r} /\ r \notin Calling
    BY <1>1 DEF ReadCall, Calling
  <2> QED  BY <1>1, <2>1 DEF ReadCall, Calling
<1>2. CASE ReadLock(r)
  <2>1. Calling' = Calling  BY <1>2 DEF ReadLock, Calling
  <2> QED  BY <1>2, <2>1 DEF ReadLock, Calling
<1>3. CASE ReadReturn(r)
  <2>1. Calling' = Calling \ {r} /\ r \in Calling
    BY <1>3 DEF ReadReturn, Calling
  <2>2. mutex = "reader"  BY <1>3 DEF ReadReturn, MutualExclusion
  <2>3. state # <<>> /\ accepted = state
    BY <2>2, NobodyPending DEF HandoverInv
  <2>4. Len(state) >= 1 /\ Len(state) >= asOf[r]
    BY <2>3 DEF HandoverInv
  <2> QED  BY <1>3, <2>1, <2>4 DEF ReadReturn, Calling
<1> QED  BY <1>1, <1>2, <1>3 DEF ReaderStep

(* A module sees packets accepted one after the other and absorbed in that *)
(* order, and its reads are as fresh as StateMirror promises.              *)
THEOREM ImplementsMirror ==
  ASSUME ~SyncOverlap
  PROVE  Spec => MirrorSafety
<1>1. Init => Mirror!Init
  <2>1. Init => Calling = {}  BY DEF Init, Calling
  <2> QED  BY <2>1 DEF Init, Mirror!Init, Calling
<1>2. IInv /\ [Next]_vars => [Mirror!Next]_(Mirror!mirrorVars)
  <2> SUFFICES ASSUME IInv, [Next]_vars
               PROVE  Mirror!Next \/ UNCHANGED Mirror!mirrorVars
    OBVIOUS
  <2>1. CASE UNCHANGED vars  BY <2>1 DEF Mirror!mirrorVars
  <2>2. ASSUME NEW p \in Packets, HandleStep(p)
        PROVE  Mirror!Next \/ UNCHANGED Mirror!mirrorVars
    BY <2>2, MirrorOfHandle DEF Mirror!Next
  <2>3. ASSUME NEW p \in Packets, WorkerStep(p)
        PROVE  Mirror!Next \/ UNCHANGED Mirror!mirrorVars
    BY <2>3, MirrorOfWorker DEF Mirror!Next
  <2>4. CASE ParserStep \/ \E h \in Hooks : ClientStep(h)  BY <2>4, MirrorOfHooks
  <2>5. ASSUME NEW r \in Readers, ReaderStep(r)
        PROVE  Mirror!Next \/ UNCHANGED Mirror!mirrorVars
    BY <2>5, MirrorOfReader DEF Mirror!Next
  <2> QED  BY <2>1, <2>2, <2>3, <2>4, <2>5 DEF Next, Step
<1> QED  BY <1>1, <1>2, InvariantHolds, PTL DEF Spec, MirrorSafety, Mirror!Safety

----------------------------------------------------------------------------
(* The mirror is exact.  Nothing here depends on the mutex: of a packet    *)
(* that is alone, the handler comes before the goroutine, and both have    *)
(* ended when the next one comes.                                          *)

UntouchedInv == \A p \in Packets : pc[p] \in {"idle", "lock"} => worker[p] = "none"

(* While p is in hand, the mirror lags behind by p until its merge.        *)
InHand(p) ==
  /\ pc[p] = "lock" \/ worker[p] = "merge" =>
       loaded /\ due = IF Kind[p] = "delta" THEN Append(state, p) ELSE state
  /\ worker[p] = "walk" => loaded /\ state = due
  /\ worker[p] = "sync" => due = <<p>> /\ (loaded <=> pc[p] # "setLoaded")
  /\ pc[p] = "setLoaded" =>
       /\ ~loaded /\ due # <<>>
       /\ worker[p] \in {"sync", "done"}
       /\ worker[p] = "done" => state = due

AloneInv ==
  /\ \A p, q \in Processing : p = q
  /\ loaded => due # <<>>
  /\ Processing = {} => IF loaded THEN state = due ELSE due = <<>>
  /\ \A p \in Packets : InHand(p)

ExactInv == UntouchedInv /\ (alone => AloneInv)

(* A step that touches neither a packet nor the mirror.                    *)
LEMMA ExactFrame ==
  ASSUME ExactInv, UNCHANGED <<loaded, state, pc, worker, due, alone>>
  PROVE  ExactInv'
BY DEF ExactInv, UntouchedInv, AloneInv, InHand, Processing

(* A packet that comes finds none in hand.                                 *)
LEMMA ExactArrival ==
  ASSUME TypeOK, ExactInv, NEW p \in Packets,
         HandleLoaded(p) \/ HandleSync(p) \/ HandleIgnored(p),
         due' = DueWith(p), alone' = (alone /\ Processing = {})
  PROVE  ExactInv'
<1>0. pc[p] = "idle" /\ worker[p] = "none" /\ Kind[p] \in Kinds
  BY ConstantsAssumption
     DEF HandleLoaded, HandleSync, HandleIgnored, Arrives, ExactInv, UntouchedInv
<1>1. UNCHANGED <<loaded, state>>  BY DEF HandleLoaded, HandleSync, HandleIgnored
<1>2. UntouchedInv'
  BY <1>0 DEF HandleLoaded, HandleSync, HandleIgnored, ExactInv, UntouchedInv, TypeOK
<1>3. ASSUME alone' PROVE AloneInv'
  <2>1. /\ AloneInv
        /\ \A q \in Packets : pc[q] \notin {"lock", "setLoaded"} /\ worker[q] \in {"none", "done"}
    BY <1>3 DEF ExactInv, Processing
  <2>2. IF loaded THEN state = due /\ due # <<>> ELSE due = <<>>
    BY <1>3 DEF ExactInv, AloneInv
  <2>3. \A q \in Packets \ {p} : /\ pc'[q] = pc[q] /\ worker'[q] = worker[q]
                                /\ q \notin Processing' /\ InHand(q)'
    BY <2>1 DEF HandleLoaded, HandleSync, HandleIgnored, TypeOK, Processing, InHand
  <2>4. loaded' => due' # <<>>
    BY <1>1, <2>2, AppendNonEmpty DEF DueWith, TypeOK
  <2>5. InHand(p)' /\ (Processing' = {} => IF loaded' THEN state' = due' ELSE due' = <<>>)
    <3>1. CASE HandleLoaded(p)
      <4>1. loaded /\ state' = due /\ due # <<>> /\ pc'[p] = "lock" /\ worker'[p] = "none"
        BY <1>0, <1>1, <2>2, <3>1 DEF HandleLoaded, TypeOK
      <4>2. due' = IF Kind[p] = "delta" THEN Append(state, p) ELSE state
        BY <1>1, <4>1 DEF DueWith
      <4>3. p \in Processing'  BY <4>1 DEF Processing
      <4> QED  BY <1>1, <4>1, <4>2, <4>3 DEF InHand
    <3>2. CASE HandleSync(p)
      <4>1. ~loaded' /\ due = <<>> /\ pc'[p] = "setLoaded" /\ worker'[p] = "sync"
        BY <1>1, <2>2, <3>2 DEF HandleSync, TypeOK
      <4>2. due' = <<p>>  BY <3>2, <4>1 DEF DueWith, HandleSync
      <4>3. p \in Processing'  BY <4>1 DEF Processing
      <4> QED  BY <4>1, <4>2, <4>3 DEF InHand
    <3>3. CASE HandleIgnored(p)
      <4>1. ~loaded' /\ due = <<>> /\ pc'[p] = "done" /\ worker'[p] = "none" /\ Kind[p] # "sync"
        BY <1>0, <1>1, <2>2, <3>3 DEF HandleIgnored, TypeOK
      <4>2. due' = <<>>  BY <4>1 DEF DueWith
      <4> QED  BY <4>1, <4>2 DEF InHand
    <3> QED  BY <3>1, <3>2, <3>3
  <2>6. \A q, r \in Processing' : q = r  BY <2>3 DEF Processing
  <2> QED  BY <2>3, <2>4, <2>5, <2>6 DEF AloneInv
<1> QED  BY <1>2, <1>3 DEF ExactInv

(* A step of the handler or the goroutine of a packet in hand.             *)
LEMMA ExactProgress ==
  ASSUME TypeOK, ExactInv, NEW p \in Packets,
         HandleLock(p) \/ HandleSetLoaded(p) \/ WorkerStep(p),
         UNCHANGED <<due, alone>>
  PROVE  ExactInv'
<1> USE DEF TypeOK
<1>1. p \in Processing
  BY DEF HandleLock, HandleSetLoaded, WorkerStep, HandleSyncData, ParseNothing, ParseDataDelta,
         NotifyKey, AbortWalk, EndWalk, Processing
<1>2. \A q \in Packets \ {p} : pc'[q] = pc[q] /\ worker'[q] = worker[q]
  BY DEF HandleLock, HandleSetLoaded, WorkerStep, HandleSyncData, ParseNothing, ParseDataDelta,
         NotifyKey, AbortWalk, EndWalk
<1>3. UntouchedInv'
  <2>1. pc'[p] \notin {"idle", "lock"}
    BY DEF HandleLock, HandleSetLoaded, WorkerStep, HandleSyncData, ParseNothing, ParseDataDelta,
           NotifyKey, AbortWalk, EndWalk, ExactInv, UntouchedInv
  <2> QED  BY <1>2, <2>1 DEF ExactInv, UntouchedInv
<1>4. ASSUME alone PROVE AloneInv'
  <2>1. AloneInv  BY <1>4 DEF ExactInv
  <2>2. \A q \in Packets \ {p} : q \notin Processing  BY <1>1, <2>1 DEF AloneInv
  <2>3. \A q \in Packets \ {p} : q \notin Processing' /\ InHand(q)'
    BY <1>2, <2>2 DEF Processing, InHand
  <2>4. \A q, r \in Processing' : q = r  BY <2>3 DEF Processing
  <2>5. InHand(p) /\ (loaded => due # <<>>)  BY <2>1 DEF AloneInv
  <2>6. /\ InHand(p)'
        /\ loaded' => due' # <<>>
        /\ p \notin Processing' => loaded' /\ state' = due'
    <3>1. CASE HandleLock(p)
      <4>1. pc[p] = "lock" /\ pc'[p] = "done" /\ worker'[p] = "merge" /\ UNCHANGED <<loaded, state>>
        BY <3>1 DEF HandleLock
      <4>2. p \in Processing'  BY <4>1 DEF Processing
      <4> QED  BY <2>5, <4>1, <4>2 DEF InHand
    <3>2. CASE HandleSetLoaded(p)
      <4>1. pc[p] = "setLoaded" /\ pc'[p] = "done" /\ UNCHANGED <<worker, state>> /\ loaded'
        BY <3>2 DEF HandleSetLoaded
      <4>2. worker[p] \in {"sync", "done"} /\ (worker[p] = "done" => state = due) /\ due # <<>>
        BY <2>5, <4>1 DEF InHand
      <4>3. worker[p] = "sync" => due = <<p>>  BY <2>5 DEF InHand
      <4>4. p \notin Processing' => worker[p] = "done"  BY <4>1, <4>2 DEF Processing
      <4> QED  BY <4>1, <4>2, <4>3, <4>4 DEF InHand
    <3>3. CASE HandleSyncData(p)
      <4>1. /\ worker[p] = "sync" /\ worker'[p] = "done" /\ UNCHANGED <<loaded, pc>>
            /\ state' = <<p>>
        BY <3>3 DEF HandleSyncData
      <4>2. due = <<p>> /\ (loaded <=> pc[p] # "setLoaded")  BY <2>5, <4>1 DEF InHand
      <4>3. pc[p] # "lock"  BY <4>1 DEF ExactInv, UntouchedInv
      <4>4. p \notin Processing' => pc[p] # "setLoaded"  BY <4>1 DEF Processing
      <4>5. pc[p] = "setLoaded" => ~loaded /\ due # <<>>  BY <2>5 DEF InHand
      <4> QED  BY <2>5, <4>1, <4>2, <4>3, <4>4, <4>5 DEF InHand
    <3>4. CASE ParseNothing(p)
      <4>1. /\ worker[p] = "merge" /\ worker'[p] = "done" /\ UNCHANGED <<loaded, state, pc>>
            /\ Kind[p] # "delta"
        BY <3>4 DEF ParseNothing
      <4>2. loaded /\ state = due /\ pc[p] \notin {"lock", "setLoaded"}
        BY <2>5, <4>1 DEF InHand, ExactInv, UntouchedInv
      <4> QED  BY <2>5, <4>1, <4>2 DEF InHand
    <3>5. CASE ParseDataDelta(p)
      <4>1. /\ worker[p] = "merge" /\ worker'[p] = "walk" /\ UNCHANGED <<loaded, pc>>
            /\ Kind[p] = "delta" /\ state' = Append(state, p)
        BY <3>5 DEF ParseDataDelta
      <4>2. loaded /\ state' = due /\ pc[p] \notin {"lock", "setLoaded"}
        BY <2>5, <4>1 DEF InHand, ExactInv, UntouchedInv
      <4> QED  BY <2>5, <4>1, <4>2 DEF InHand
    <3>6. CASE NotifyKey(p)
      <4>1. worker[p] = "walk" /\ UNCHANGED <<loaded, state, pc, worker>>
        BY <3>6 DEF NotifyKey
      <4> QED  BY <2>5, <4>1 DEF InHand, Processing
    <3>7. CASE AbortWalk(p) \/ EndWalk(p)
      <4>1. worker[p] = "walk" /\ worker'[p] = "done" /\ UNCHANGED <<loaded, state, pc>>
        BY <3>7 DEF AbortWalk, EndWalk
      <4>2. loaded /\ state = due /\ pc[p] \notin {"lock", "setLoaded"}
        BY <2>5, <4>1 DEF InHand, ExactInv, UntouchedInv
      <4> QED  BY <2>5, <4>1, <4>2 DEF InHand
    <3> QED  BY <3>1, <3>2, <3>3, <3>4, <3>5, <3>6, <3>7 DEF WorkerStep
  <2>7. \A q \in Packets : InHand(q)'  BY <2>3, <2>6
  <2> QED  BY <2>4, <2>6, <2>7 DEF AloneInv
<1> QED  BY <1>3, <1>4 DEF ExactInv

(* Only the handlers' first steps let a packet come, one at a time.        *)
LEMMA ArrivingOf ==
  ASSUME TypeOK, NEW p \in Packets, HandleStep(p)
  PROVE  IF HandleLoaded(p) \/ HandleSync(p) \/ HandleIgnored(p)
         THEN Arriving = {p} ELSE Arriving = {}
<1> USE DEF TypeOK, Arriving
<1>1. CASE HandleLoaded(p) \/ HandleSync(p) \/ HandleIgnored(p)
  BY <1>1 DEF HandleLoaded, HandleSync, HandleIgnored, Arrives
<1>2. CASE (HandleLock(p) \/ HandleSetLoaded(p))
           /\ ~(HandleLoaded(p) \/ HandleSync(p) \/ HandleIgnored(p))
  BY <1>2 DEF HandleLock, HandleSetLoaded
<1> QED  BY <1>1, <1>2 DEF HandleStep

LEMMA ExactStep ==
  ASSUME TypeOK, ExactInv, [ExactNext]_exactVars
  PROVE  ExactInv'
<1>1. CASE UNCHANGED exactVars  BY <1>1, ExactFrame DEF exactVars
<1>2. ASSUME UNCHANGED pc, ExactNext PROVE UNCHANGED <<due, alone>>
  <2>1. Arriving = {}  BY <1>2 DEF Arriving
  <2> QED  BY <1>2, <2>1 DEF ExactNext
<1>3. ASSUME ExactNext, NEW p \in Packets, HandleStep(p) PROVE ExactInv'
  <2>1. CASE HandleLoaded(p) \/ HandleSync(p) \/ HandleIgnored(p)
    <3>1. Arriving = {p}  BY <1>3, <2>1, ArrivingOf
    <3>2. due' = DueWith(p) /\ alone' = (alone /\ Processing = {})
      BY <1>3, <3>1 DEF ExactNext
    <3> QED  BY <2>1, <3>2, ExactArrival
  <2>2. CASE ~(HandleLoaded(p) \/ HandleSync(p) \/ HandleIgnored(p))
    <3>1. Arriving = {}  BY <1>3, <2>2, ArrivingOf
    <3>2. UNCHANGED <<due, alone>>  BY <1>3, <3>1 DEF ExactNext
    <3> QED  BY <1>3, <2>2, <3>2, ExactProgress DEF HandleStep
  <2> QED  BY <2>1, <2>2
<1>4. ASSUME ExactNext, NEW p \in Packets, WorkerStep(p) PROVE ExactInv'
  <2>1. UNCHANGED pc
    BY <1>4 DEF WorkerStep, HandleSyncData, ParseNothing, ParseDataDelta, NotifyKey, AbortWalk,
                EndWalk
  <2> QED  BY <1>2, <1>4, <2>1, ExactProgress
<1>5. ASSUME ExactNext, ParserStep PROVE ExactInv'
  <2>1. UNCHANGED <<loaded, state, pc, worker>>
    BY <1>5 DEF ParserStep, ParserReceive, ParserLock, ParserAppend
  <2> QED  BY <1>2, <1>5, <2>1, ExactFrame
<1>6. ASSUME ExactNext, NEW h \in Hooks, ClientStep(h) PROVE ExactInv'
  <2>1. UNCHANGED <<loaded, state, pc, worker>>
    BY <1>6 DEF ClientStep, Hook, HookDropped, Unhook, UnhookLock, UnhookFound, UnhookNotFound,
                UnhookNil, Receive
  <2> QED  BY <1>2, <1>6, <2>1, ExactFrame
<1>7. ASSUME ExactNext, NEW r \in Readers, ReaderStep(r) PROVE ExactInv'
  <2>1. UNCHANGED <<loaded, state, pc, worker>>
    BY <1>7 DEF ReaderStep, ReadCall, ReadLock, ReadReturn
  <2> QED  BY <1>2, <1>7, <2>1, ExactFrame
<1> QED  BY <1>1, <1>3, <1>4, <1>5, <1>6, <1>7 DEF ExactNext, Next, Step

(* As long as the client waits for an answer, and Rhine for itself, before *)
(* the next packet comes, the mirror is what a reader of the traffic that  *)
(* takes one packet at a time would have: the first sync and the deltas    *)
(* since, whatever walks abort and whoever reads, hooks or unhooks.        *)
THEOREM MirrorIsExact == ExactSpec => []MirrorExact
<1>1. ExactInit => TypeOK /\ TakenInv /\ ExactInv
  <2> SUFFICES ASSUME ExactInit PROVE TypeOK /\ TakenInv /\ ExactInv  OBVIOUS
  <2>1. TypeOK /\ TakenInv  BY InitType DEF ExactInit, Init, TakenInv
  <2>2. Processing = {}  BY DEF ExactInit, Init, Processing
  <2>3. \A p \in Packets : pc[p] = "idle" /\ worker[p] = "none"  BY DEF ExactInit, Init
  <2>4. ~loaded /\ due = <<>>  BY DEF ExactInit, Init
  <2> QED  BY <2>1, <2>2, <2>3, <2>4 DEF ExactInv, UntouchedInv, AloneInv, InHand
<1>2. TypeOK /\ TakenInv /\ ExactInv /\ [ExactNext]_exactVars => (TypeOK /\ TakenInv /\ ExactInv)'
  <2> SUFFICES ASSUME TypeOK, TakenInv, ExactInv, [ExactNext]_exactVars
               PROVE  TypeOK' /\ TakenInv' /\ ExactInv'
    OBVIOUS
  <2>1. [Next]_vars  BY DEF ExactNext, exactVars
  <2>2. TypeOK' /\ TakenInv'  BY <2>1, TypeStep
  <2> QED  BY <2>2, ExactStep
<1>3. ExactInv => MirrorExact  BY DEF ExactInv, AloneInv, MirrorExact
<1> QED  BY <1>1, <1>2, <1>3, PTL DEF ExactSpec

=============================================================================
