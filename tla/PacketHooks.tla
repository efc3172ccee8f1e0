---------------------------- MODULE PacketHooks ----------------------------
(***************************************************************************)
(* The packet hooks of one dispatch (proxy/dispatch.go, packetHook.go):    *)
(* modules hook and unhook, dispatch hands each packet to the hooks for    *)
(* every packet ("*") and then to those for its op, by descending          *)
(* priority.                                                               *)
(*                                                                         *)
(* What is hard is that d.hooks maps a target to a Go slice: a length and  *)
(* a pointer to an array that other slices share.  dispatch ranges over    *)
(* the slice it found, while the handlers it calls remove hooks from the   *)
(* same array in place, and insert and sort in place as long as append     *)
(* finds spare capacity.  Arrays are therefore explicit here.  No mutex    *)
(* protects the map: a handler's call of Hook or Unhook loads the slice in *)
(* one step and stores it in another, and when a second goroutine is at    *)
(* the map at that time the Go runtime may kill the process.               *)
(***************************************************************************)
EXTENDS Integers, Sequences, FiniteSets

CONSTANTS
  Hooks,        \* the calls of RhineModule.Hook
  Ops,          \* the ops of packets
  Wild,         \* the target "*"
  Target,       \* Target[h]: an op or Wild
  Priority,     \* Priority[h]
  Packets,      \* the packets that can be dispatched at a time; when one of
                \* them is done, its name stands for the next packet
  NoHook        \* a cell of an array that nothing was stored in

Targets == Ops \cup {Wild}

ASSUME ConstantsAssumption ==
  /\ Wild \notin Ops
  /\ Target \in [Hooks -> Targets]
  /\ Priority \in [Hooks -> Int]
  /\ NoHook \notin Hooks

VARIABLES
  initialized,  \* d.intialized: initMods is through
  arrays,       \* the arrays allocated so far; their length is the capacity
  hooks,        \* d.hooks: target -> slice, a record of array and length
  status,       \* status[h]: "idle", "hooked" or "unhooked"
  op,           \* op[p]: the op of p
  stage,        \* stage[p]: where the dispatch of p is
  range,        \* range[p]: the slice that p's loop ranges over
  next,         \* next[p]: the index of the next iteration
  busy,         \* busy[p]: the hook whose handler runs, or NoHook
  call,         \* call[p]: the Hook or Unhook that handler is in
  data,         \* data[p]: what the next handler is given
  crashed,      \* did the runtime kill the process?
  called,       \* history: the hooks called for p, in order
  attached,     \* history: the hooks attached since p's dispatch began
  changes       \* history: what happened to the hooks since then

mapVars == <<initialized, arrays, hooks, status, crashed>>
loopVars == <<op, stage, range, next, busy, data, called>>
vars == <<mapVars, loopVars, call, attached, changes>>

NoCall == [kind |-> "none"]

(* The loop of p is in one of its two stages.                              *)
Dispatching(p) == stage[p] \in {"wild", "op"}

Cells(s) == [i \in 1..s.len |-> arrays[s.array][i]]

----------------------------------------------------------------------------
(* Slices                                                                  *)

(* append on a full array allocates one of twice the capacity.             *)
Grow(s) == IF s.len = 0 THEN 1 ELSE 2 * s.len

(* append(s, h): the arrays and the slice afterwards.                      *)
Appended(s, h) ==
  IF s.len < Len(arrays[s.array])
  THEN [arrays |-> [arrays EXCEPT ![s.array][s.len + 1] = h],
        slice |-> [s EXCEPT !.len = @ + 1]]
  ELSE [arrays |-> Append(arrays,
          [i \in 1..Grow(s) |-> IF i <= s.len THEN arrays[s.array][i]
                                ELSE IF i = s.len + 1 THEN h ELSE NoHook]),
        slice |-> [array |-> Len(arrays) + 1, len |-> s.len + 1]]

(* Slip: the vacated cell is cleared, as slices.Delete does.               *)
Removed_Clear(s, i) ==
  [arrays EXCEPT ![s.array] = [j \in 1..Len(@) |->
     IF j \in i..(s.len - 1) THEN @[j + 1] ELSE IF j = s.len THEN NoHook ELSE @[j]]]

(* append(s[:i], s[i+1:]...): the arrays afterwards.                       *)
Removed(s, i) ==
  [arrays EXCEPT ![s.array] = [j \in 1..Len(@) |->
     IF j \in i..(s.len - 1) THEN @[j + 1] ELSE @[j]]]

(* What sort.Sort, which is not stable, may do to s.                       *)
Orders(heap, s) ==
  {order \in [1..s.len -> 1..s.len] :
     \A i, j \in 1..s.len : i < j =>
       /\ order[i] # order[j]
       /\ Priority[heap[s.array][order[i]]] >= Priority[heap[s.array][order[j]]]}

Reordered(heap, s, order) ==
  [heap EXCEPT ![s.array] = [i \in 1..Len(@) |-> IF i <= s.len THEN @[order[i]] ELSE @[i]]]

----------------------------------------------------------------------------
EmptySlice == [array |-> 1, len |-> 0]

Init ==
  /\ initialized = FALSE
  /\ arrays = << <<>> >>
  /\ hooks = [t \in Targets |-> EmptySlice]
  /\ status = [h \in Hooks |-> "idle"]
  /\ op \in [Packets -> Ops]
  /\ stage = [p \in Packets |-> "idle"]
  /\ range = [p \in Packets |-> EmptySlice]
  /\ next = [p \in Packets |-> 1]
  /\ busy = [p \in Packets |-> NoHook]
  /\ call = [p \in Packets |-> NoCall]
  /\ data = [p \in Packets |-> "body"]
  /\ crashed = FALSE
  /\ called = [p \in Packets |-> <<>>]
  /\ attached = [p \in Packets |-> {}]
  /\ changes = [p \in Packets |-> {}]

(* initMods: a module's init function calls Hook; nothing is sorted yet.   *)
InitHook(h) ==
  /\ ~initialized
  /\ status[h] = "idle"
  /\ arrays' = Appended(hooks[Target[h]], h).arrays
  /\ hooks' = [hooks EXCEPT ![Target[h]] = Appended(@, h).slice]
  /\ status' = [status EXCEPT ![h] = "hooked"]
  /\ UNCHANGED <<initialized, crashed, loopVars, call, attached, changes>>

(* Slip: initMods does not sort.                                           *)
InitDone_Unsorted ==
  /\ ~initialized
  /\ initialized' = TRUE
  /\ UNCHANGED <<arrays, hooks, status, crashed, loopVars, call, attached, changes>>

(* ... sortHooks: no two targets share an array that has a cell.           *)
InitDone ==
  /\ ~initialized
  /\ initialized' = TRUE
  /\ \E order \in [Targets -> UNION {Orders(arrays, hooks[t]) : t \in Targets}] :
       /\ \A t \in Targets : order[t] \in Orders(arrays, hooks[t])
       /\ arrays' = [a \in 1..Len(arrays) |->
            IF \E t \in Targets : hooks[t].array = a /\ hooks[t].len > 0
            THEN LET t == CHOOSE t \in Targets : hooks[t].array = a
                 IN  Reordered(arrays, hooks[t], order[t])[a]
            ELSE arrays[a]]
  /\ UNCHANGED <<hooks, status, crashed, loopVars, call, attached, changes>>

----------------------------------------------------------------------------
(* dispatch.dispatch                                                       *)

(* The slice is loaded once, when the loop starts.                         *)
StartLoop(p, name, target) ==
  /\ stage' = [stage EXCEPT ![p] = name]
  /\ range' = [range EXCEPT ![p] = hooks[target]]
  /\ next' = [next EXCEPT ![p] = 1]

(* A packet comes; after the core handlers, the hooks for every packet.    *)
Dispatch(p, o) ==
  /\ initialized
  /\ stage[p] \in {"idle", "done"}
  /\ op' = [op EXCEPT ![p] = o]
  /\ data' = [data EXCEPT ![p] = "body"]
  /\ StartLoop(p, "wild", Wild)
  /\ called' = [called EXCEPT ![p] = <<>>]
  /\ attached' = [attached EXCEPT ![p] = {h \in Hooks :
                    status[h] = "hooked" /\ Target[h] \in {Wild, o}}]
  /\ changes' = [changes EXCEPT ![p] = {}]
  /\ UNCHANGED <<mapVars, busy, call>>

(* for _, hook := range hooks: the cell is read when its turn comes.       *)
CallHook(p) ==
  /\ Dispatching(p)
  /\ busy[p] = NoHook
  /\ next[p] <= range[p].len
  /\ busy' = [busy EXCEPT ![p] = arrays[range[p].array][next[p]]]
  /\ called' = [called EXCEPT ![p] = Append(@, busy'[p])]
  /\ next' = [next EXCEPT ![p] = @ + 1]
  /\ UNCHANGED <<mapVars, op, stage, range, call, data, attached, changes>>

(* The handler returns the data it was given.                              *)
HandlerReturn(p) ==
  /\ busy[p] # NoHook
  /\ call[p] = NoCall
  /\ busy' = [busy EXCEPT ![p] = NoHook]
  /\ UNCHANGED <<mapVars, op, stage, range, next, call, data, called, attached, changes>>

(* Slip: the panic is recovered in dispatch, outside of its loops.         *)
HandlerPanic_Ends(p) ==
  /\ busy[p] # NoHook
  /\ call[p] = NoCall
  /\ busy' = [busy EXCEPT ![p] = NoHook]
  /\ stage' = [stage EXCEPT ![p] = "done"]
  /\ UNCHANGED <<mapVars, op, range, next, data, call, called, attached, changes>>

(* The handler panics; hookWrapper recovers and returns nil.               *)
HandlerPanic(p) ==
  /\ busy[p] # NoHook
  /\ call[p] = NoCall
  /\ busy' = [busy EXCEPT ![p] = NoHook]
  /\ data' = [data EXCEPT ![p] = "nil"]
  /\ UNCHANGED <<mapVars, op, stage, range, next, call, called, attached, changes>>

LoopDone(p) == busy[p] = NoHook /\ next[p] > range[p].len

(* ... then the hooks for the op.                                          *)
NextLoop(p) ==
  /\ stage[p] = "wild"
  /\ LoopDone(p)
  /\ StartLoop(p, "op", op[p])
  /\ UNCHANGED <<mapVars, op, busy, call, data, called, attached, changes>>

DispatchDone(p) ==
  /\ stage[p] = "op"
  /\ LoopDone(p)
  /\ stage' = [stage EXCEPT ![p] = "done"]
  /\ UNCHANGED <<mapVars, op, range, next, busy, call, data, called, attached, changes>>

----------------------------------------------------------------------------
(* Hook and Unhook, called by the handler that runs for p                  *)

(* What a call that has changed the hooks leaves in the histories.         *)
Record(kind, lost) ==
  /\ attached' = [q \in Packets |-> IF Dispatching(q) THEN attached[q] \ lost ELSE attached[q]]
  /\ changes' = [q \in Packets |-> IF Dispatching(q) THEN changes[q] \cup {kind} ELSE changes[q]]

(* insertHook loads the slice of the target.                               *)
HookLoad(p, h) ==
  /\ busy[p] # NoHook
  /\ call[p] = NoCall
  /\ status[h] = "idle"
  /\ status' = [status EXCEPT ![h] = "hooked"]
  /\ call' = [call EXCEPT ![p] = [kind |-> "insert", hook |-> h, slice |-> hooks[Target[h]]]]
  /\ UNCHANGED <<initialized, arrays, hooks, crashed, loopVars, attached, changes>>

(* Slip: the slice is not sorted after initMods either.                    *)
HookStore_Unsorted(p) ==
  /\ call[p].kind = "insert"
  /\ LET h == call[p].hook
         new == Appended(call[p].slice, h)
     IN  /\ arrays' = new.arrays
         /\ hooks' = [hooks EXCEPT ![Target[h]] = new.slice]
  /\ call' = [call EXCEPT ![p] = NoCall]
  /\ Record("insert", {})
  /\ UNCHANGED <<initialized, status, crashed, loopVars>>

(* ... appends, sorts and stores it.                                       *)
HookStore(p) ==
  /\ call[p].kind = "insert"
  /\ LET h == call[p].hook
         new == Appended(call[p].slice, h)
     IN  /\ \E order \in Orders(new.arrays, new.slice) :
              arrays' = Reordered(new.arrays, new.slice, order)
         /\ hooks' = [hooks EXCEPT ![Target[h]] = new.slice]
  /\ call' = [call EXCEPT ![p] = NoCall]
  /\ Record("insert", {})
  /\ UNCHANGED <<initialized, status, crashed, loopVars>>

(* removeHook loads the slice; a hook may be unhooked again.               *)
UnhookLoad(p, h) ==
  /\ busy[p] # NoHook
  /\ call[p] = NoCall
  /\ status[h] # "idle"
  /\ call' = [call EXCEPT ![p] = [kind |-> "remove", hook |-> h, slice |-> hooks[Target[h]]]]
  /\ UNCHANGED <<mapVars, loopVars, attached, changes>>

Found(s, h) == {i \in 1..s.len : arrays[s.array][i] = h}

(* ... finds the hook, closes the gap and stores the shorter slice.        *)
UnhookStore(p) ==
  /\ call[p].kind = "remove"
  /\ LET h == call[p].hook
         s == call[p].slice
     IN  \E i \in Found(s, h) :
           /\ \A j \in Found(s, h) : i <= j
           /\ arrays' = Removed(s, i)
           /\ hooks' = [hooks EXCEPT ![Target[h]] = [s EXCEPT !.len = @ - 1]]
           /\ status' = [status EXCEPT ![h] = "unhooked"]
           /\ Record("remove", {h})
  /\ call' = [call EXCEPT ![p] = NoCall]
  /\ UNCHANGED <<initialized, crashed, loopVars>>

(* Slip: the slice is shortened whether the hook was found or not.         *)
UnhookNotFound_Shortens(p) ==
  /\ call[p].kind = "remove"
  /\ Found(call[p].slice, call[p].hook) = {}
  /\ hooks' = [hooks EXCEPT ![Target[call[p].hook]].len = @ - 1]
  /\ call' = [call EXCEPT ![p] = NoCall]
  /\ Record("none", {call[p].hook})
  /\ UNCHANGED <<initialized, arrays, status, crashed, loopVars>>

(* ... "Hook not found"                                                    *)
UnhookNotFound(p) ==
  /\ call[p].kind = "remove"
  /\ Found(call[p].slice, call[p].hook) = {}
  /\ status' = [status EXCEPT ![call[p].hook] = "unhooked"]
  /\ call' = [call EXCEPT ![p] = NoCall]
  /\ Record("none", {call[p].hook})
  /\ UNCHANGED <<initialized, arrays, hooks, crashed, loopVars>>

(* "concurrent map writes" and "concurrent map read and map write": p and  *)
(* q are at the map together, p to write.                                  *)
MapFault(p, q) ==
  /\ p # q
  /\ call[p] # NoCall
  /\ call[q] # NoCall \/ (Dispatching(q) /\ LoopDone(q))
  /\ crashed' = TRUE
  /\ UNCHANGED <<initialized, arrays, hooks, status, loopVars, call, attached, changes>>

----------------------------------------------------------------------------
PacketStep(p) ==
  \/ (\E o \in Ops : Dispatch(p, o)) \/ CallHook(p) \/ HandlerReturn(p) \/ HandlerPanic(p)
  \/ NextLoop(p) \/ DispatchDone(p)

CallStep(p) ==
  \/ \E h \in Hooks : HookLoad(p, h) \/ UnhookLoad(p, h)
  \/ HookStore(p) \/ UnhookStore(p) \/ UnhookNotFound(p)
  \/ \E q \in Packets : MapFault(p, q)

Next ==
  /\ ~crashed
  /\ \/ \E h \in Hooks : InitHook(h)
     \/ InitDone
     \/ \E p \in Packets : PacketStep(p) \/ CallStep(p)

Spec == Init /\ [][Next]_vars

----------------------------------------------------------------------------
(* Safety                                                                  *)

Slices == [array : 1..Len(arrays), len : Nat]

TypeOK ==
  /\ initialized \in BOOLEAN
  /\ arrays \in Seq(Seq(Hooks \cup {NoHook}))
  /\ hooks \in [Targets -> Slices]
  /\ status \in [Hooks -> {"idle", "hooked", "unhooked"}]
  /\ op \in [Packets -> Ops]
  /\ stage \in [Packets -> {"idle", "wild", "op", "done"}]
  /\ range \in [Packets -> Slices]
  /\ next \in [Packets -> Nat \ {0}]
  /\ busy \in [Packets -> Hooks \cup {NoHook}]
  /\ call \in [Packets -> {NoCall} \cup
                 [kind : {"insert", "remove"}, hook : Hooks, slice : Slices]]
  /\ data \in [Packets -> {"body", "nil"}]
  /\ crashed \in BOOLEAN
  /\ called \in [Packets -> Seq(Hooks \cup {NoHook})]
  /\ attached \in [Packets -> SUBSET Hooks]
  /\ changes \in [Packets -> SUBSET {"insert", "remove", "none"}]

(* Every slice that the map, a loop or a call holds shows hooks only: no   *)
(* loop ever calls a nil hook, whatever else works on its array meanwhile. *)
Solid(s) == s.len <= Len(arrays[s.array]) /\ \A i \in 1..s.len : arrays[s.array][i] \in Hooks

NoHoles ==
  /\ \A t \in Targets : Solid(hooks[t])
  /\ \A p \in Packets : Solid(range[p]) /\ (call[p] # NoCall => Solid(call[p].slice))

(* Only one goroutine at a time has been at the hooks so far.              *)
Alone == \A p, q \in Packets : stage[p] # "idle" /\ stage[q] # "idle" => p = q

(* Between calls the map holds exactly the hooks that were hooked and not  *)
(* unhooked, each of them once, by descending priority after initMods.     *)
MapExact ==
  Alone /\ (\A p \in Packets : call[p] = NoCall) =>
    \A t \in Targets :
      LET cells == Cells(hooks[t]) IN
      /\ {cells[i] : i \in DOMAIN cells} = {h \in Hooks : status[h] = "hooked" /\ Target[h] = t}
      /\ \A i, j \in DOMAIN cells : i < j =>
           /\ cells[i] # cells[j]
           /\ initialized => Priority[cells[i]] >= Priority[cells[j]]

(* A packet whose dispatch nobody interfered with was handed to every hook *)
(* attached once, panics of handlers notwithstanding.                      *)
CallsEveryHookOnce ==
  \A p \in Packets : Alone /\ stage[p] = "done" /\ changes[p] = {} =>
    /\ {called[p][i] : i \in DOMAIN called[p]} = attached[p]
    /\ Len(called[p]) = Cardinality(attached[p])

(* Hooks for every packet come before those for the op, and within each of *)
(* the two the priority never rises, unless hooks were inserted in the     *)
(* meantime: removals shift hooks of lower priority into the loop's way.   *)
PriorityNeverRises ==
  Alone => \A p \in Packets : \A i, j \in DOMAIN called[p] : i < j =>
    \/ "insert" \in changes[p]
    \/ Target[called[p][i]] = Wild /\ Target[called[p][j]] # Wild
    \/ /\ Target[called[p][i]] = Target[called[p][j]]
       /\ Priority[called[p][i]] >= Priority[called[p][j]]

(* A hook attached all through the dispatch of a packet gets the packet:   *)
(* "will be called back when the specified target packet is received".     *)
NoHookSkipped ==
  \A p \in Packets : stage[p] = "done" =>
    attached[p] \subseteq {called[p][i] : i \in DOMAIN called[p]}
============================================================================
