# Rhine in TLA+

Rhine is an HTTPS proxy between the Arknights client and its game servers.  It
parses the traffic, runs the modules' packet hooks on every request and
response, and mirrors the state of the player's account so that modules can
read it and be told when it changes.  This directory holds TLA+ models of it,
their TLC configurations and proofs about them.

## 1. The system

| Component | Code | State | Operations | Talks to |
|---|---|---|---|---|
| proxy | `proxy/proxy.go`, `handler.go`, `requestContext.go` | `dispatches` (user -> dispatch) under `proxy.mutex`; the request context of an exchange | `HandleReq`, `HandleResp`, `getUser`, `addUser`, `Shutdown` | goproxy calls it, one goroutine per HTTP exchange; it calls dispatch and the modules' init and shutdown callbacks |
| dispatch, packet hooks | `dispatch.go`, `packetHook.go`, `module.go` | `hooks` (op -> slice of hooks), `intialized`; the field `mutex` is never used | `dispatch`, `initMods`, `insertHook`, `removeHook`, `sortHooks`; `RhineModule.Hook`, `PacketHook.Unhook` | calls gamestate first, then the modules' handlers, which may call back into `Hook` and `Unhook` |
| game state | `proxy/gamestate/gamestate.go`, `gamestate_hook.go` | `state`, `loaded`, `stateMutex`, `hookQueue`, `stateHooks` | `handle`, `parseDataDelta`, `handleSyncData`, `parseHookQueue`, `Hook`, `Unhook`, `StateSync`, `GetStateRef`, `Get`, `IsLoaded` | called by dispatch on every packet; notifies the modules' channels |
| JSON walk | `proxy/gamestate/scanner.go` | the scanner's `step`, `parseState`, `err`, `endTop`; the pooled `path` | `WalkAndNotify` and the state machine of `encoding/json` | called by `parseDataDelta` on the raw delta |
| game data | `utils/gamedata/load.go`, `gamedata.go` | `state` under `stateMutex`, `fileMutex`, `updated`, `updateChecked`, the files and `.version` | `New`, `updateGameData`, `getAndUpdate`, `GetStageInfo`, `GetItemInfo` | called from a module's init and from its packet goroutines |
| drop logger | `mods/droplogger` | `mutex`, the stage being played and since when, the two tables, the log file | battle start and finish handlers and their goroutines | dispatch, game data |
| packet logger | `mods/packetlogger` | a `log.Logger` on a buffered writer on a file | `handle`, `Shutdown` | dispatch, proxy shutdown |
| certificate store | `proxy/certstore.go` | an LRU cache of 64 certificates under a mutex | `Fetch` | goproxy |
| the rest | `log`, `utils`, `filters`, `statestruct`, `itemtable`, `stagetable`, `cmd/example` | none of interest | I/O, data types | - |

### What is hard

* **`stateMutex` changes hands.** `New` locks it; the goroutine that parses the
  sync unlocks it.  `handle` locks it for every later packet, on the goroutine
  of the HTTP exchange, and the goroutine it starts unlocks it.  Every reader,
  `Unhook` and `parseHookQueue` compete for it.  A return path that forgets to
  unlock stalls the player's connection, a second unlock kills the process.
* **`loaded` is a plain bool**, written after the parse was started and read by
  every exchange without synchronisation.
* **Hooks arrive late.**  They go through a bounded channel and a goroutine of
  their own, while `Unhook` looks in the map only.
* **Slices are shared.**  `dispatch` ranges over `d.hooks[op]` while the
  handlers it calls remove from and insert into the same backing array in
  place.
* **Reconnects** replace a user's dispatch while exchanges that hold the old
  one are still in flight, and `Shutdown` walks the map without the mutex.
* **Locks are held across callbacks**: `addUser` holds `proxy.mutex` while
  modules initialise, which may wait for `fileMutex`, which may be held by an
  update whose workers have left.
* **More mutexes change hands.** `New` of the game data locks `fileMutex` for
  the update it starts, and the drop logger's handlers lock its `mutex` for
  goroutines that may run much later, while the next battle is on.
* **The disk outlives the process**, which may die while a data file or
  `.version` is half written.
* **A flush without the lock.**  The packet logger's lines are printed under the
  mutex of a `log.Logger`; `Shutdown` flushes the writer below without it.

`PROJECT.json` lists every hazard at its line.

### What makes each component correct

* game state: critical sections exclude each other; no unlock of a free mutex;
  packets are merged in the order in which they were accepted, each before the
  next one is; reads see a state, one that is at least as new as the call;
  events come in merge order and stop after an `Unhook`; nobody waits for ever.
* packet hooks: a packet is given to every hook for it once, in priority order,
  wildcards first, whatever the handlers do; none after its `Unhook`; a slice
  never shows a hole; a panicking handler costs nobody else the packet.
* JSON walk: accepts exactly JSON, reports exactly the object keys, each with
  the path of the keys that enclose it.
* proxy: one live dispatch per user; a shutdown callback runs once per module
  instance and before its successor starts; a request is given a dispatch that
  runs; exit leaves no module of the table running.
* game data: calls return; tables are read only when no update writes the
  files, and from what this process has fetched; a file that will not be fetched
  again, because its etag is in `.version`, is that version and whole.
* drop logger: the drops of every battle that was won are reported once, for the
  stage of that battle, and are in the log; handlers return.
* packet logger: what was printed before the shutdown is in the file, in order
  and once.

## 2. The models

### Game state (`GameState`, `StateMirror`, `GameStateExact`)

`GameState.tla` models one instance of the package and every goroutine that
touches it.

| Code | Model |
|---|---|
| `handle` on the goroutine of an HTTP exchange | `HandleLoaded`, `HandleLock`; `HandleSync`, `HandleSetLoaded`; `HandleIgnored`; program counter `pc[p]` |
| `go handleSyncData`, `go parseDataDelta` and `WalkAndNotify` | `HandleSyncData`; `ParseNothing`, `ParseDataDelta`, `NotifyKey` (one key of the walk), `AbortWalk`, `EndWalk`; program counter `worker[p]`, position `pos[p]` |
| `parseHookQueue` | `ParserReceive`, `ParserLock`, `ParserAppend` |
| `Hook`, `Unhook`, and the module that receives | `Hook`, `HookDropped`; `Unhook`, `UnhookLock`, `UnhookFound`, `UnhookNotFound`, `UnhookNil`; `Receive` |
| `StateSync`, `GetStateRef`, `Get` | `ReadCall`, `ReadLock`, `ReadReturn` |
| `stateMutex` | `mutex`: `"free"` or what it was locked for; `"new"` until the first unlock |
| the mirrored struct | `state`, the sequence of packets merged into it |

A packet is an identity with a kind (sync, delta, delete, other) and the paths
of its keys in document order.  `accepted`, `asOf` and `view` are history
variables: what `handle` has taken on, how much of it when a reader called, how
much the reader was given.  `~crashed` guards every step: unlocking a free
mutex ends the process.

`StateMirror.tla` is what the package promises a module, without goroutines or
locks: packets are accepted one by one, absorbed in that order, and a read
returns a state that exists and holds all that was accepted when it was called.
`GameState` implements it (`MirrorSafety`, `MirrorSpec`) with readers that are
not `"idle"` as the ones that are calling.

`GameStateExact.tla` puts a second reader of the traffic beside `GameState`,
one that takes a packet at a time: `due` is the mirror it would have, `alone`
tells whether packets did come one at a time.

### JSON walk (`Scanner`, `JsonGrammar`, `Recogniser`, `Walk`)

`Scanner.tla` is the scanner of `scanner.go` as a function, `Step(s, c)`: one
operator per state function, a record for the fields, one character per class
of bytes that no state function tells apart.  `JsonGrammar.tla` is RFC 8259 as
rewriting rules, independent of the code: a set of goals, sequences of symbols
that what is still to come may match; `Predict` applies the rules to their first
symbols and `Read` takes a byte.  `Recogniser.tla` feeds the scanner and the
grammar the same bytes, any number of them nested to any depth, and states where
they have to agree; `MCScanner` only bounds the nesting.  `Walk.tla` is
`WalkAndNotify`, one action per byte: the pooled `path`, `lastLiteralPos`, the
depth check and the returns.  What it emits is what `GameState` takes as
`Walk[p]`.  `WalkKeys.tla` puts a second reader beside the
walk, which keeps each key with its object instead of in `path` and collects its
bytes one by one, and compares the paths with it (`KeysInPlace`); `MCWalk` also
compares them with the document as a tree (`PathsExact`).

### Packet hooks (`PacketHooks`)

`PacketHooks.tla` makes Go's slices explicit: arrays with a capacity, slices as
an array and a length, `append` that writes in place or moves.  `dispatch` is a
loop per stage (wildcards, op) that reads each cell when its turn comes; the
handler that runs returns, panics, or calls `Hook` or `Unhook`, in a load and a
store with whatever others do in between.  `sort.Sort` is not stable: any
order that respects the priorities.  `InitHook` and `InitDone` are `initMods`.

### Proxy (`Proxy`)

`Proxy.tla` is the table of dispatches: `HandleReq` to the dispatch it gets
(`RequestComes`, `GetUser`, `AddUserLock` to `AddUserStore` step by callback),
the request and the response (`DispatchRequest`, `DispatchResponse`), a
callback that panics in `addUser` (`AddUserPanics`), and the SIGINT goroutine
(`Signal`, `Visit`, `VisitModule`, `VisitDone`, `Exit`), which takes no mutex
and ranges over a Go map.  What the dispatches do with a packet is left to
`PacketHooks` and `GameState`.  The login that made a dispatch stands for it.

### Game data (`GameData`)

`GameData.tla` is the package with all of its goroutines, its two mutexes, its
files and the server behind it.

| Code | Model |
|---|---|
| `New` | `New`, `NewState` (under `stateMutex`), `NewFile`, which locks `fileMutex` and starts the update |
| `updateGameData` | `UpdateSkip`, `UpdateStart`, `SendJob` (blocks while `jobs` is full), `WorkersWaited`, `VersionCreate`, `VersionLine`, `VersionFails`, `UpdateDone` |
| `getAndUpdate` | `WorkerReceive` to `WorkerDone`; `RequestFails`, `RequestNotModified`, `RequestUnexpected` (the worker returns), `RequestOK`; `CreateFile`, `CreateFails`, `WriteFile`, `WriteFails` |
| `GetStageInfo`, `GetItemInfo`, `loadExcelJSON` | `Lookup`, `LookupFound`, `LookupMissing`, `LoadLock`, `LoadTable`, `LoadPanics` |
| the process, the disk, the server | `Kill`, `Restart`, `file`, `etag` (the lines of `.version`), `ServerChanges` |

`Kill` and a panic leave nothing but `file` and `etag`.  A version number is a
file's content and its etag.  Two assumptions about the server: it never goes
back to an earlier version, and it answers 304 exactly when it is asked with
the etag of what it has.  A line of `.version` that was cut off is taken for no
line: a cut etag equals none that the server has, and `loadVersionFile` stops
at a line that has no etag.

### Drop logger, packet logger, sessions (`DropLogger`, `PacketLogger`, `Session`)

`DropLogger.tla` has the handlers (`StartTime`, `LockAndGo`) and their
goroutines (`GetTables`, `BattleStarts`; `BattleIgnored`, `LogDrops`,
`ReportDrops`, `FinishPanics`); `PacketLogger.tla` has the goroutine that
`handle` starts (`Handle`), the `Printf` of a `log.Logger` (`PrintLock` to
`WriteCount`) and the `Flush` of `Shutdown` (`FlushWrite`, `FlushReset`,
`FlushEmpty`).  `Write` and `Flush` of a `bufio.Writer` are each two steps,
because `Shutdown` does not take the logger's mutex: `FlushReset` lowers a
count that a `Write` may have raised since.

`Session.tla` composes the two.  A login makes an instance of each (`Logins`);
an exchange is given the current instances (`PacketComes`), calls the packet
logger and then the drop logger (`Wildcards`, `StartHandler`,
`HandlerReturns`), and goes on with them when the user logs in again
(`LoginComes` to `LoginStore`) or SIGINT comes (`Interrupt`).  The game data
is what `GameData` promises: a lookup returns or ends the process
(`TablesCome`, `TablesPanic`).

## 3. Runs

| Run | Shows |
|---|---|
| `gamestate_safety` | every interleaving of four packets (two syncs, two deltas; two in flight), two hooks with a queue of one, and a reader keeps the safety properties, `StateMirror` is implemented, and if packets are processed one at a time the mirror is exactly the first sync and the deltas since, aborted walks, readers and hooks notwithstanding |
| `gamestate_live` | handlers return, hooks get attached, and `StateMirror`'s liveness: what was accepted is absorbed, readers return |
| `lost_unhook` | *violation*: an `Unhook` that overtakes `parseHookQueue` is lost |
| `scanner` | byte for byte the scanner agrees with the grammar on what is JSON, what can become it, and where the value has ended |
| `walk` | no index is out of range, and keys outside of arrays are reported by their paths, keys inside with those of the objects around them in place |
| `array_paths` | *violation*: a key in an array is reported with a stale key in its path |
| `hooks` | with handlers that hook, unhook and panic, no slice ever shows a cell without a hook; while no two packets overlap, the map is exact, undisturbed dispatches reach every hook once, and priority never rises |
| `skipped_hook` | *violation*: a handler that unhooks makes the loop skip the next hook |
| `proxy` | one running dispatch per user; shutdown first, and once; exit leaves none running; requests get a running dispatch; nobody waits for `proxy.mutex` for ever |
| `gamedata` | wherever the process is killed, whatever fails on network and disk: a matching etag means a whole file, lookups read only what the update has left, and calls return |
| `session` | two battles, logins in between, SIGINT: drops are reported for their battle, once; lines printed before a shutdown are kept; a finish kills the process only after a login during the battle; exchanges and logins end |
| `drops_logged` | *violation*: no drop is ever in the log file |

Every passing run explores its whole state space.  Where the system may stop,
the MC module says when (`AtRest`, `Killed`, `Returned`, `Dead`) and any other
state without a step is a deadlock; only `gamestate_live`, whose fair
specification has no such step, switches that check off.

### Bounds

* Game state: a queue of one hook stands for 100, since full, empty and in
  between occur with two hooks.  Listeners of one event fill up.  Two packets
  in flight and more to come make a handler wait behind one that waits behind a
  walk.  The walk of `delta1` visits both paths, so that a hook attached,
  removed or failing (`Unresolved`) at one of them is seen by the other.  The
  second sync comes after the first is loaded (`SyncOverlap` is FALSE, see
  section 4).
* Scanner: inputs have no bound, only the nesting has (`MaxDepth` = 6).  The
  scanner looks at the top of its stack, and at whether there is one.
* Walk: all documents of objects with up to two members and arrays with up to
  one element nested to depth two, some of depth three, and one deeper than
  `MaxPathDepth` = 3, which stands for 64; with and without a space before the
  colon, whole and followed by rubbish.
* Packet hooks: two packets, which may overlap when two of the four hooks are in
  use (`FewHooks`).  Arrays of capacity 1, 2 and 4 occur: in-place and moving
  appends both happen.  The two packets are identified up to symmetry.
* Proxy: two logins and a request of one user, a login of another, two
  modules of which one has a shutdown callback, one panic (`MaxPanics`).
* Game data: one worker, a channel of one, and three files, one more than the
  worker and the channel take, so that the update can stall as it can with four
  workers, a channel of four and twelve files.  Two callers contend for both
  mutexes, one file changes once on the server (`Changing`, `MaxVersion`), and
  two lives (`MaxLives`) are one that dies and one that finds what it left.
* Session: two logins; two starts and two finishes, the second battle being
  practice, which the client may interleave with its login as it likes.  Every
  packet is also a line of the packet log, and a buffer of two lines
  (`BufferCap`) fills up.

### Fairness

Every goroutine that can run is scheduled (`WF`), and acquiring a mutex is
strongly fair: a Go mutex that has kept a waiter for a millisecond goes into
starvation mode and is handed over first in first out.  In `Proxy` and
`Session`, where exchanges are finite in number, it is enough that some
exchange that can go on does.  Module callbacks return or panic.  In `GameData`
a request ends with an answer or an error: the code sets no timeout, so this is
the network's part, not Rhine's.  `Session` assumes of the game data what
`CallersReturn` says, the stall excepted.  Nothing obliges the server to answer
the client, the client to ask, the user to log in again or to interrupt, or a
module to hook, unhook, receive, read or look something up.

## 4. Proofs

`GameStateProofs.tla`: packets, kinds, walks, hooks, readers, capacities and
packets in flight are arbitrary.  Most of its theorems assume `~SyncOverlap`:
the client does not have two `S/account/syncData` responses handled at the same
time.  Without it `NeverCrashes` does not hold: both handlers read `loaded`
unset (`gamestate.go:113`), and the second `Unlock` ends the process.
`MutualExclusion` is not inductive: that a goroutine may unlock depends on the
mutex never being given out while a packet is in hand, and that on `loaded`.
`HandoverInv` adds what is missing: the mutex is the one `New` locked exactly as
long as there is no state; nobody has seen `~loaded` with a sync in hand but the
one handler that is about to set it; and what `handle` has accepted is the
mirror plus the packet in hand.  `IInv`, the conjunction of the types,
`MutualExclusion`, `NeverCrashes` and `HandoverInv`, is inductive; the freshness
of reads and the refinement of `StateMirror` follow from it.  So does
`EventsOrdered`, with `EventsInv`: while a delta is walked it is the last one in
the mirror, so that its events belong behind all others.

Four theorems of the module need no assumption about syncs.  `TypeCorrect`
includes the bounds of the channels.  `HooksInOnePlace` says that a hook is in
the queue, in the hands of `parseHookQueue` or attached, once and in one of
these, and nowhere after an `Unhook` that found it; `UnhookEnds` follows.
`MirrorIsExact` does not look at the mutex at all: of a packet that is alone the
handler comes before the goroutine, so it is enough to follow by how much the
mirror is behind `due` while the packet is in hand (`InHand`).

`WalkProofs.tla` proves, for every sequence of bytes and every `MaxPathDepth`,
that no index expression of the walk or the scanner is out of range.  A colon is
a key's only if the innermost context waits for one and a literal is behind us;
`IInv` says that `lastLiteralPos` is then where that literal began, before the
byte at hand.  The scanner's part, in `ScannerProofs.tla`, is a lemma per group
of state functions about what an answer may be (`Answers`).  `WalkKeysInPlace`
is about the paths, for every document, nesting and content of the pooled slice:
the one that is notified has a component for each object or array around the
key, and the component of an object is the key read in it last, from quote to
quote, unless a space came before its colon.  The invariant, `KeysInv`, is that
the cells of `path` below the depth of the scanner hold the keys of the objects
that are open (only their own next key is stored there while they are), and that
what the reader has put together of a key is what lies behind `lastLiteralPos`.

`RecogniserProofs.tla` proves that the scanner is a recogniser of JSON: for every
input, of any length and nested to any depth, it is in error exactly from the
byte on that no text can continue with (`RejectsAtOnce`), `eof` accepts exactly
the texts (`AcceptsJson`), and the first stop behind a value is `scanEnd`
(`EndComesAfterTheValue`).  The three properties say nothing of a scanner in the
middle of a value; the inductive invariant does.  `Chain` gives the stack its
meaning: `ends[k]` is the set of goals that may follow a value in the k-th
context, and is made of the one below by the closing bracket or a comma.
`Ahead` says of each state function which goals it stands for, given what
follows the literal at hand and the innermost context.  `Inv` is that the
grammar's goals are those (`Fits`), that the scanner is well formed and that
`endTop` and `err` are in step with the state function (`Flags`); it has one
lemma per state function (`StepAnswered` joins them), whose cases are the
classes of the byte.  The grammar's side is in `ScannerProofs.tla`: with
`Before(x, rest)` for the goals `rest` behind the symbol x, and a name for what
each rule leaves, `Expand` and `Read` become equations that do not look into a
goal, so that the induction over the nesting is the one along the behaviour.  `RecogniserPredicts` adds that the
six expansions of `Predict` leave no rule to apply: the reference drops no text.

`PacketHooksProofs.tla`, for any hooks, targets, priorities and packets, assumes
only what `PacketHooks` does of its constants.  `NoHoles` holds whatever
overlaps: an array keeps its length and a cell that has had a hook always has one
(`Grows`), because a removal moves hooks and clears nothing; a slice that shows
hooks only will do so for ever, whoever holds it.  The other three are about
behaviours in which no two packets were ever at the hooks at a time, `Alone`.
Then the slices of two targets share no cells (`OwnArrays`), the slice that a
call of `Hook` or `Unhook` has loaded is still the map's when it stores
(`FreshCalls`), and the map shows each hook that is hooked once and no other
(`MapShown`): `MapExact`.  For `CallsEveryHookOnce`, a loop whose handlers
change nothing ranges over the map's own slice and has called its first `next`
cells; that each hook is called once is then a counting argument, a sequence
without repetition that is as long as the set it goes into.  For
`PriorityNeverRises`, a removal moves the cells behind it forward in an array
that falls (`RangeFalls`): what the loop still meets is never above what it has
called, although it may meet its last hook twice.

`ProxyProofs.tla` proves the types of `Proxy`, `OneLiveDispatch`,
`GetsLiveDispatch` and `ShutdownComesFirst` for any users, exchanges and
modules.  A dispatch leaves
the table when the next one is stored, long after its callbacks were called, so
`IInv` follows it through `addUser`: up to which module it is down while the
loop is at `at[x]` (`OldGoesDown`), that all of it is while the new one is
initialised (`OldIsDown`), and that it stays so (`GoneIsDown`).  This holds
with SIGINT too, whose goroutine does not take the mutex but only adds calls;
that a dispatch nobody replaces is untouched (`UntouchedInv`) holds until then.

The second half of `ProxyProofs.tla` proves what SIGINT leaves, though
`Shutdown` takes no mutex: `ExitShutsDown` and `ShutdownOnce`.  What was in the
table when the signal came is down, or still in the table and not yet visited,
or being called (`RunningInv`).  A login that replaces a dispatch Shutdown has
not come to must therefore have called all of its callbacks, which is needed
after a panic too, so that the two parts of `DownInv` about a login under way
are proved again without the condition on `panics` (`OldInv`).  For
`ShutdownOnce` the invariant says what a login and what Shutdown has passed over
(`LoginCalled`, `SignalCalled`), and that a callback neither has passed was not
called, and one that only one of them has was called once (`CountsInv`).  It
holds as long as no callback panics in `addUser`.

`GameDataProofs.tla` proves, for any files, workers, callers, versions and
lives, that `EtagsSound` and `LoadsWhatWasFetched` hold and that the channel
`jobs` keeps its bound.  `EtagsSound` alone is not inductive: a worker truncates
a file that `.version` names.  `IInv` adds that `fileMutex` is the update's
exactly as long as one runs, and workers run only while it waits for them
(`LocksInv`, `JobsInv`); that a file is waiting, in `jobs`, in one worker's
hands or done with, and has nothing in `etags` before it is done with; and that
what is being fetched is not what `.version` names, now or later, since the
server only goes forward (`VersionsInv`).  The assumptions are those of
`GameData` on its constants.

`SessionProofs.tla` is about any logins, packets, battles and buffers.
`LinesKept`: the lines behind those of the file are in the buffer, in order,
also between the two steps of a `Write` and of the `Flush`, and as long as no
`Printf` has met the `Flush` (`raced`) the count it lowers is the one it has
written (`WriterInv`, `FlushInv`); from then on what was printed before is in
the file and stays there (`KeptInv`).  `DropsOfTheirBattle`: in one session the
exchanges of the battle packets follow each other, since the client waits for an
answer, and so do the goroutines, since the handler locks the mutex before its
exchange ends (`MutexInv`, `TurnInv`).  So the goroutine of a finish finds in
`currStage` the last start before it (`StageInv`); only `stageStartT`, written
before the lock, may be from a later one (`TimeInv`). `DiesOnlyMidBattle`
follows from `StageInv`: `currStage` is nil only while no start came to the
instance.  The assumptions are that of `PacketLogger` (a buffer has room for a
line) and `SessionAssumption`: logins are numbered, and every battle packet has
one place in the order in which the client plays.

Only model-checked: liveness (fairness and `ENABLED` are out of the prover's
reach), and the part of `PathsExact` that compares a walk with a recursive
function on documents; its first conjunct, `KeysInPlace`, is proved.

## 5. Where the code and its documents differ

Four differences have runs (`lost_unhook`, `skipped_hook`, `array_paths`,
`drops_logged`: init closes the log file it hands on, `dropLogger.go:138`).
These were met while modelling and follow from the modelled actions:

* `IsLoaded` is true as soon as the parse of the sync was started
  (`gamestate.go:118`), not "already parsed" (`:50-51`).
* `Unhook` of the nil that `Hook` returns when the queue is full dereferences
  it (`gamestate_hook.go:19`, against `module.go:39-40`): `UnhookNil`.
* Hooks are not attached "just before notifying listeners"
  (`gamestate.go:30-31`) but when `parseHookQueue` gets the mutex
  (`gamestate_hook.go:41`): events in between are not seen.
* A lookup that fails for one hook ends the walk for all
  (`scanner.go:78`, against `module.go:59-60`): `AbortWalk`.
* Deletions are never read (`gamestate.go:90`, against `readme.md:64`), and
  every sync after the first is taken for a delta (`gamestate.go:113`, against
  the "exact state" of `readme.md:4`): both are exceptions in `MirrorExact`.
* A space between key and colon leaves the closing quote in the key
  (`scanner.go:64`, against `module.go:79-80`): `ObjectKey`, `PathsExact`.
* A removal in place makes the loop call its last hook twice, and a hook may be
  called after its `Unhook` (`dispatch.go:107`, against `module.go:45-47`).
  Insertions sort under the loop (`packetHook.go:41`).  Overlapping `Hook`
  calls may lose one (`packetHook.go:43`).  All are exceptions in
  `CallsEveryHookOnce` and `PriorityNeverRises`.
* After a panic the next handler is given nil as data (`dispatch.go:56`, against
  `readme.md:15`): `HandlerPanic`.
* A reconnect calls the shutdown callbacks with true (`proxy.go:217`), which
  `module.go:68-69` keeps for SIGINT.  A login that is under way at SIGINT
  may miss its callbacks (`proxy.go:189`).
* An update whose workers have all met an unexpected status stalls for ever if
  files are left, with `fileMutex` locked (`load.go:145`): logins and lookups
  then hang, and with a login every user does.  If no more are left than the
  channel holds, the update counts as done although they were never asked for
  (`load.go:108`, against the "each individual file" of `load.go:43`), and no
  later login tries again.
* `updated` is never set (`gamedata.go:57`): every login waits for `fileMutex`.
* A battle that was begun before a login and is won after it ends the process
  (`dropLogger.go:98-100`), and with it the buffered packet logs:
  `FinishPanics`, the exception in `DiesOnlyMidBattle`.
* The duration that is reported may be counted from the next battle's start,
  whose handler does not wait for the mutex before it writes the time
  (`dropLogger.go:125`): the exception in `DropsOfTheirBattle`.
* Lines of the packet log may be in another order than the packets, and those
  that are printed during or after the `Flush` may be lost, repeated or garbled
  (`packetLogger.go:30`, `:36`): the exceptions in `LinesKept`.

## 6. Not modelled, and the plan

Done, in this order: `StateMirror`, `GameState`, `GameStateProofs`;
`PacketHooks`; `Scanner`, `JsonGrammar`, `Walk`, `WalkProofs`; `Proxy`,
`ProxyProofs`; `GameData`, `GameDataProofs`; `PacketLogger`, `DropLogger`,
`Session`, `SessionProofs`; `PacketHooksProofs`; `GameStateExact`; `Recogniser`,
`ScannerProofs`, `RecogniserProofs`; `WalkKeys`.

Next:

1. Theorems: every safety property that a run checks is proved but for
   `PathsExact`, of which `KeysInPlace` is.
2. Compositions: `Session` with `GameState` (reads of the mirror by an exchange
   whose dispatch was replaced), and the stall of `Proxy` behind `GameData`.

Not planned: the certificate store, one critical section around a library's
LRU cache, which returns a certificate for the host whatever the cache holds;
the struct definitions and tables (data), `log`, certificate generation and the
host filter (library calls and I/O), `cmd/example`.
Abstracted: what JSON decoding and `mergo` do to the fields of the state (a
merge is the append of a packet); tearing inside a struct that a module reads
through `GetStateRef` while a merge writes it; regions of the game data that do
not exist; the rewards of a battle and the wording of what is printed.  A
finish without rewards writes its line to the log before it panics
(`dropLogger.go:97`): `FinishPanics` leaves that out, as the file is closed.
