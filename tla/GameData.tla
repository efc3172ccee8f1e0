------------------------------ MODULE GameData ------------------------------
(***************************************************************************)
(* The game data (utils/gamedata/gamedata.go, load.go): tables that modules*)
(* look up, read from files that an update keeps like those on a server.   *)
(*                                                                         *)
(* Every New locks fileMutex and starts an update that unlocks it, so that *)
(* lookups, which take fileMutex to read a file, wait for the files.  The  *)
(* update hands the files to a few workers through a bounded channel; the  *)
(* workers send the etag of the file they have, which .version holds, and  *)
(* write what the server answers.  Files and .version outlive the process, *)
(* which may die between any two writes.                                   *)
(*                                                                         *)
(* A version of a file stands for its content and for its etag.  The server*)
(* never goes back to a version, and says 304 exactly when it is asked with*)
(* the etag of its version.                                                *)
(***************************************************************************)
EXTENDS Naturals, FiniteSets

CONSTANTS
  Files,       \* the numbers of the paths of all regions, in sorted order
  Tables,      \* the files that GetStageInfo and GetItemInfo read
  Workers,     \* maxConnections workers
  JobsCap,     \* capacity of the channel jobs, maxConnections too
  Callers,     \* goroutines of modules that use the package
  Changing,    \* bound: the files that change on the server
  MaxVersion,  \* bound: how often they do
  MaxLives     \* bound: how often the process is started

(* Neither an etag nor a version: a file that is missing or incomplete, a  *)
(* path without a whole line in .version, a table that is not loaded.      *)
Nothing == 0
Versions == 1..MaxVersion

ASSUME ConstantsAssumption ==
  /\ Files \subseteq Nat
  /\ IsFiniteSet(Files)
  /\ Tables \subseteq Files
  /\ Changing \subseteq Files
  /\ JobsCap \in Nat \ {0}
  /\ MaxVersion \in Nat \ {0}
  /\ MaxLives \in Nat \ {0}
  /\ Callers \cap {"free", "update"} = {}

VARIABLES
  server,         \* server[f]: the version of f on the server
  file,           \* file[f]: the version in the data directory
  etag,           \* etag[f]: the etag of f in .version
  fileMutex,      \* "free", or the caller or "update" that it is locked for
  stateMutex,     \* "free", or the caller that holds it
  tables,         \* tables[t]: the version in state.stageTableMap, itemTableMap
  updateChecked,  \* has an update got to its end?
  update,         \* where updateGameData is
  todo,           \* the files it has not sent to jobs
  jobs,           \* the channel jobs
  worker,         \* worker[w]: where getAndUpdate is
  job,            \* job[w]: the file it has received
  body,           \* body[w]: the version in the answer
  got,            \* got[f]: the etag of f in the channel etags
  caller,         \* caller[c]: where c is
  want,           \* want[c]: the table it looks up
  process,        \* "up", "killed", or "panicked"
  lives           \* how often the process was started

diskVars == <<file, etag>>
mutexVars == <<fileMutex, stateMutex>>
workerVars == <<worker, job, body, got, jobs>>
updateVars == <<updateChecked, update, todo>>
callerVars == <<caller, want, tables>>
processVars == <<process, lives>>
vars == <<server, diskVars, mutexVars, workerVars, updateVars, callerVars, processVars>>

(* A first start, without a data directory.                                *)
Init ==
  /\ server = [f \in Files |-> 1]
  /\ file = [f \in Files |-> Nothing]
  /\ etag = [f \in Files |-> Nothing]
  /\ fileMutex = "free"
  /\ stateMutex = "free"
  /\ tables = [t \in Tables |-> Nothing]
  /\ updateChecked = FALSE
  /\ update = "none"
  /\ todo = {}
  /\ jobs = {}
  /\ worker = [w \in Workers |-> "done"]
  /\ job = [w \in Workers |-> Nothing]
  /\ body = [w \in Workers |-> Nothing]
  /\ got = [f \in Files |-> Nothing]
  /\ caller = [c \in Callers |-> "idle"]
  /\ want = [c \in Callers |-> Nothing]
  /\ process = "up"
  /\ lives = 1

(* The process ends, and with it everything but the disk.                  *)
ProcessEnds(how) ==
  /\ process' = how
  /\ fileMutex' = "free"
  /\ stateMutex' = "free"
  /\ tables' = [t \in Tables |-> Nothing]
  /\ updateChecked' = FALSE
  /\ update' = "none"
  /\ todo' = {}
  /\ jobs' = {}
  /\ worker' = [w \in Workers |-> "done"]
  /\ job' = [w \in Workers |-> Nothing]
  /\ body' = [w \in Workers |-> Nothing]
  /\ got' = [f \in Files |-> Nothing]
  /\ caller' = [c \in Callers |-> "idle"]
  /\ want' = [c \in Callers |-> Nothing]
  /\ UNCHANGED <<server, diskVars, lives>>

CallerTo(c, place) == caller' = [caller EXCEPT ![c] = place]
WorkerTo(w, place) == worker' = [worker EXCEPT ![w] = place]

----------------------------------------------------------------------------
(* New                                                                     *)

New(c) ==
  /\ caller[c] = "idle"
  /\ CallerTo(c, "newState")
  /\ UNCHANGED <<server, diskVars, mutexVars, workerVars, updateVars, want, tables, processVars>>

(* stateMutex is locked to make the empty maps, and unlocked.              *)
NewState(c) ==
  /\ caller[c] = "newState"
  /\ stateMutex = "free"
  /\ CallerTo(c, "newFile")
  /\ UNCHANGED <<server, diskVars, mutexVars, workerVars, updateVars, want, tables, processVars>>

(* fileMutex.Lock(); go updateGameData(logger).  updated is never set.     *)
NewFile(c) ==
  /\ caller[c] = "newFile"
  /\ fileMutex = "free"
  /\ fileMutex' = "update"
  /\ update' = "check"
  /\ CallerTo(c, "ready")
  /\ UNCHANGED <<server, diskVars, stateMutex, workerVars, updateChecked, todo, want, tables, processVars>>

----------------------------------------------------------------------------
(* updateGameData                                                          *)

(* Its deferred Unlock.                                                    *)
EndUpdate == update' = "none" /\ fileMutex' = "free"

(* An update has got to its end before.                                    *)
UpdateSkip ==
  /\ update = "check"
  /\ updateChecked
  /\ EndUpdate
  /\ UNCHANGED <<server, diskVars, stateMutex, workerVars, updateChecked, todo, callerVars, processVars>>

(* verMap is loaded, which is what .version holds until it is written      *)
(* again, and the workers are started.                                     *)
UpdateStart ==
  /\ update = "check"
  /\ ~updateChecked
  /\ update' = "send"
  /\ todo' = Files
  /\ jobs' = {}
  /\ worker' = [w \in Workers |-> "receive"]
  /\ got' = [f \in Files |-> Nothing]
  /\ UNCHANGED <<server, diskVars, mutexVars, job, body, updateChecked, callerVars, processVars>>

(* Slip: jobs holds whatever is sent.                                      *)
SendJob_Unbounded(f) ==
  /\ update = "send"
  /\ f \in todo
  /\ jobs' = jobs \cup {f}
  /\ todo' = todo \ {f}
  /\ UNCHANGED <<server, diskVars, mutexVars, worker, job, body, got, updateChecked, update, callerVars, processVars>>

(* The loops over a map send the files in any order.                       *)
SendJob(f) ==
  /\ update = "send"
  /\ f \in todo
  /\ Cardinality(jobs) < JobsCap
  /\ jobs' = jobs \cup {f}
  /\ todo' = todo \ {f}
  /\ UNCHANGED <<server, diskVars, mutexVars, worker, job, body, got, updateChecked, update, callerVars, processVars>>

(* Slip: wg.Done only where a worker's range ends.                         *)
WorkersWaited_NoDefer ==
  /\ update = "send"
  /\ todo = {}
  /\ \A w \in Workers : worker[w] = "done"
  /\ update' = "version"
  /\ UNCHANGED <<server, diskVars, mutexVars, workerVars, updateChecked, todo, callerVars, processVars>>

(* close(jobs); wg.Wait(): every worker has returned, early or not.        *)
WorkersWaited ==
  /\ update = "send"
  /\ todo = {}
  /\ \A w \in Workers : worker[w] \in {"done", "left"}
  /\ update' = "version"
  /\ UNCHANGED <<server, diskVars, mutexVars, workerVars, updateChecked, todo, callerVars, processVars>>

(* os.Create truncates .version, ...                                       *)
VersionCreate ==
  /\ update = "version"
  /\ etag' = [f \in Files |-> Nothing]
  /\ update' = "lines"
  /\ UNCHANGED <<server, file, mutexVars, workerVars, updateChecked, todo, callerVars, processVars>>

NoLineYet == {f \in Files : got[f] # Nothing /\ etag[f] = Nothing}

(* ... which is then written line by line.                                 *)
VersionLine ==
  /\ update = "lines"
  /\ \E f \in NoLineYet :
       /\ \A g \in NoLineYet : f <= g
       /\ etag' = [etag EXCEPT ![f] = got[f]]
  /\ UNCHANGED <<server, file, mutexVars, workerVars, updateVars, callerVars, processVars>>

(* An error ends the update; the next New begins another one.              *)
VersionFails ==
  /\ update \in {"version", "lines"}
  /\ EndUpdate
  /\ UNCHANGED <<server, diskVars, stateMutex, workerVars, updateChecked, todo, callerVars, processVars>>

UpdateDone ==
  /\ update = "lines"
  /\ NoLineYet = {}
  /\ updateChecked' = TRUE
  /\ EndUpdate
  /\ UNCHANGED <<server, diskVars, stateMutex, workerVars, todo, callerVars, processVars>>

----------------------------------------------------------------------------
(* getAndUpdate                                                            *)

workerFrame == <<server, etag, mutexVars, updateVars, callerVars, processVars>>

NextJob(w) ==
  /\ WorkerTo(w, "receive")
  /\ job' = [job EXCEPT ![w] = Nothing]
  /\ body' = [body EXCEPT ![w] = Nothing]

WorkerReceive(w) ==
  /\ worker[w] = "receive"
  /\ \E f \in jobs :
       /\ jobs' = jobs \ {f}
       /\ job' = [job EXCEPT ![w] = f]
  /\ WorkerTo(w, "request")
  /\ UNCHANGED <<workerFrame, file, body, got>>

(* The channel is empty and closed.                                        *)
WorkerDone(w) ==
  /\ worker[w] = "receive"
  /\ jobs = {} /\ todo = {}
  /\ WorkerTo(w, "done")
  /\ UNCHANGED <<workerFrame, file, jobs, job, body, got>>

(* No answer, or a body that breaks off: errs <- err; continue             *)
RequestFails(w) ==
  /\ worker[w] = "request"
  /\ NextJob(w)
  /\ UNCHANGED <<workerFrame, file, jobs, got>>

NotModified(f) == etag[f] # Nothing /\ etag[f] = server[f]

(* 304                                                                     *)
RequestNotModified(w) ==
  /\ worker[w] = "request"
  /\ NotModified(job[w])
  /\ got' = [got EXCEPT ![job[w]] = etag[job[w]]]
  /\ NextJob(w)
  /\ UNCHANGED <<workerFrame, file, jobs>>

(* Any other status but 200: the worker returns.                           *)
RequestUnexpected(w) ==
  /\ worker[w] = "request"
  /\ WorkerTo(w, "left")
  /\ job' = [job EXCEPT ![w] = Nothing]
  /\ UNCHANGED <<workerFrame, file, jobs, body, got>>

RequestOK(w) ==
  /\ worker[w] = "request"
  /\ ~NotModified(job[w])
  /\ body' = [body EXCEPT ![w] = server[job[w]]]
  /\ WorkerTo(w, "create")
  /\ UNCHANGED <<workerFrame, file, jobs, job, got>>

(* os.Create truncates the file, if it can.                                *)
CreateFile(w) ==
  /\ worker[w] = "create"
  /\ file' = [file EXCEPT ![job[w]] = Nothing]
  /\ WorkerTo(w, "write")
  /\ UNCHANGED <<workerFrame, jobs, job, body, got>>

CreateFails(w) ==
  /\ worker[w] = "create"
  /\ NextJob(w)
  /\ UNCHANGED <<workerFrame, file, jobs, got>>

(* Slip: the etag goes to etags whether Minify succeeds or not.            *)
WriteFails_Etag(w) ==
  /\ worker[w] = "write"
  /\ got' = [got EXCEPT ![job[w]] = body[w]]
  /\ NextJob(w)
  /\ UNCHANGED <<workerFrame, file, jobs>>

(* m.Minify writes to the file.                                            *)
WriteFile(w) ==
  /\ worker[w] = "write"
  /\ file' = [file EXCEPT ![job[w]] = body[w]]
  /\ got' = [got EXCEPT ![job[w]] = body[w]]
  /\ NextJob(w)
  /\ UNCHANGED <<workerFrame, jobs>>

WriteFails(w) ==
  /\ worker[w] = "write"
  /\ NextJob(w)
  /\ UNCHANGED <<workerFrame, file, jobs, got>>

----------------------------------------------------------------------------
(* GetStageInfo, GetItemInfo                                               *)

callerFrame == <<server, diskVars, workerVars, updateVars, lives>>

Lookup(c, t) ==
  /\ caller[c] = "ready"
  /\ CallerTo(c, "lookup")
  /\ want' = [want EXCEPT ![c] = t]
  /\ UNCHANGED <<callerFrame, mutexVars, tables, process>>

LookupReturns(c) ==
  /\ CallerTo(c, "ready")
  /\ want' = [want EXCEPT ![c] = Nothing]

(* Under stateMutex: the table is there, ...                               *)
LookupFound(c) ==
  /\ caller[c] = "lookup"
  /\ stateMutex = "free"
  /\ tables[want[c]] # Nothing
  /\ LookupReturns(c)
  /\ UNCHANGED <<callerFrame, mutexVars, tables, process>>

(* ... or has to be loaded, for which stateMutex is kept.                  *)
LookupMissing(c) ==
  /\ caller[c] = "lookup"
  /\ stateMutex = "free"
  /\ tables[want[c]] = Nothing
  /\ stateMutex' = c
  /\ CallerTo(c, "load")
  /\ UNCHANGED <<callerFrame, fileMutex, want, tables, process>>

(* Slip: loadExcelJSON reads without the mutex.                            *)
LoadLock_None(c) ==
  /\ caller[c] = "load"
  /\ CallerTo(c, "read")
  /\ UNCHANGED <<callerFrame, mutexVars, want, tables, process>>

(* loadExcelJSON                                                           *)
LoadLock(c) ==
  /\ caller[c] = "load"
  /\ fileMutex = "free"
  /\ fileMutex' = c
  /\ CallerTo(c, "read")
  /\ UNCHANGED <<callerFrame, stateMutex, want, tables, process>>

LoadTable(c) ==
  /\ caller[c] = "read"
  /\ file[want[c]] # Nothing
  /\ tables' = [tables EXCEPT ![want[c]] = file[want[c]]]
  /\ stateMutex' = "free"
  /\ fileMutex' = "free"
  /\ LookupReturns(c)
  /\ UNCHANGED <<callerFrame, process>>

(* No file, or none that can be decoded: utils.Check panics, on a          *)
(* goroutine of a module that nothing recovers.                            *)
LoadPanics(c) ==
  /\ caller[c] = "read"
  /\ file[want[c]] = Nothing
  /\ ProcessEnds("panicked")

----------------------------------------------------------------------------
(* The world                                                               *)

ServerChanges(f) ==
  /\ f \in Changing
  /\ server[f] < MaxVersion
  /\ server' = [server EXCEPT ![f] = @ + 1]
  /\ UNCHANGED <<diskVars, mutexVars, workerVars, updateVars, callerVars, processVars>>

Kill == ProcessEnds("killed")

Restart ==
  /\ process # "up"
  /\ lives < MaxLives
  /\ process' = "up"
  /\ lives' = lives + 1
  /\ UNCHANGED <<server, diskVars, mutexVars, workerVars, updateVars, callerVars>>

----------------------------------------------------------------------------
(* What a caller does once it has called, up to its return.                *)
CallStep(c) ==
  \/ NewState(c) \/ NewFile(c)
  \/ LookupFound(c) \/ LookupMissing(c) \/ LoadLock(c) \/ LoadTable(c) \/ LoadPanics(c)

UpdateStep ==
  \/ UpdateSkip \/ UpdateStart \/ (\E f \in Files : SendJob(f)) \/ WorkersWaited
  \/ VersionCreate \/ VersionLine \/ VersionFails \/ UpdateDone

WorkerStep(w) ==
  \/ WorkerReceive(w) \/ WorkerDone(w)
  \/ RequestFails(w) \/ RequestNotModified(w) \/ RequestUnexpected(w) \/ RequestOK(w)
  \/ CreateFile(w) \/ CreateFails(w) \/ WriteFile(w) \/ WriteFails(w)

Running ==
  \/ \E c \in Callers :
       \/ New(c) \/ CallStep(c)
       \/ \E t \in Tables : Lookup(c, t)
  \/ UpdateStep
  \/ \E w \in Workers : WorkerStep(w)
  \/ Kill

Next ==
  \/ process = "up" /\ Running
  \/ Restart
  \/ \E f \in Files : ServerChanges(f)

Spec == Init /\ [][Next]_vars

(* Goroutines are scheduled, a request ends with an answer or an error,    *)
(* and a Go mutex passes nobody over for ever.  Nothing obliges a module to*)
(* look anything up, the server to change or the process to be restarted.  *)
Fairness ==
  LET Up(A) == process = "up" /\ A
  IN  /\ WF_vars(Up(UpdateStep))
      /\ \A w \in Workers : WF_vars(Up(WorkerStep(w)))
      /\ \A c \in Callers : SF_vars(Up(CallStep(c)))

FairSpec == Spec /\ Fairness

----------------------------------------------------------------------------
TypeOK ==
  /\ server \in [Files -> Versions]
  /\ file \in [Files -> Versions \cup {Nothing}]
  /\ etag \in [Files -> Versions \cup {Nothing}]
  /\ fileMutex \in Callers \cup {"free", "update"}
  /\ stateMutex \in Callers \cup {"free"}
  /\ tables \in [Tables -> Versions \cup {Nothing}]
  /\ updateChecked \in BOOLEAN
  /\ update \in {"none", "check", "send", "version", "lines"}
  /\ todo \subseteq Files
  /\ jobs \subseteq Files
  /\ Cardinality(jobs) <= JobsCap
  /\ worker \in [Workers -> {"receive", "request", "create", "write", "done", "left"}]
  /\ job \in [Workers -> Files \cup {Nothing}]
  /\ body \in [Workers -> Versions \cup {Nothing}]
  /\ got \in [Files -> Versions \cup {Nothing}]
  /\ caller \in [Callers -> {"idle", "newState", "newFile", "ready", "lookup", "load", "read"}]
  /\ want \in [Callers -> Tables \cup {Nothing}]
  /\ process \in {"up", "killed", "panicked"}
  /\ lives \in 1..MaxLives

(* Wherever the process died, in this life or an earlier one: as long as   *)
(* .version has the etag of what is on the server, so that the file will   *)
(* not be fetched again, the file is whole and is that version.            *)
EtagsSound == \A f \in Files : NotModified(f) => file[f] = server[f]

(* A lookup waits for the update that New handed fileMutex to, and can die *)
(* of a file only if the last attempt of this very process to get it has   *)
(* failed: it sees neither a file that is being written nor what an earlier*)
(* process left half written.                                              *)
LoadsWhatWasFetched ==
  \A c \in Callers : caller[c] = "read" =>
    /\ update = "none"
    /\ got[want[c]] # Nothing => file[want[c]] = got[want[c]]

(* Every worker has met an unexpected status while there was more to send  *)
(* than jobs can hold: nobody will ever receive.                           *)
Stalled ==
  /\ update = "send"
  /\ todo # {}
  /\ Cardinality(jobs) = JobsCap
  /\ \A w \in Workers : worker[w] = "left"

(* Whoever calls New, GetStageInfo or GetItemInfo gets an answer, whatever *)
(* fails on the network and the disk, unless the process dies or all       *)
(* workers have left too early.                                            *)
CallersReturn ==
  \A c \in Callers :
    caller[c] \in {"newState", "newFile", "lookup", "load", "read"} ~>
      caller[c] = "ready" \/ process # "up" \/ Stalled
=============================================================================
