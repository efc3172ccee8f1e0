--------------------------- MODULE GameDataProofs ---------------------------
(***************************************************************************)
(* A matching etag means a whole file, and a lookup reads only what the    *)
(* update has left, for any number of files, workers, callers, versions    *)
(* and lives.  The argument: fileMutex is the update's exactly as long as  *)
(* one runs, and there are workers only while it waits for them; a file    *)
(* that a worker has in hand is in no other hand and has no etag to write; *)
(* and what is fetched differs from what .version names, because the       *)
(* server only goes forward.                                               *)
(***************************************************************************)
EXTENDS GameData, FiniteSetTheorems, TLAPS

Busy(w) == worker[w] \in {"request", "create", "write"}
Fetching(w) == worker[w] \in {"create", "write"}

(* Both mutexes say where their holders are.                               *)
LocksInv ==
  /\ fileMutex = "update" <=> update # "none"
  /\ \A c \in Callers :
       /\ fileMutex = c <=> caller[c] = "read"
       /\ stateMutex = c <=> caller[c] \in {"load", "read"}
       /\ caller[c] \in {"lookup", "load", "read"} => want[c] \in Tables

(* Every file is in one place, and without an etag until that is behind it.*)
JobsInv ==
  /\ update # "send" => \A w \in Workers : worker[w] \in {"done", "left"}
  /\ \A w \in Workers : Busy(w) =>
       job[w] \in Files /\ job[w] \notin todo \cup jobs /\ got[job[w]] = Nothing
  /\ \A v, w \in Workers : Busy(v) /\ Busy(w) /\ job[v] = job[w] => v = w
  /\ todo \cap jobs = {}
  /\ \A f \in todo \cup jobs : got[f] = Nothing

(* Nobody is ahead of the server; what a worker fetches is not what        *)
(* .version names; and what it has fetched is in the file.                 *)
VersionsInv ==
  /\ \A f \in Files : etag[f] <= server[f] /\ got[f] <= server[f]
  /\ \A w \in Workers : Fetching(w) =>
       body[w] <= server[job[w]] /\ ~NotModified(job[w])
  /\ \A f \in Files : got[f] # Nothing => file[f] = got[f]

IInv == TypeOK /\ LocksInv /\ JobsInv /\ VersionsInv /\ EtagsSound

----------------------------------------------------------------------------
(* The initial state.                                                      *)
LEMMA InitIInv == Init => IInv
<1> SUFFICES ASSUME Init PROVE IInv  OBVIOUS
<1> USE ConstantsAssumption DEF Init
<1>1. TypeOK
  <2>1. Cardinality(jobs) <= JobsCap
    <3>1. Cardinality({}) = 0  BY FS_EmptySet
    <3> QED BY <3>1
  <2>2. lives \in 1..MaxLives /\ \A f \in Files : server[f] \in Versions
    BY DEF Versions
  <2> QED BY <2>1, <2>2 DEF TypeOK
<1>2. LocksInv  BY DEF LocksInv
<1>3. JobsInv  BY DEF JobsInv, Busy
<1>4. VersionsInv  BY DEF VersionsInv, Fetching, Nothing
<1>5. EtagsSound  BY DEF EtagsSound, NotModified
<1> QED BY <1>1, <1>2, <1>3, <1>4, <1>5 DEF IInv

(* The end of a process resets everything but the disk.                    *)
LEMMA EndIInv ==
  ASSUME IInv, NEW how \in {"killed", "panicked"}, ProcessEnds(how)
  PROVE  IInv'
<1> USE ConstantsAssumption DEF IInv, ProcessEnds, diskVars
<1>1. TypeOK'
  <2>1. Cardinality(jobs') <= JobsCap
    <3>1. Cardinality({}) = 0  BY FS_EmptySet
    <3> QED BY <3>1
  <2> QED BY <2>1 DEF TypeOK
<1>2. LocksInv'  BY DEF LocksInv
<1>3. JobsInv'  BY DEF JobsInv, Busy
<1>4. VersionsInv'  BY DEF VersionsInv, Fetching, Nothing, TypeOK, Versions
<1>5. EtagsSound'  BY DEF EtagsSound, NotModified
<1> QED BY <1>1, <1>2, <1>3, <1>4, <1>5

----------------------------------------------------------------------------
(* New, the lookups, and what leaves the files to others.                  *)
CallerLeaves == UNCHANGED <<server, diskVars, workerVars, updateChecked, todo, processVars>>

LEMMA CallerIInv ==
  ASSUME IInv, NEW c \in Callers,
         New(c) \/ (\E t \in Tables : Lookup(c, t)) \/ CallStep(c)
  PROVE  IInv'
<1>0. CASE LoadPanics(c)  BY <1>0, EndIInv DEF LoadPanics
<1>1. CASE New(c) \/ (\E t \in Tables : Lookup(c, t)) \/ NewState(c) \/ NewFile(c)
           \/ LookupFound(c) \/ LookupMissing(c) \/ LoadLock(c) \/ LoadTable(c)
  <2>1. CallerLeaves
    BY <1>1 DEF CallerLeaves, New, NewState, NewFile, Lookup, LookupFound, LookupMissing,
                LoadLock, LoadTable, callerFrame, updateVars, processVars, diskVars, workerVars
  <2>9. update' = update \/ (update' = "check" /\ update = "none")
    BY <1>1 DEF New, NewState, NewFile, Lookup, LookupFound, LookupMissing,
                LoadLock, LoadTable, callerFrame, updateVars, IInv, LocksInv
  <2>2. TypeOK'
    <3>1. /\ caller' \in [Callers -> {"idle", "newState", "newFile", "ready", "lookup", "load", "read"}]
          /\ want' \in [Callers -> Tables \cup {Nothing}]
      BY <1>1 DEF New, NewState, NewFile, Lookup, LookupFound, LookupMissing, LookupReturns,
                  LoadLock, LoadTable, CallerTo, IInv, TypeOK
    <3>2. /\ fileMutex' \in Callers \cup {"free", "update"}
          /\ stateMutex' \in Callers \cup {"free"}
      BY <1>1 DEF New, NewState, NewFile, Lookup, LookupFound, LookupMissing, LoadLock, LoadTable,
                  mutexVars, callerFrame, IInv, TypeOK
    <3>3. tables' \in [Tables -> Versions \cup {Nothing}]
      BY <1>1, ConstantsAssumption
      DEF New, NewState, NewFile, Lookup, LookupFound, LookupMissing, LoadLock, LoadTable, IInv, TypeOK, LocksInv
    <3> QED BY <2>1, <2>9, <3>1, <3>2, <3>3 DEF CallerLeaves, IInv, TypeOK, diskVars, workerVars, processVars
  <2>3. LocksInv'
    <3> USE ConstantsAssumption DEF IInv, TypeOK, LocksInv, CallerTo, callerFrame, mutexVars, updateVars
    <3>1. CASE New(c)  BY <3>1 DEF New
    <3>2. CASE \E t \in Tables : Lookup(c, t)  BY <3>2 DEF Lookup
    <3>3. CASE NewState(c)  BY <3>3 DEF NewState
    <3>4. CASE NewFile(c)  BY <3>4 DEF NewFile
    <3>5. CASE LookupFound(c)  BY <3>5 DEF LookupFound, LookupReturns
    <3>6. CASE LookupMissing(c)  BY <3>6 DEF LookupMissing
    <3>7. CASE LoadLock(c)  BY <3>7 DEF LoadLock
    <3>8. CASE LoadTable(c)  BY <3>8 DEF LoadTable, LookupReturns
    <3> QED BY <1>1, <3>1, <3>2, <3>3, <3>4, <3>5, <3>6, <3>7, <3>8
  <2>4. JobsInv' /\ VersionsInv' /\ EtagsSound'
    BY <2>1, <2>9 DEF CallerLeaves, IInv, JobsInv, VersionsInv, EtagsSound, NotModified, Busy, Fetching,
                diskVars, workerVars
  <2> QED BY <2>2, <2>3, <2>4 DEF IInv
<1> QED BY <1>0, <1>1 DEF CallStep

----------------------------------------------------------------------------
(* updateGameData                                                          *)
UpdateLeaves == UNCHANGED <<server, file, stateMutex, job, body, callerVars, processVars>>

LEMMA UpdateIInv ==
  ASSUME IInv, UpdateStep
  PROVE  IInv'
<1> USE ConstantsAssumption
<1>1. CASE UpdateSkip \/ VersionFails \/ UpdateDone
  <2>1. UpdateLeaves /\ UNCHANGED <<etag, worker, got, jobs, todo>> /\ update # "none" /\ update # "send"
    BY <1>1 DEF UpdateSkip, VersionFails, UpdateDone, UpdateLeaves, diskVars, workerVars
  <2>2. update' = "none" /\ fileMutex' = "free" /\ updateChecked' \in BOOLEAN
    BY <1>1 DEF UpdateSkip, VersionFails, UpdateDone, EndUpdate, IInv, TypeOK
  <2> QED BY <2>1, <2>2
    DEF UpdateLeaves, IInv, TypeOK, LocksInv, JobsInv, VersionsInv, EtagsSound, NotModified,
        Busy, Fetching, callerVars, processVars
<1>2. CASE UpdateStart
  <2>1. TypeOK'
    <3>1. Cardinality(jobs') <= JobsCap
      <4>1. Cardinality({}) = 0  BY FS_EmptySet
      <4> QED BY <1>2, <4>1 DEF UpdateStart
    <3> QED BY <1>2, <3>1 DEF UpdateStart, IInv, TypeOK, diskVars, mutexVars, callerVars, processVars
  <2>2. LocksInv'
    BY <1>2 DEF UpdateStart, IInv, TypeOK, LocksInv, mutexVars, callerVars
  <2>3. JobsInv'
    BY <1>2 DEF UpdateStart, JobsInv, Busy
  <2>4. VersionsInv' /\ EtagsSound'
    BY <1>2 DEF UpdateStart, IInv, TypeOK, VersionsInv, EtagsSound, NotModified, Fetching, Nothing,
                Versions, diskVars
  <2> QED BY <2>1, <2>2, <2>3, <2>4 DEF IInv
<1>3. ASSUME NEW f \in Files, SendJob(f) PROVE IInv'
  <2>1. UpdateLeaves /\ UNCHANGED <<etag, worker, got, update, updateChecked, fileMutex>>
    BY <1>3 DEF SendJob, UpdateLeaves, diskVars, mutexVars
  <2>2. TypeOK'
    <3>1. IsFiniteSet(jobs)  BY FS_Subset DEF IInv, TypeOK
    <3>2. Cardinality(jobs') <= JobsCap
      <4>1. Cardinality(jobs) \in Nat  BY <3>1, FS_CardinalityType
      <4>2. Cardinality(jobs \cup {f}) <= Cardinality(jobs) + 1
        <5>1. Cardinality(jobs \cup {f}) = IF f \in jobs THEN Cardinality(jobs) ELSE Cardinality(jobs) + 1
          BY <3>1, FS_AddElement
        <5> QED BY <4>1, <5>1
      <4>3. jobs' = jobs \cup {f} /\ Cardinality(jobs) < JobsCap  BY <1>3 DEF SendJob
      <4>4. Cardinality(jobs') <= Cardinality(jobs) + 1  BY <4>2, <4>3
      <4>5. Cardinality(jobs \cup {f}) \in Nat
        <5>1. IsFiniteSet(jobs \cup {f})  BY <3>1, FS_AddElement
        <5> QED BY <5>1, FS_CardinalityType
      <4> QED BY <4>1, <4>3, <4>4, <4>5
    <3>3. jobs' \subseteq Files /\ todo' \subseteq Files  BY <1>3 DEF SendJob, IInv, TypeOK
    <3> QED BY <2>1, <3>2, <3>3 DEF UpdateLeaves, IInv, TypeOK, callerVars, processVars
  <2>3. JobsInv'
    <3>1. todo' \cup jobs' = todo \cup jobs /\ todo' \cap jobs' = {}
      BY <1>3 DEF SendJob, IInv, JobsInv
    <3> QED BY <2>1, <3>1 DEF UpdateLeaves, IInv, JobsInv, Busy
  <2>4. LocksInv' /\ VersionsInv' /\ EtagsSound'
    BY <2>1 DEF UpdateLeaves, IInv, LocksInv, VersionsInv, EtagsSound, NotModified, Fetching, callerVars
  <2> QED BY <2>2, <2>3, <2>4 DEF IInv
<1>4. CASE WorkersWaited \/ VersionCreate \/ VersionLine
  <2>1. UpdateLeaves /\ UNCHANGED <<worker, got, jobs, todo, fileMutex, updateChecked>>
        /\ update # "none" /\ update' \in {"version", "lines"}
    BY <1>4 DEF WorkersWaited, VersionCreate, VersionLine, UpdateLeaves, diskVars, workerVars, mutexVars,
                updateVars
  <2>2. \A w \in Workers : worker[w] \in {"done", "left"}
    BY <1>4 DEF WorkersWaited, VersionCreate, VersionLine, IInv, JobsInv
  <2>3. etag' \in [Files -> Versions \cup {Nothing}]
    BY <1>4 DEF WorkersWaited, VersionCreate, VersionLine, IInv, TypeOK, NoLineYet, diskVars
  <2>4. \A f \in Files : etag'[f] \in {etag[f], Nothing, got[f]}
    BY <1>4 DEF WorkersWaited, VersionCreate, VersionLine, IInv, TypeOK, NoLineYet, diskVars
  <2>5. TypeOK' /\ LocksInv'
    BY <2>1, <2>3 DEF UpdateLeaves, IInv, TypeOK, LocksInv, callerVars, processVars
  <2>6. JobsInv'
    BY <2>1, <2>2 DEF UpdateLeaves, IInv, JobsInv, Busy
  <2>7. VersionsInv'
    BY <2>1, <2>2, <2>4 DEF UpdateLeaves, IInv, TypeOK, VersionsInv, Fetching, NotModified, Nothing, Versions
  <2>8. EtagsSound'
    BY <2>1, <2>4 DEF UpdateLeaves, IInv, VersionsInv, EtagsSound, NotModified
  <2> QED BY <2>5, <2>6, <2>7, <2>8 DEF IInv
<1> QED BY <1>1, <1>2, <1>3, <1>4 DEF UpdateStep
----------------------------------------------------------------------------
(* getAndUpdate.  There are workers only while the update waits for them.  *)
LEMMA WorkerIInv ==
  ASSUME IInv, NEW w \in Workers, WorkerStep(w)
  PROVE  IInv'
<1> USE ConstantsAssumption DEF WorkerTo, workerFrame
<1>1. update = "send" /\ worker[w] \notin {"done", "left"}
  BY DEF IInv, JobsInv, WorkerStep, WorkerReceive, WorkerDone, RequestFails, RequestNotModified,
         RequestUnexpected, RequestOK, CreateFile, CreateFails, WriteFile, WriteFails
<1>2. workerFrame' = workerFrame
  BY DEF WorkerStep, WorkerReceive, WorkerDone, RequestFails, RequestNotModified,
         RequestUnexpected, RequestOK, CreateFile, CreateFails, WriteFile, WriteFails
<1>3. UNCHANGED <<server, etag, fileMutex, stateMutex, updateChecked, update, todo,
                  caller, want, tables, process, lives>>
  BY <1>2 DEF mutexVars, updateVars, callerVars, processVars
<1>4. LocksInv'  BY <1>3 DEF IInv, LocksInv
<1>5. ASSUME TypeOK', JobsInv', VersionsInv', EtagsSound' PROVE IInv'
  BY <1>4, <1>5 DEF IInv
<1>6. CASE WorkerReceive(w)
  <2>1. PICK f \in jobs : jobs' = jobs \ {f} /\ job' = [job EXCEPT ![w] = f]
    BY <1>6 DEF WorkerReceive
  <2>2. worker' = [worker EXCEPT ![w] = "request"] /\ UNCHANGED <<file, body, got>>
    BY <1>6 DEF WorkerReceive
  <2>3. f \in Files /\ f \notin todo /\ got[f] = Nothing  BY DEF IInv, TypeOK, JobsInv
  <2>4. TypeOK'
    <3>1. Cardinality(jobs') <= JobsCap
      <4>1. IsFiniteSet(jobs)  BY FS_Subset DEF IInv, TypeOK
      <4>2. IsFiniteSet(jobs')  BY <2>1, <4>1, FS_Subset
      <4>3. Cardinality(jobs') <= Cardinality(jobs)  BY <2>1, <4>1, FS_Subset
      <4>4. Cardinality(jobs) \in Nat  BY <4>1, FS_CardinalityType
      <4>5. Cardinality(jobs') \in Nat  BY <4>2, FS_CardinalityType
      <4> QED BY <4>3, <4>4, <4>5 DEF IInv, TypeOK
    <3> QED BY <1>3, <2>1, <2>2, <2>3, <3>1 DEF IInv, TypeOK
  <2>5. JobsInv'
    <3>1. \A v \in Workers : v # w => job'[v] = job[v] /\ worker'[v] = worker[v]
      BY <2>1, <2>2 DEF IInv, TypeOK
    <3>2. job'[w] = f /\ worker'[w] = "request"  BY <2>1, <2>2 DEF IInv, TypeOK
    <3>3. \A v \in Workers : v # w /\ Busy(v) => job[v] # f  BY DEF IInv, JobsInv
    <3>4. \A v \in Workers : v # w => (Busy(v)' <=> Busy(v))  BY <3>1 DEF Busy
    <3>5. todo' \cap jobs' = {} /\ \A g \in todo' \cup jobs' : got'[g] = Nothing
      BY <1>3, <2>1, <2>2 DEF IInv, JobsInv
    <3>6. \A v \in Workers : Busy(v)' =>
            job'[v] \in Files /\ job'[v] \notin todo' \cup jobs' /\ got'[job'[v]] = Nothing
      BY <1>3, <2>1, <2>2, <2>3, <3>1, <3>2, <3>4 DEF IInv, JobsInv
    <3>7. \A u, v \in Workers : Busy(u)' /\ Busy(v)' /\ job'[u] = job'[v] => u = v
      BY <3>1, <3>2, <3>3, <3>4 DEF IInv, JobsInv
    <3> QED BY <1>1, <1>3, <3>5, <3>6, <3>7 DEF JobsInv
  <2>6. VersionsInv' /\ EtagsSound'
    BY <1>3, <2>1, <2>2 DEF IInv, TypeOK, VersionsInv, EtagsSound, NotModified, Fetching
  <2> QED BY <1>5, <2>4, <2>5, <2>6
<1>7. ASSUME UNCHANGED jobs, worker' \in [Workers -> {"receive", "request", "create", "write", "done", "left"}],
             job' \in [Workers -> Files \cup {Nothing}],
             \A v \in Workers : v # w => job'[v] = job[v] /\ worker'[v] = worker[v],
             Busy(w)' => Busy(w) /\ job'[w] = job[w],
             \A f \in Files : got'[f] = got[f] \/ (Busy(w) /\ f = job[w] /\ ~Busy(w)')
      PROVE  JobsInv'
  <2>1. \A v \in Workers : Busy(v)' => Busy(v) /\ job'[v] = job[v]
    BY <1>7 DEF Busy
  <2>2. todo' \subseteq Files /\ jobs' \subseteq Files  BY <1>3, <1>7 DEF IInv, TypeOK
  <2>3. Busy(w) => job[w] \notin todo \cup jobs  BY DEF IInv, JobsInv
  <2>4. \A f \in todo' \cup jobs' : got'[f] = Nothing
    BY <1>3, <1>7, <2>2, <2>3 DEF IInv, JobsInv
  <2>5. \A v \in Workers : Busy(v)' =>
          job'[v] \in Files /\ job'[v] \notin todo' \cup jobs' /\ got'[job'[v]] = Nothing
    <3> SUFFICES ASSUME NEW v \in Workers, Busy(v)'
                 PROVE  job'[v] \in Files /\ job'[v] \notin todo' \cup jobs' /\ got'[job'[v]] = Nothing
      OBVIOUS
    <3>1. Busy(v) /\ job'[v] = job[v]  BY <2>1
    <3>2. job[v] \in Files /\ job[v] \notin todo \cup jobs /\ got[job[v]] = Nothing
      BY <3>1 DEF IInv, JobsInv
    <3>3. ~(Busy(w) /\ job[v] = job[w] /\ ~Busy(w)')
      BY <3>1 DEF IInv, JobsInv
    <3>4. got'[job[v]] = got[job[v]]  BY <1>7, <3>2, <3>3
    <3> QED BY <1>3, <1>7, <3>1, <3>2, <3>4
  <2>6. \A u, v \in Workers : Busy(u)' /\ Busy(v)' /\ job'[u] = job'[v] => u = v
    BY <2>1 DEF IInv, JobsInv
  <2> QED BY <1>1, <1>3, <1>7, <2>4, <2>5, <2>6 DEF IInv, JobsInv
<1>8. ASSUME TypeOK', UNCHANGED got, ~Fetching(w)', UNCHANGED file,
             \A v \in Workers : v # w => job'[v] = job[v] /\ worker'[v] = worker[v] /\ body'[v] = body[v]
      PROVE  VersionsInv' /\ EtagsSound'
  BY <1>3, <1>8 DEF IInv, VersionsInv, EtagsSound, NotModified, Fetching
<1>9. CASE WorkerDone(w) \/ RequestFails(w) \/ CreateFails(w) \/ WriteFails(w) \/ RequestUnexpected(w)
  <2>1. UNCHANGED <<file, jobs, got>>
    BY <1>9 DEF WorkerDone, RequestFails, CreateFails, WriteFails, RequestUnexpected
  <2>2. worker' = [worker EXCEPT ![w] = worker'[w]] /\ worker'[w] \in {"receive", "done", "left"}
    BY <1>9 DEF WorkerDone, RequestFails, CreateFails, WriteFails, RequestUnexpected, NextJob, IInv, TypeOK
  <2>3. job' = job \/ job' = [job EXCEPT ![w] = Nothing]
    BY <1>9 DEF WorkerDone, RequestFails, CreateFails, WriteFails, RequestUnexpected, NextJob
  <2>4. body' = body \/ body' = [body EXCEPT ![w] = Nothing]
    BY <1>9 DEF WorkerDone, RequestFails, CreateFails, WriteFails, RequestUnexpected, NextJob
  <2>5. TypeOK'  BY <1>3, <2>1, <2>2, <2>3, <2>4 DEF IInv, TypeOK
  <2>6. \A v \in Workers : v # w => job'[v] = job[v] /\ worker'[v] = worker[v] /\ body'[v] = body[v]
    BY <2>2, <2>3, <2>4 DEF IInv, TypeOK
  <2>7. ~Busy(w)' /\ ~Fetching(w)'  BY <2>2 DEF Busy, Fetching
  <2>8. JobsInv'  BY <1>7, <2>1, <2>5, <2>6, <2>7 DEF TypeOK
  <2>9. VersionsInv' /\ EtagsSound'  BY <1>8, <2>1, <2>5, <2>6, <2>7
  <2> QED BY <1>5, <2>5, <2>8, <2>9
<1>10. CASE RequestNotModified(w)
  <2>1. /\ UNCHANGED <<file, jobs>>
        /\ got' = [got EXCEPT ![job[w]] = etag[job[w]]]
        /\ worker' = [worker EXCEPT ![w] = "receive"]
        /\ job' = [job EXCEPT ![w] = Nothing]
        /\ body' = [body EXCEPT ![w] = Nothing]
        /\ NotModified(job[w]) /\ Busy(w)
    BY <1>10 DEF RequestNotModified, NextJob, Busy
  <2>2. job[w] \in Files  BY <2>1 DEF IInv, JobsInv
  <2>3. TypeOK'  BY <1>3, <2>1, <2>2 DEF IInv, TypeOK
  <2>4. \A v \in Workers : v # w => job'[v] = job[v] /\ worker'[v] = worker[v] /\ body'[v] = body[v]
    BY <2>1 DEF IInv, TypeOK
  <2>5. worker'[w] = "receive"  BY <2>1 DEF IInv, TypeOK
  <2>6. ~Busy(w)' /\ ~Fetching(w)'  BY <2>5 DEF Busy, Fetching
  <2>7. \A f \in Files : got'[f] = IF f = job[w] THEN etag[f] ELSE got[f]  BY <2>1 DEF IInv, TypeOK
  <2>8. JobsInv'  BY <1>7, <2>1, <2>3, <2>4, <2>6, <2>7 DEF TypeOK
  <2>9. etag[job[w]] = server[job[w]] /\ file[job[w]] = server[job[w]]
    BY <2>1, <2>2 DEF IInv, EtagsSound, NotModified
  <2>10. VersionsInv' /\ EtagsSound'
    BY <1>3, <2>1, <2>4, <2>6, <2>7, <2>9 DEF IInv, VersionsInv, EtagsSound, NotModified, Fetching
  <2> QED BY <1>5, <2>3, <2>8, <2>10
<1>11. CASE RequestOK(w)
  <2>1. /\ UNCHANGED <<file, jobs, job, got>>
        /\ worker' = [worker EXCEPT ![w] = "create"]
        /\ body' = [body EXCEPT ![w] = server[job[w]]]
        /\ ~NotModified(job[w]) /\ Busy(w)
    BY <1>11 DEF RequestOK, Busy
  <2>2. job[w] \in Files  BY <2>1 DEF IInv, JobsInv
  <2>3. TypeOK'  BY <1>3, <2>1, <2>2 DEF IInv, TypeOK
  <2>4. \A v \in Workers : v # w => worker'[v] = worker[v] /\ body'[v] = body[v]
    BY <2>1 DEF IInv, TypeOK
  <2>5. JobsInv'  BY <1>7, <2>1, <2>3, <2>4 DEF TypeOK
  <2>6. body'[w] = server[job[w]]  BY <2>1 DEF IInv, TypeOK
  <2>7. server[job[w]] <= server[job[w]]
    <3>1. server[job[w]] \in Versions  BY <2>2 DEF IInv, TypeOK
    <3> QED BY <3>1 DEF Versions
  <2>8. VersionsInv' /\ EtagsSound'
    BY <1>3, <2>1, <2>4, <2>6, <2>7 DEF IInv, VersionsInv, EtagsSound, NotModified, Fetching
  <2> QED BY <1>5, <2>3, <2>5, <2>8
<1>12. CASE CreateFile(w)
  <2>1. /\ UNCHANGED <<jobs, job, body, got>>
        /\ worker' = [worker EXCEPT ![w] = "write"]
        /\ file' = [file EXCEPT ![job[w]] = Nothing]
        /\ Busy(w) /\ Fetching(w)
    BY <1>12 DEF CreateFile, Busy, Fetching
  <2>2. job[w] \in Files /\ got[job[w]] = Nothing  BY <2>1 DEF IInv, JobsInv
  <2>3. TypeOK'  BY <1>3, <2>1, <2>2 DEF IInv, TypeOK
  <2>4. \A v \in Workers : v # w => worker'[v] = worker[v]  BY <2>1 DEF IInv, TypeOK
  <2>5. JobsInv'  BY <1>7, <2>1, <2>3, <2>4 DEF TypeOK
  <2>6. \A f \in Files : f # job[w] => file'[f] = file[f]  BY <2>1 DEF IInv, TypeOK
  <2>7. ~NotModified(job[w])  BY <2>1 DEF IInv, VersionsInv
  <2>8. VersionsInv' /\ EtagsSound'
    BY <1>3, <2>1, <2>2, <2>4, <2>6, <2>7 DEF IInv, VersionsInv, EtagsSound, NotModified, Fetching
  <2> QED BY <1>5, <2>3, <2>5, <2>8
<1>13. CASE WriteFile(w)
  <2>1. /\ UNCHANGED jobs
        /\ file' = [file EXCEPT ![job[w]] = body[w]]
        /\ got' = [got EXCEPT ![job[w]] = body[w]]
        /\ worker' = [worker EXCEPT ![w] = "receive"]
        /\ job' = [job EXCEPT ![w] = Nothing]
        /\ body' = [body EXCEPT ![w] = Nothing]
        /\ Busy(w) /\ Fetching(w)
    BY <1>13 DEF WriteFile, NextJob, Busy, Fetching
  <2>2. job[w] \in Files  BY <2>1 DEF IInv, JobsInv
  <2>3. TypeOK'  BY <1>3, <2>1, <2>2 DEF IInv, TypeOK
  <2>4. \A v \in Workers : v # w => job'[v] = job[v] /\ worker'[v] = worker[v] /\ body'[v] = body[v]
    BY <2>1 DEF IInv, TypeOK
  <2>5. worker'[w] = "receive"  BY <2>1 DEF IInv, TypeOK
  <2>6. ~Busy(w)' /\ ~Fetching(w)'  BY <2>5 DEF Busy, Fetching
  <2>7. \A f \in Files :
          IF f = job[w] THEN got'[f] = body[w] /\ file'[f] = body[w] ELSE got'[f] = got[f] /\ file'[f] = file[f]
    BY <2>1 DEF IInv, TypeOK
  <2>8. JobsInv'  BY <1>7, <2>1, <2>3, <2>4, <2>6, <2>7 DEF TypeOK
  <2>9. ~NotModified(job[w]) /\ body[w] <= server[job[w]]  BY <2>1 DEF IInv, VersionsInv
  <2>10. VersionsInv' /\ EtagsSound'
    BY <1>3, <2>1, <2>4, <2>6, <2>7, <2>9 DEF IInv, VersionsInv, EtagsSound, NotModified, Fetching
  <2> QED BY <1>5, <2>3, <2>8, <2>10
<1> QED BY <1>6, <1>9, <1>10, <1>11, <1>12, <1>13 DEF WorkerStep

----------------------------------------------------------------------------
(* The server goes forward, so that what .version does not name it will    *)
(* not name later.                                                         *)
LEMMA ServerIInv ==
  ASSUME IInv, NEW f \in Files, ServerChanges(f)
  PROVE  IInv'
<1>1. UNCHANGED <<diskVars, mutexVars, workerVars, updateVars, callerVars, processVars>>
  BY DEF ServerChanges
<1>2. UNCHANGED <<file, etag, fileMutex, stateMutex, worker, job, body, got, jobs, updateChecked,
                  update, todo, caller, want, tables, process, lives>>
  BY <1>1 DEF diskVars, mutexVars, workerVars, updateVars, callerVars, processVars
<1>3. server' \in [Files -> Versions] /\ server'[f] = server[f] + 1
      /\ \A g \in Files : g # f => server'[g] = server[g]
  BY ConstantsAssumption DEF ServerChanges, IInv, TypeOK, Versions
<1>4. TypeOK' /\ LocksInv' /\ JobsInv'
  BY <1>2, <1>3 DEF IInv, TypeOK, LocksInv, JobsInv, Busy
<1>5. /\ \A g \in Files : server[g] \in Nat /\ etag[g] \in Nat /\ got[g] \in Nat
      /\ \A w \in Workers : body[w] \in Nat
  BY DEF IInv, TypeOK, Versions, Nothing
<1>6. \A g \in Files : NotModified(g)' => NotModified(g) /\ g # f
  BY <1>2, <1>3, <1>5 DEF IInv, VersionsInv, NotModified
<1>7. EtagsSound'  BY <1>2, <1>3, <1>6 DEF IInv, EtagsSound
<1>8. VersionsInv'
  <2>1. \A g \in Files : etag'[g] <= server'[g] /\ got'[g] <= server'[g]
    BY <1>2, <1>3, <1>5 DEF IInv, VersionsInv
  <2>2. \A w \in Workers : Fetching(w)' => job'[w] \in Files /\ Fetching(w)
    BY <1>2 DEF IInv, JobsInv, Busy, Fetching
  <2>3. \A w \in Workers : Fetching(w)' => body'[w] <= server'[job'[w]]
    BY <1>2, <1>3, <1>5, <2>2 DEF IInv, VersionsInv
  <2>4. \A w \in Workers : Fetching(w)' => ~NotModified(job[w])'
    BY <1>2, <1>6, <2>2 DEF IInv, VersionsInv
  <2> QED BY <1>2, <2>1, <2>3, <2>4 DEF IInv, VersionsInv
<1> QED BY <1>4, <1>7, <1>8 DEF IInv

(* Every step keeps the invariant.                                         *)
LEMMA StepIInv ==
  ASSUME IInv, [Next]_vars
  PROVE  IInv'
<1>1. ASSUME NEW c \in Callers, New(c) \/ (\E t \in Tables : Lookup(c, t)) \/ CallStep(c) PROVE IInv'
  BY <1>1, CallerIInv
<1>2. CASE UpdateStep  BY <1>2, UpdateIInv
<1>3. ASSUME NEW w \in Workers, WorkerStep(w) PROVE IInv'  BY <1>3, WorkerIInv
<1>4. CASE Kill  BY <1>4, EndIInv DEF Kill
<1>5. CASE Restart
  <2>1. UNCHANGED <<server, file, etag, fileMutex, stateMutex, worker, job, body, got, jobs,
                    updateChecked, update, todo, caller, want, tables>>
    BY <1>5 DEF Restart, diskVars, mutexVars, workerVars, updateVars, callerVars
  <2>2. process' = "up" /\ lives' \in 1..MaxLives
    BY <1>5, ConstantsAssumption DEF Restart, IInv, TypeOK
  <2> QED BY <2>1, <2>2
    DEF IInv, TypeOK, LocksInv, JobsInv, VersionsInv, EtagsSound, NotModified, Busy, Fetching
<1>6. ASSUME NEW f \in Files, ServerChanges(f) PROVE IInv'  BY <1>6, ServerIInv
<1>7. CASE UNCHANGED vars
  <2>1. UNCHANGED <<server, file, etag, fileMutex, stateMutex, worker, job, body, got, jobs,
                    updateChecked, update, todo, caller, want, tables, process, lives>>
    BY <1>7 DEF vars, diskVars, mutexVars, workerVars, updateVars, callerVars, processVars
  <2> QED BY <2>1
    DEF IInv, TypeOK, LocksInv, JobsInv, VersionsInv, EtagsSound, NotModified, Busy, Fetching
<1> QED BY <1>1, <1>2, <1>3, <1>4, <1>5, <1>6, <1>7 DEF Next, Running

(* The mutexes, the jobs and the versions are always as IInv says.         *)
THEOREM GameDataInvariant == Spec => []IInv
<1>1. IInv /\ [Next]_vars => IInv'  BY StepIInv
<1> QED BY InitIInv, <1>1, PTL DEF Spec

(* The types of the package, the bound of jobs and that of the versions.   *)
THEOREM GameDataTypes == Spec => []TypeOK
<1>1. IInv => TypeOK  BY DEF IInv
<1> QED BY GameDataInvariant, <1>1, PTL

(* loadVersionFile and getAndUpdate: if .version has the etag of what is   *)
(* on the server, the file is that version, wherever a process has died.   *)
THEOREM SoundEtags == Spec => []EtagsSound
<1>1. IInv => EtagsSound  BY DEF IInv
<1> QED BY GameDataInvariant, <1>1, PTL

(* loadExcelJSON reads while no update runs, and what the last one fetched.*)
THEOREM LoadsFetched == Spec => []LoadsWhatWasFetched
<1>1. IInv => LoadsWhatWasFetched
  <2> SUFFICES ASSUME IInv, NEW c \in Callers, caller[c] = "read"
               PROVE  update = "none" /\ (got[want[c]] # Nothing => file[want[c]] = got[want[c]])
    BY DEF LoadsWhatWasFetched
  <2>1. fileMutex = c /\ want[c] \in Files  BY ConstantsAssumption DEF IInv, LocksInv
  <2>2. update = "none"  BY <2>1, ConstantsAssumption DEF IInv, LocksInv
  <2> QED BY <2>1, <2>2 DEF IInv, VersionsInv
<1> QED BY GameDataInvariant, <1>1, PTL
=============================================================================
