----------------------------- MODULE DropLogger -----------------------------
(***************************************************************************)
(* The drop logger (mods/droplogger/dropLogger.go): a battle that starts   *)
(* leaves its stage behind, with which the drops of the battle that        *)
(* finishes are reported.                                                  *)
(*                                                                         *)
(* The handlers of both packets lock mutex on the goroutine of the HTTP    *)
(* exchange and start a goroutine that unlocks it.  The goroutine of a     *)
(* start gets the tables from the game data first, which may take as long  *)
(* as an update of the files (GameData), or end the process.               *)
(*                                                                         *)
(* A start packet stands for its stage and for the time at which it came.  *)
(***************************************************************************)
EXTENDS Logins, Naturals, Sequences

CONSTANTS
  Op,         \* Op[p]: "start", "finish" or "other"
  Practice,   \* the starts that use a practice ticket
  Failed,     \* the finishes of battles that were lost: ExpScale = 0
  None

ASSUME DropLoggerAssumption ==
  /\ Op \in [Packets -> {"start", "finish", "other"}]
  /\ None \notin Packets

VARIABLES
  dropMutex,     \* dropMutex[i]: {} or the packet that it is locked for
  stageStartT,   \* stageStartT[i]: None or the start it was written for
  currStage,     \* currStage[i]: None or the start whose stage it is
  isPractice,    \* isPractice[i]
  haveTables,    \* haveTables[i]: are stageTable and itemTable set?
  routine,       \* routine[p]: where the goroutine is that a handler started
  dropFile,      \* the finishes in the file, which all instances append to
  fileOpen,      \* fileOpen[i]: is the instance's file open?
  reports        \* what was printed to the console

dlVars == <<dropMutex, stageStartT, currStage, isPractice, haveTables, routine,
            dropFile, fileOpen, reports>>

DropLoggerInit ==
  /\ dropMutex = [i \in Sessions |-> {}]
  /\ stageStartT = [i \in Sessions |-> None]
  /\ currStage = [i \in Sessions |-> None]
  /\ isPractice = [i \in Sessions |-> FALSE]
  /\ haveTables = [i \in Sessions |-> FALSE]
  /\ routine = [p \in Packets |-> "none"]
  /\ dropFile = <<>>
  /\ fileOpen = [i \in Sessions |-> FALSE]
  /\ reports = <<>>

RoutineTo(p, place) == routine' = [routine EXCEPT ![p] = place]

(* initFunc opens the file ...                                             *)
OpenFile(i) ==
  /\ fileOpen' = [fileOpen EXCEPT ![i] = TRUE]
  /\ UNCHANGED <<dropMutex, stageStartT, currStage, isPractice, haveTables, routine, dropFile, reports>>

(* ... and its deferred Close closes it.                                   *)
InitReturns(i) ==
  /\ fileOpen' = [fileOpen EXCEPT ![i] = FALSE]
  /\ UNCHANGED <<dropMutex, stageStartT, currStage, isPractice, haveTables, routine, dropFile, reports>>

(* battleStartHandler writes the time before it locks.                     *)
StartTime(i, p) ==
  /\ stageStartT' = [stageStartT EXCEPT ![i] = p]
  /\ UNCHANGED <<dropMutex, currStage, isPractice, haveTables, routine, dropFile, fileOpen, reports>>

(* mutex.Lock(); go battleStartRoutine, go battleFinish                    *)
LockAndGo(i, p) ==
  /\ dropMutex[i] = {}
  /\ dropMutex' = [dropMutex EXCEPT ![i] = {p}]
  /\ RoutineTo(p, Op[p])
  /\ UNCHANGED <<stageStartT, currStage, isPractice, haveTables, dropFile, fileOpen, reports>>

----------------------------------------------------------------------------
(* battleStartRoutine                                                      *)

(* GetStageInfo and GetItemInfo return.                                    *)
GetTables(i, p) ==
  /\ routine[p] = "start"
  /\ ~haveTables[i]
  /\ haveTables' = [haveTables EXCEPT ![i] = TRUE]
  /\ UNCHANGED <<dropMutex, stageStartT, currStage, isPractice, routine, dropFile, fileOpen, reports>>

(* The deferred Unlock.                                                    *)
RoutineEnds(i, p) ==
  /\ dropMutex' = [dropMutex EXCEPT ![i] = {}]
  /\ RoutineTo(p, "done")

BattleStarts(i, p) ==
  /\ routine[p] = "start"
  /\ haveTables[i]
  /\ isPractice' = [isPractice EXCEPT ![i] = p \in Practice]
  /\ currStage' = [currStage EXCEPT ![i] = p]
  /\ RoutineEnds(i, p)
  /\ UNCHANGED <<stageStartT, haveTables, dropFile, fileOpen, reports>>

----------------------------------------------------------------------------
(* battleFinish                                                            *)

Ignored(i, p) == isPractice[i] \/ p \in Failed

BattleIgnored(i, p) ==
  /\ routine[p] = "finish"
  /\ Ignored(i, p)
  /\ RoutineEnds(i, p)
  /\ UNCHANGED <<stageStartT, currStage, isPractice, haveTables, dropFile, fileOpen, reports>>

(* Slip: a start that was not seen is no obstacle.                         *)
LogDrops_Unstarted(i, p) ==
  /\ routine[p] = "finish"
  /\ ~Ignored(i, p)
  /\ dropFile' = IF fileOpen[i] THEN Append(dropFile, p) ELSE dropFile
  /\ RoutineTo(p, "report")
  /\ UNCHANGED <<dropMutex, stageStartT, currStage, isPractice, haveTables, fileOpen, reports>>

(* logDrops: Println to a file that is not open fails silently.            *)
LogDrops(i, p) ==
  /\ routine[p] = "finish"
  /\ ~Ignored(i, p)
  /\ haveTables[i]
  /\ dropFile' = IF fileOpen[i] THEN Append(dropFile, p) ELSE dropFile
  /\ RoutineTo(p, "report")
  /\ UNCHANGED <<dropMutex, stageStartT, currStage, isPractice, haveTables, fileOpen, reports>>

(* Slip: Unlock is left to whoever is next.                                *)
ReportDrops_Locked(i, p) ==
  /\ routine[p] = "report"
  /\ reports' = Append(reports, [finish |-> p, stage |-> currStage[i], since |-> stageStartT[i]])
  /\ RoutineTo(p, "done")
  /\ UNCHANGED <<dropMutex, stageStartT, currStage, isPractice, haveTables, dropFile, fileOpen>>

ReportDrops(i, p) ==
  /\ routine[p] = "report"
  /\ reports' = Append(reports, [finish |-> p, stage |-> currStage[i], since |-> stageStartT[i]])
  /\ RoutineEnds(i, p)
  /\ UNCHANGED <<stageStartT, currStage, isPractice, haveTables, dropFile, fileOpen>>

(* The tables and the time are nil before the first start: a panic on a    *)
(* goroutine that nothing recovers.                                        *)
FinishPanics(i, p) ==
  /\ routine[p] = "finish"
  /\ ~Ignored(i, p)
  /\ ~haveTables[i]
  /\ UNCHANGED dlVars

DropStep(i, p) ==
  \/ BattleStarts(i, p) \/ BattleIgnored(i, p) \/ LogDrops(i, p) \/ ReportDrops(i, p)

----------------------------------------------------------------------------
DropLoggerTypeOK ==
  /\ dropMutex \in [Sessions -> {{}} \cup {{p} : p \in Packets}]
  /\ stageStartT \in [Sessions -> Packets \cup {None}]
  /\ currStage \in [Sessions -> Packets \cup {None}]
  /\ isPractice \in [Sessions -> BOOLEAN]
  /\ haveTables \in [Sessions -> BOOLEAN]
  /\ routine \in [Packets -> {"none", "start", "finish", "report", "done"}]
  /\ dropFile \in Seq(Packets)
  /\ fileOpen \in [Sessions -> BOOLEAN]
  /\ reports \in Seq([finish : Packets, stage : Packets, since : Packets])

(* "Package droplogger logs all map drops by appending them into a log     *)
(* file" (dropLogger.go:1): what was reported is in the file.              *)
DropsLogged ==
  \A k \in DOMAIN reports : \E m \in DOMAIN dropFile : dropFile[m] = reports[k].finish
=============================================================================
