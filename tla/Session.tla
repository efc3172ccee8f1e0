------------------------------ MODULE Session -------------------------------
(***************************************************************************)
(* The packets of one user pass the modules of the repository.  A dispatch *)
(* calls the packet logger, which hooks every packet, and then the drop    *)
(* logger, which hooks the responses to battle starts and finishes, on the *)
(* goroutine of the HTTP exchange (proxy/dispatch.go).  A login shuts the  *)
(* modules down and makes new instances (proxy/proxy.go), while exchanges  *)
(* that were given the old ones go on.                                     *)
(*                                                                         *)
(* The client plays one battle after the other: it sends a battle packet   *)
(* when the one before was answered, or when it has logged in again since. *)
(***************************************************************************)
EXTENDS PacketLogger, DropLogger, FiniteSets

CONSTANT Battles   \* the battle packets in the order in which they may come

(* Logins are numbered, and each packet of a battle has one place in       *)
(* Battles; the names of the ends of a process are not those of packets.   *)
ASSUME SessionAssumption ==
  /\ IsFiniteSet(Sessions) /\ Sessions = 1..Cardinality(Sessions)
  /\ Battles \in Seq(Packets)
  /\ \A p \in Packets : Op[p] # "other" <=> \E k \in DOMAIN Battles : Battles[k] = p
  /\ \A k, m \in DOMAIN Battles : Battles[k] = Battles[m] => k = m
  /\ Packets \cap {"up", "tables", "exited"} = {}

VARIABLES
  current,   \* the instances in the proxy's table, 0 before the first login
  login,     \* where addUser is
  pc,        \* pc[p]: where the exchange of p is
  session,   \* session[p]: the instances its dispatch has, 0 before it has one
  process    \* "up", or what has ended the process

sessionVars == <<current, login, pc, session>>
vars == <<plVars, dlVars, sessionVars, process>>

Init ==
  /\ PacketLoggerInit
  /\ DropLoggerInit
  /\ current = 0
  /\ login = "none"
  /\ pc = [p \in Packets |-> "idle"]
  /\ session = [p \in Packets |-> 0]
  /\ process = "up"

GoTo(p, place) == pc' = [pc EXCEPT ![p] = place]

----------------------------------------------------------------------------
(* addUser                                                                 *)

(* Bound: nobody logs in once SIGINT has come.                             *)
LoginComes ==
  /\ login = "none"
  /\ current + 1 \in Sessions
  /\ current # 0 => flush[current] = "none"
  /\ login' = IF current = 0 THEN "init" ELSE "shutdown"
  /\ UNCHANGED <<plVars, dlVars, current, pc, session, process>>

(* The packet logger is the one with a shutdown callback.                  *)
LoginShutdown ==
  /\ login = "shutdown"
  /\ IF flush[current] = "done"
       THEN login' = "init" /\ UNCHANGED plVars
       ELSE login' = login /\ FlushStep(current)
  /\ UNCHANGED <<dlVars, current, pc, session, process>>

(* The drop logger's initFunc, up to gamedata.New ...                      *)
LoginInit ==
  /\ login = "init"
  /\ OpenFile(current + 1)
  /\ login' = "wait"
  /\ UNCHANGED <<plVars, current, pc, session, process>>

(* ... and from its return on.  Then the new dispatch is stored.           *)
LoginStore ==
  /\ login = "wait"
  /\ InitReturns(current + 1)
  /\ current' = current + 1
  /\ login' = "none"
  /\ UNCHANGED <<plVars, pc, session, process>>

----------------------------------------------------------------------------
(* An exchange                                                             *)

Idle(p) == pc[p] \in {"idle", "done"}

(* p may follow the battle packets before it, some of which the client may *)
(* have left out.                                                          *)
InTurn(p) ==
  \A k, m \in DOMAIN Battles :
    /\ Battles[k] = p /\ m > k => pc[Battles[m]] = "idle"
    /\ Battles[k] = p /\ m < k => Idle(Battles[m]) \/ session[Battles[m]] # current

(* getUser, which a login keeps waiting.                                   *)
PacketComes(p) ==
  /\ pc[p] = "idle"
  /\ InTurn(p)
  /\ login = "none" /\ current # 0
  /\ session' = [session EXCEPT ![p] = current]
  /\ GoTo(p, "wildcards")
  /\ UNCHANGED <<plVars, dlVars, current, login, process>>

Wildcards(p) ==
  /\ pc[p] = "wildcards"
  /\ Handle(p)
  /\ GoTo(p, CASE Op[p] = "start" -> "time" [] Op[p] = "finish" -> "lock" [] OTHER -> "done")
  /\ UNCHANGED <<dlVars, current, login, session, process>>

StartHandler(p) ==
  /\ pc[p] = "time"
  /\ StartTime(session[p], p)
  /\ GoTo(p, "lock")
  /\ UNCHANGED <<plVars, current, login, session, process>>

(* Slip: the handler does not lock.                                        *)
HandlerReturns_Unlocked(p) ==
  /\ pc[p] = "lock"
  /\ RoutineTo(p, Op[p])
  /\ GoTo(p, "done")
  /\ UNCHANGED <<plVars, dropMutex, stageStartT, currStage, isPractice, haveTables,
                 dropFile, fileOpen, reports, current, login, session, process>>

HandlerReturns(p) ==
  /\ pc[p] = "lock"
  /\ LockAndGo(session[p], p)
  /\ GoTo(p, "done")
  /\ UNCHANGED <<plVars, current, login, session, process>>

----------------------------------------------------------------------------
(* The goroutines of the modules                                           *)

Prints(p) ==
  /\ PrintStep(session[p], p)
  /\ UNCHANGED <<dlVars, sessionVars, process>>

Drops(p) ==
  /\ DropStep(session[p], p)
  /\ UNCHANGED <<plVars, sessionVars, process>>

TablesCome(p) ==
  /\ GetTables(session[p], p)
  /\ UNCHANGED <<plVars, sessionVars, process>>

TablesPanic(p) ==
  /\ routine[p] = "start" /\ ~haveTables[session[p]]
  /\ process' = "tables"
  /\ UNCHANGED <<plVars, dlVars, sessionVars>>

DropsPanic(p) ==
  /\ FinishPanics(session[p], p)
  /\ process' = p
  /\ UNCHANGED <<plVars, sessionVars>>

(* SIGINT: Shutdown of the modules in the table, and exit.                 *)
Interrupt ==
  /\ login = "none" /\ current # 0
  /\ flush[current] # "done"
  /\ FlushStep(current)
  /\ process' = IF flush'[current] = "done" THEN "exited" ELSE "up"
  /\ UNCHANGED <<dlVars, sessionVars>>

----------------------------------------------------------------------------
LoginStep == LoginShutdown \/ LoginInit \/ LoginStore
ExchangeStep(p) == Wildcards(p) \/ StartHandler(p) \/ HandlerReturns(p)
RoutineStep(p) == Drops(p) \/ TablesCome(p) \/ TablesPanic(p) \/ DropsPanic(p)

Next ==
  /\ process = "up"
  /\ \/ LoginComes \/ LoginStep \/ Interrupt
     \/ \E p \in Packets : PacketComes(p) \/ ExchangeStep(p) \/ Prints(p) \/ RoutineStep(p)

Spec == Init /\ [][Next]_vars

(* A goroutine that can run is run at some time, and the game data answers *)
(* a lookup or ends the process (GameData's CallersReturn).  Fairness to    *)
(* all handlers, and to all their goroutines, is enough: there are finitely*)
(* many packets.  Nobody has to log in, to play, to print or to interrupt. *)
Fairness ==
  LET Up(A) == process = "up" /\ A
  IN  /\ WF_vars(Up(LoginStep))
      /\ WF_vars(Up(\E p \in Packets : ExchangeStep(p)))
      /\ WF_vars(Up(\E p \in Packets : RoutineStep(p)))

FairSpec == Spec /\ Fairness

----------------------------------------------------------------------------
TypeOK ==
  /\ PacketLoggerTypeOK
  /\ DropLoggerTypeOK
  /\ current \in Sessions \cup {0}
  /\ login \in {"none", "shutdown", "init", "wait"}
  /\ pc \in [Packets -> {"idle", "wildcards", "time", "lock", "done"}]
  /\ session \in [Packets -> Sessions \cup {0}]
  /\ process \in Packets \cup {"up", "tables", "exited"}

Came(p) == pc[p] # "idle"

(* The starts that came before p, or after it, in the same session.        *)
StartsBefore(p) ==
  {k \in DOMAIN Battles :
     /\ Came(Battles[k]) /\ session[Battles[k]] = session[p] /\ Op[Battles[k]] = "start"
     /\ \E m \in DOMAIN Battles : m > k /\ Battles[m] = p}
StartsAfter(p) ==
  {k \in DOMAIN Battles :
     /\ Came(Battles[k]) /\ session[Battles[k]] = session[p] /\ Op[Battles[k]] = "start"
     /\ \E m \in DOMAIN Battles : m < k /\ Battles[m] = p}

(* The battle that p finishes.                                             *)
Started(p) == Battles[CHOOSE k \in StartsBefore(p) : \A m \in StartsBefore(p) : m <= k]

(* Whatever the goroutines of the handlers do after these have returned,   *)
(* drops are reported for the stage of the battle that was won, once, and  *)
(* for every such battle that was not practice.  The time that is reported *)
(* is the battle's own or already that of a battle which started since.    *)
DropsOfTheirBattle ==
  /\ \A k \in DOMAIN reports :
       LET r == reports[k] IN
       /\ r.finish \notin Failed
       /\ r.stage = Started(r.finish) /\ r.stage \notin Practice
       /\ r.since \in {r.stage} \cup {Battles[m] : m \in StartsAfter(r.finish)}
       /\ \A m \in DOMAIN reports : reports[m].finish = r.finish => m = k
  /\ \A p \in Packets :
       Op[p] = "finish" /\ routine[p] = "done" /\ p \notin Failed
         /\ Started(p) \notin Practice =>
       \E k \in DOMAIN reports : reports[k].finish = p

(* A won battle ends the process only if the instance did not see it start,*)
(* because the user has logged in during the battle.                       *)
DiesOnlyMidBattle == process \in Packets => StartsBefore(process) = {}

(* The client gets its answers and logins end, although handlers wait for  *)
(* the goroutines of earlier packets, unless the process ends.             *)
ExchangesReturn ==
  /\ \A p \in Packets : Came(p) ~> pc[p] = "done" \/ process # "up"
  /\ login # "none" ~> login = "none" \/ process # "up"
=============================================================================
