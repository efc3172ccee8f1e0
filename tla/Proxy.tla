------------------------------- MODULE Proxy -------------------------------
(***************************************************************************)
(* The proxy (proxy/proxy.go, handler.go): HTTP exchanges, each on a       *)
(* goroutine of its own, and the one table they share, which gives every   *)
(* user the dispatch that holds the instances of his modules.              *)
(*                                                                         *)
(* A login replaces the user's dispatch: under proxy.mutex it calls the    *)
(* shutdown callbacks of the old modules, initialises new ones and stores  *)
(* the new dispatch.  An exchange keeps the dispatch it found at its       *)
(* request for its response.  The goroutine that waits for SIGINT ranges   *)
(* over the same table without the mutex while all this goes on.           *)
(*                                                                         *)
(* A login makes at most one dispatch, so the login stands for it.         *)
(***************************************************************************)
EXTENDS Naturals, FiniteSets

CONSTANTS
  Users,         \* "<region>_<UID>"
  Exchanges,     \* HTTP requests with their responses
  User,          \* User[x]: whose request x is
  Kind,          \* Kind[x]: "login", "game" or "other", see below
  ModuleCount,   \* the number of registered modules
  WithShutdown,  \* the modules (by number) that called OnShutdown
  MaxPanics,     \* bound: callbacks that panic in addUser
  None

(* "login" is a C/account/login without a uid header, "game" any game      *)
(* request with one, "other" what HandleReq returns without a dispatch:    *)
(* blocked hosts, other hosts, other requests without a uid.               *)
Kinds == {"login", "game", "other"}

Modules == 1..ModuleCount

ASSUME ConstantsAssumption ==
  /\ User \in [Exchanges -> Users]
  /\ Kind \in [Exchanges -> Kinds]
  /\ ModuleCount \in Nat
  /\ WithShutdown \subseteq Modules
  /\ MaxPanics \in Nat
  /\ None \notin Exchanges

VARIABLES
  mutex,       \* proxy.mutex: the exchange that holds it, or None
  dispatches,  \* dispatches[u]: the login that made u's dispatch, or None
  pc,          \* pc[x]: where the exchange x is
  at,          \* at[x]: the module whose callback addUser is at
  context,     \* context[x]: the dispatch in the request context, or None
  inits,       \* inits[x]: how many modules x's dispatch has initialised
  shutdowns,   \* shutdowns[x][m]: calls of the shutdown callback of its m-th
  signal,      \* where the goroutine that waits for SIGINT is
  visited,     \* the users Shutdown has been at
  visiting,    \* the dispatch whose modules it is shutting down
  visitAt,     \* ... and the module
  crashed,     \* is the process dead?
  entries,     \* the users in the table when its range began
  running,     \* history: their dispatches then
  panics       \* how many callbacks have panicked in addUser

tableVars == <<mutex, dispatches>>
exchangeVars == <<pc, at, context, inits>>
signalVars == <<signal, visited, visiting, visitAt, entries, running>>
vars == <<tableVars, exchangeVars, shutdowns, signalVars, crashed, panics>>

(* "lockAdd" to "store": in addUser; "lockGet": in getUser; "request":     *)
(* about to dispatch the request; "server": waiting for the response.      *)
Places == {"idle", "lockAdd", "shutdown", "init", "store", "lockGet",
           "request", "server", "done", "failed"}

Init ==
  /\ mutex = None
  /\ dispatches = [u \in Users |-> None]
  /\ pc = [x \in Exchanges |-> "idle"]
  /\ at = [x \in Exchanges |-> 1]
  /\ context = [x \in Exchanges |-> None]
  /\ inits = [x \in Exchanges |-> 0]
  /\ shutdowns = [x \in Exchanges |-> [m \in Modules |-> 0]]
  /\ signal = "none"
  /\ visited = {}
  /\ visiting = None
  /\ visitAt = 1
  /\ crashed = FALSE
  /\ entries = {}
  /\ running = {}
  /\ panics = 0

GoTo(x, place) == pc' = [pc EXCEPT ![x] = place]

(* A module's shutdown callback, if it has one.                            *)
CallShutdown(d, m) ==
  shutdowns' = IF m \in WithShutdown
               THEN [shutdowns EXCEPT ![d][m] = @ + 1] ELSE shutdowns

----------------------------------------------------------------------------
(* HandleReq up to the dispatch of the request                             *)

RequestComes(x) ==
  /\ pc[x] = "idle"
  /\ GoTo(x, CASE Kind[x] = "login" -> "lockAdd"
               [] Kind[x] = "game"  -> "lockGet"
               [] OTHER             -> "server")
  /\ UNCHANGED <<tableVars, at, context, inits, shutdowns, signalVars, crashed, panics>>

(* Slip: getUser reads the table without the mutex.                        *)
GetUser_Unlocked(x) ==
  /\ pc[x] = "lockGet"
  /\ context' = [context EXCEPT ![x] = dispatches[User[x]]]
  /\ GoTo(x, IF context'[x] = None THEN "server" ELSE "request")
  /\ UNCHANGED <<tableVars, at, inits, shutdowns, signalVars, crashed, panics>>

(* getUser holds the mutex for one lookup; a user who never logged in here *)
(* has no dispatch.                                                        *)
GetUser(x) ==
  /\ pc[x] = "lockGet"
  /\ mutex = None
  /\ context' = [context EXCEPT ![x] = dispatches[User[x]]]
  /\ GoTo(x, IF context'[x] = None THEN "server" ELSE "request")
  /\ UNCHANGED <<tableVars, at, inits, shutdowns, signalVars, crashed, panics>>

(* Slip: a user who is in the table already is taken for a new one.        *)
AddUserLock_Inverted(x) ==
  /\ pc[x] = "lockAdd"
  /\ mutex = None
  /\ mutex' = x
  /\ GoTo(x, "init")
  /\ UNCHANGED <<dispatches, at, context, inits, shutdowns, signalVars, crashed, panics>>

(* addUser: was there a dispatch?                                          *)
AddUserLock(x) ==
  /\ pc[x] = "lockAdd"
  /\ mutex = None
  /\ mutex' = x
  /\ GoTo(x, IF dispatches[User[x]] # None THEN "shutdown" ELSE "init")
  /\ UNCHANGED <<dispatches, at, context, inits, shutdowns, signalVars, crashed, panics>>

(* Slip: the callbacks run with the loop's variable as it is at the end.   *)
ShutdownModule_Captured(x) ==
  /\ pc[x] = "shutdown"
  /\ at[x] <= ModuleCount
  /\ CallShutdown(dispatches[User[x]], ModuleCount)
  /\ at' = [at EXCEPT ![x] = @ + 1]
  /\ UNCHANGED <<tableVars, pc, context, inits, signalVars, crashed, panics>>

(* ... the shutdown callback of its next module, ...                       *)
ShutdownModule(x) ==
  /\ pc[x] = "shutdown"
  /\ at[x] <= ModuleCount
  /\ CallShutdown(dispatches[User[x]], at[x])
  /\ at' = [at EXCEPT ![x] = @ + 1]
  /\ UNCHANGED <<tableVars, pc, context, inits, signalVars, crashed, panics>>

ShutdownDone(x) ==
  /\ pc[x] = "shutdown"
  /\ at[x] > ModuleCount
  /\ GoTo(x, "init")
  /\ UNCHANGED <<tableVars, at, context, inits, shutdowns, signalVars, crashed, panics>>

(* Slip: initMods runs past the last module.                               *)
InitModule_OffByOne(x) ==
  /\ pc[x] = "init"
  /\ inits[x] <= ModuleCount
  /\ inits' = [inits EXCEPT ![x] = @ + 1]
  /\ UNCHANGED <<tableVars, pc, at, context, shutdowns, signalVars, crashed, panics>>

(* ... initMods: the init function of the next module, ...                 *)
InitModule(x) ==
  /\ pc[x] = "init"
  /\ inits[x] < ModuleCount
  /\ inits' = [inits EXCEPT ![x] = @ + 1]
  /\ UNCHANGED <<tableVars, pc, at, context, shutdowns, signalVars, crashed, panics>>

InitDone(x) ==
  /\ pc[x] = "init"
  /\ inits[x] = ModuleCount
  /\ GoTo(x, "store")
  /\ UNCHANGED <<tableVars, at, context, inits, shutdowns, signalVars, crashed, panics>>

(* Slip: an entry that exists is not overwritten.                          *)
AddUserStore_Keep(x) ==
  /\ pc[x] = "store"
  /\ dispatches' = [dispatches EXCEPT ![User[x]] = IF @ = None THEN x ELSE @]
  /\ context' = [context EXCEPT ![x] = x]
  /\ mutex' = None
  /\ GoTo(x, "request")
  /\ UNCHANGED <<at, inits, shutdowns, signalVars, crashed, panics>>

(* Slip: no deferred Unlock.                                               *)
AddUserStore_Locked(x) ==
  /\ pc[x] = "store"
  /\ dispatches' = [dispatches EXCEPT ![User[x]] = x]
  /\ context' = [context EXCEPT ![x] = x]
  /\ GoTo(x, "request")
  /\ UNCHANGED <<mutex, at, inits, shutdowns, signalVars, crashed, panics>>

(* ... and the new dispatch is stored and returned.                        *)
AddUserStore(x) ==
  /\ pc[x] = "store"
  /\ dispatches' = [dispatches EXCEPT ![User[x]] = x]
  /\ context' = [context EXCEPT ![x] = x]
  /\ mutex' = None
  /\ GoTo(x, "request")
  /\ UNCHANGED <<at, inits, shutdowns, signalVars, crashed, panics>>

(* A callback panics in addUser, or the uid is not a number: the deferred  *)
(* Unlock runs, the exchange is lost, and unless somebody up the stack     *)
(* recovers so is the process.                                             *)
AddUserPanics(x) ==
  /\ pc[x] \in {"shutdown", "init"}
  /\ mutex' = None
  /\ GoTo(x, "failed")
  /\ panics < MaxPanics
  /\ panics' = panics + 1
  /\ crashed' \in BOOLEAN
  /\ UNCHANGED <<dispatches, at, context, inits, shutdowns, signalVars>>

----------------------------------------------------------------------------
(* The two packets of an exchange                                          *)

(* d.dispatch(op, body, ctx), "C/..."                                      *)
DispatchRequest(x) ==
  /\ pc[x] = "request"
  /\ GoTo(x, "server")
  /\ UNCHANGED <<tableVars, at, context, inits, shutdowns, signalVars, crashed, panics>>

(* HandleResp, "S/...": to context[x], or to nobody.                       *)
DispatchResponse(x) ==
  /\ pc[x] = "server"
  /\ GoTo(x, "done")
  /\ UNCHANGED <<tableVars, at, context, inits, shutdowns, signalVars, crashed, panics>>

----------------------------------------------------------------------------
(* SIGINT: Flush, Shutdown, os.Exit                                        *)

InTable == {u \in Users : dispatches[u] # None}

Signal ==
  /\ signal = "none"
  /\ signal' = "range"
  /\ entries' = InTable
  /\ running' = {dispatches[u] : u \in InTable}
  /\ UNCHANGED <<tableVars, exchangeVars, shutdowns, visited, visiting, visitAt, crashed, panics>>

(* range over a map: entries come in any order, and one that was stored    *)
(* since may come or not.                                                  *)
Visit(u) ==
  /\ signal = "range"
  /\ u \in InTable \ visited
  /\ signal' = "call"
  /\ visited' = visited \cup {u}
  /\ visiting' = dispatches[u]
  /\ visitAt' = 1
  /\ UNCHANGED <<tableVars, exchangeVars, shutdowns, entries, running, crashed, panics>>

VisitModule ==
  /\ signal = "call"
  /\ visitAt <= ModuleCount
  /\ CallShutdown(visiting, visitAt)
  /\ visitAt' = visitAt + 1
  /\ UNCHANGED <<tableVars, exchangeVars, signal, visited, visiting, entries, running, crashed, panics>>

(* Slip: the inner loop's end is taken for the end of Shutdown.            *)
VisitDone_Returns ==
  /\ signal = "call"
  /\ visitAt > ModuleCount
  /\ signal' = "exited"
  /\ UNCHANGED <<tableVars, exchangeVars, shutdowns, visited, visiting, visitAt, entries, running, crashed, panics>>

VisitDone ==
  /\ signal = "call"
  /\ visitAt > ModuleCount
  /\ signal' = "range"
  /\ UNCHANGED <<tableVars, exchangeVars, shutdowns, visited, visiting, visitAt, entries, running, crashed, panics>>

Exit ==
  /\ signal = "range"
  /\ entries \subseteq visited
  /\ signal' = "exited"
  /\ UNCHANGED <<tableVars, exchangeVars, shutdowns, visited, visiting, visitAt, entries, running, crashed, panics>>

(* No recover is on the stack of a callback that panics in Shutdown.       *)
VisitPanics ==
  /\ signal = "call"
  /\ visitAt \in WithShutdown
  /\ crashed' = TRUE
  /\ UNCHANGED <<tableVars, exchangeVars, shutdowns, signalVars, panics>>

(* "concurrent map iteration and map write"                                *)
MapFault(x) ==
  /\ pc[x] = "store"
  /\ signal = "range"
  /\ crashed' = TRUE
  /\ UNCHANGED <<tableVars, exchangeVars, shutdowns, signalVars, panics>>

----------------------------------------------------------------------------
AddUserStep(x) ==
  \/ ShutdownModule(x) \/ ShutdownDone(x) \/ InitModule(x) \/ InitDone(x) \/ AddUserStore(x)

SignalStep == (\E u \in Users : Visit(u)) \/ VisitModule \/ VisitDone \/ Exit

Alive == ~crashed /\ signal # "exited"

Next ==
  /\ Alive
  /\ \/ \E x \in Exchanges :
          \/ RequestComes(x) \/ GetUser(x) \/ AddUserLock(x) \/ AddUserStep(x)
          \/ AddUserPanics(x) \/ DispatchRequest(x) \/ DispatchResponse(x) \/ MapFault(x)
     \/ Signal \/ SignalStep \/ VisitPanics

Spec == Init /\ [][Next]_vars

(* Whoever is in addUser gets on, since module callbacks return or panic,   *)
(* and proxy.mutex is given to somebody when it is free; that is enough,   *)
(* there being finitely many exchanges.  Nothing obliges a client to ask,  *)
(* the game server to answer or the user to press ^C.                      *)
Fairness ==
  /\ WF_vars(Alive /\ \E x \in Exchanges : AddUserStep(x))
  /\ WF_vars(Alive /\ \E x \in Exchanges : GetUser(x) \/ AddUserLock(x))

FairSpec == Spec /\ Fairness

----------------------------------------------------------------------------
TypeOK ==
  /\ mutex \in Exchanges \cup {None}
  /\ dispatches \in [Users -> Exchanges \cup {None}]
  /\ pc \in [Exchanges -> Places]
  /\ at \in [Exchanges -> 1..(ModuleCount + 1)]
  /\ context \in [Exchanges -> Exchanges \cup {None}]
  /\ inits \in [Exchanges -> 0..ModuleCount]
  /\ shutdowns \in [Exchanges -> [Modules -> Nat]]
  /\ signal \in {"none", "range", "call", "exited"}
  /\ visited \subseteq Users
  /\ visiting \in Exchanges \cup {None}
  /\ visitAt \in 1..(ModuleCount + 1)
  /\ crashed \in BOOLEAN
  /\ entries \subseteq Users
  /\ running \subseteq Exchanges
  /\ panics \in 0..MaxPanics

Live(d) == inits[d] = ModuleCount /\ \A m \in WithShutdown : shutdowns[d][m] = 0
Down(d) == \A m \in WithShutdown : m <= inits[d] => shutdowns[d][m] > 0

(* Whenever nobody is in addUser, a user's dispatch has all of its modules *)
(* running and those of every earlier login of his have been shut down.    *)
(* Callbacks that panic in addUser and SIGINT are the exceptions.          *)
OneLiveDispatch ==
  mutex = None /\ panics = 0 /\ signal = "none" =>
    \A x \in Exchanges :
      IF dispatches[User[x]] = x THEN Live(x) ELSE Down(x)

(* The dispatch an exchange is given is running at that moment, also when  *)
(* the user is logging in again on another connection.                     *)
GetsLiveDispatch ==
  [][\A x \in Exchanges :
       pc[x] # "request" /\ pc'[x] = "request" /\ panics = 0 /\ signal = "none" =>
         Live(context'[x])]_vars

(* No module of a user is initialised, and so opens the files its earlier  *)
(* instance has open, before all shutdown callbacks of that were called.   *)
ShutdownComesFirst ==
  [][\A x, y \in Exchanges :
       x # y /\ User[x] = User[y] /\ inits'[x] # inits[x] /\ panics = 0 => Down(y)]_vars

(* A shutdown callback is called once; only SIGINT, whose goroutine does   *)
(* not take the mutex, can repeat the call of a login that is under way,   *)
(* and a login that comes again after a panic that of the one before.      *)
ShutdownOnce ==
  panics = 0 => \A x \in Exchanges, m \in Modules :
    shutdowns[x][m] <= IF signal = "none" THEN 1 ELSE 2

(* When the process exits after SIGINT, every module that was in the table *)
(* when the signal came has been shut down, by Shutdown or by a login that *)
(* replaced its dispatch in the meantime.                                  *)
ExitShutsDown == signal = "exited" => \A d \in running : Down(d)

(* A request gets past proxy.mutex and finds, or makes, its dispatch,      *)
(* whatever logins of whatever users are under way.                        *)
RequestsServed ==
  \A x \in Exchanges :
    pc[x] \in {"lockAdd", "lockGet"} ~>
      pc[x] \in {"request", "server", "done", "failed"} \/ ~Alive
============================================================================
