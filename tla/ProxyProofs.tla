---------------------------- MODULE ProxyProofs ----------------------------
(***************************************************************************)
(* A user has one running dispatch, for any number of users, exchanges and *)
(* modules.  The argument: whoever is in addUser holds the mutex; at each  *)
(* place of addUser as much of the old dispatch is down as at says; and a  *)
(* dispatch leaves the table only when all of it is.  Since calls of       *)
(* shutdown callbacks only add up, the SIGINT goroutine, which does not    *)
(* take the mutex, cannot undo any of this.                                *)
(***************************************************************************)
EXTENDS Proxy, TLAPS

InAddUser == {"shutdown", "init", "store"}
Before == {"idle", "lockAdd", "lockGet"}
Served == {"request", "server", "done"}

Untouched(d) == \A m \in WithShutdown : shutdowns[d][m] = 0

LockInv == \A x \in Exchanges : pc[x] \in InAddUser <=> mutex = x

TableInv ==
  \A u \in Users : dispatches[u] # None =>
    /\ User[dispatches[u]] = u
    /\ pc[dispatches[u]] \in Served
    /\ inits[dispatches[u]] = ModuleCount

PlaceInv ==
  \A x \in Exchanges :
    /\ pc[x] \in Before => inits[x] = 0 /\ at[x] = 1
    /\ pc[x] = "store" => inits[x] = ModuleCount

(* What is down, at each place of addUser ...                              *)
OldGoesDown(x) ==
  pc[x] = "shutdown" =>
    /\ dispatches[User[x]] # None
    /\ \A m \in WithShutdown : m < at[x] => shutdowns[dispatches[User[x]]][m] > 0

OldIsDown(x) ==
  pc[x] \in {"init", "store"} /\ dispatches[User[x]] # None => Down(dispatches[User[x]])

(* ... and outside of the table.                                           *)
GoneIsDown(x) ==
  inits[x] > 0 /\ dispatches[User[x]] # x /\ pc[x] \notin {"init", "store"} => Down(x)

DownInv == \A x \in Exchanges : OldGoesDown(x) /\ OldIsDown(x) /\ GoneIsDown(x)

(* What nobody has called a shutdown callback of.                          *)
UntouchedInv ==
  /\ \A x \in Exchanges : pc[x] \notin Served => Untouched(x)
  /\ \A u \in Users :
       dispatches[u] # None /\ (\A x \in Exchanges : pc[x] \in InAddUser => User[x] # u)
         => Untouched(dispatches[u])

IInv ==
  /\ TypeOK
  /\ LockInv
  /\ TableInv
  /\ PlaceInv
  /\ panics = 0 => DownInv
  /\ panics = 0 /\ signal = "none" => UntouchedInv

----------------------------------------------------------------------------
(* A call of a shutdown callback is counted, and nothing else.             *)
LEMMA CallCounts ==
  ASSUME TypeOK, NEW d, NEW m, CallShutdown(d, m)
  PROVE  /\ shutdowns' \in [Exchanges -> [Modules -> Nat]]
         /\ \A e \in Exchanges, k \in Modules :
              /\ shutdowns'[e][k] >= shutdowns[e][k]
              /\ e # d => shutdowns'[e][k] = shutdowns[e][k]
              /\ e = d /\ k = m /\ k \in WithShutdown => shutdowns'[e][k] > 0
<1> USE DEF TypeOK
<1>1. CASE m \notin WithShutdown  BY <1>1 DEF CallShutdown
<1>2. CASE m \in WithShutdown
  <2>1. m \in Modules  BY <1>2, ConstantsAssumption
  <2>2. shutdowns' = [shutdowns EXCEPT ![d][m] = @ + 1]  BY <1>2 DEF CallShutdown
  <2>3. CASE d \notin Exchanges
    <3>1. shutdowns' = shutdowns  BY <2>2, <2>3
    <3> QED BY <2>3, <3>1
  <2>4. CASE d \in Exchanges
    <3>1. shutdowns[d] \in [Modules -> Nat]  BY <2>4
    <3>2. shutdowns' = [shutdowns EXCEPT ![d] = [shutdowns[d] EXCEPT ![m] = shutdowns[d][m] + 1]]
      BY <2>2, <2>4
    <3>3. [shutdowns[d] EXCEPT ![m] = shutdowns[d][m] + 1] \in [Modules -> Nat]
      BY <2>1, <3>1
    <3>4. shutdowns'[d] = [shutdowns[d] EXCEPT ![m] = shutdowns[d][m] + 1]
      BY <2>4, <3>2
    <3>5. \A e \in Exchanges : e # d => shutdowns'[e] = shutdowns[e]
      BY <2>4, <3>2
    <3> QED BY <2>1, <2>4, <3>1, <3>2, <3>3, <3>4, <3>5
  <2> QED BY <2>3, <2>4
<1> QED BY <1>1, <1>2

(* Every step keeps the types.                                             *)
LEMMA TypeStep ==
  ASSUME TypeOK, [Next]_vars
  PROVE  TypeOK'
<1>a. (\E x \in Exchanges : ShutdownModule(x)) \/ VisitModule =>
        shutdowns' \in [Exchanges -> [Modules -> Nat]]
  BY CallCounts DEF ShutdownModule, VisitModule
<1> USE ConstantsAssumption DEF TypeOK, Modules, Places, Kinds
<1>1. ASSUME NEW x \in Exchanges, RequestComes(x) PROVE TypeOK'
  BY <1>1 DEF RequestComes, GoTo, tableVars, exchangeVars, signalVars
<1>2. ASSUME NEW x \in Exchanges, GetUser(x) PROVE TypeOK'
  BY <1>2 DEF GetUser, GoTo, tableVars, exchangeVars, signalVars
<1>3. ASSUME NEW x \in Exchanges, AddUserLock(x) PROVE TypeOK'
  BY <1>3 DEF AddUserLock, GoTo, tableVars, exchangeVars, signalVars
<1>4. ASSUME NEW x \in Exchanges, ShutdownModule(x) PROVE TypeOK'
  <2>1. at' \in [Exchanges -> 1..(ModuleCount + 1)]  BY <1>4 DEF ShutdownModule
  <2>2. UNCHANGED <<mutex, dispatches, pc, context, inits, signal, visited,
                    visiting, visitAt, entries, running, crashed, panics>>
    BY <1>4 DEF ShutdownModule, tableVars, signalVars
  <2>3. shutdowns' \in [Exchanges -> [1..ModuleCount -> Nat]]  BY <1>4, <1>a
  <2> QED BY <2>1, <2>2, <2>3
<1>5. ASSUME NEW x \in Exchanges, ShutdownDone(x) PROVE TypeOK'
  BY <1>5 DEF ShutdownDone, GoTo, tableVars, exchangeVars, signalVars
<1>6. ASSUME NEW x \in Exchanges, InitModule(x) PROVE TypeOK'
  BY <1>6 DEF InitModule, GoTo, tableVars, exchangeVars, signalVars
<1>7. ASSUME NEW x \in Exchanges, InitDone(x) PROVE TypeOK'
  BY <1>7 DEF InitDone, GoTo, tableVars, exchangeVars, signalVars
<1>8. ASSUME NEW x \in Exchanges, AddUserStore(x) PROVE TypeOK'
  BY <1>8 DEF AddUserStore, GoTo, tableVars, exchangeVars, signalVars
<1>9. ASSUME NEW x \in Exchanges, AddUserPanics(x) PROVE TypeOK'
  BY <1>9 DEF AddUserPanics, GoTo, tableVars, exchangeVars, signalVars
<1>10. ASSUME NEW x \in Exchanges, DispatchRequest(x) PROVE TypeOK'
  BY <1>10 DEF DispatchRequest, GoTo, tableVars, exchangeVars, signalVars
<1>11. ASSUME NEW x \in Exchanges, DispatchResponse(x) PROVE TypeOK'
  BY <1>11 DEF DispatchResponse, GoTo, tableVars, exchangeVars, signalVars
<1>12. ASSUME NEW x \in Exchanges, MapFault(x) PROVE TypeOK'
  BY <1>12 DEF MapFault, GoTo, tableVars, exchangeVars, signalVars
<1>13. ASSUME NEW u \in Users, Visit(u) PROVE TypeOK'
  BY <1>13 DEF Visit, tableVars, exchangeVars, signalVars
<1>14. CASE Signal  BY <1>14 DEF Signal, InTable, tableVars, exchangeVars, signalVars
<1>15. CASE VisitModule
  <2>1. visitAt' \in 1..(ModuleCount + 1)  BY <1>15 DEF VisitModule
  <2>2. UNCHANGED <<mutex, dispatches, pc, at, context, inits, signal, visited,
                    visiting, entries, running, crashed, panics>>
    BY <1>15 DEF VisitModule, tableVars, exchangeVars
  <2>3. shutdowns' \in [Exchanges -> [1..ModuleCount -> Nat]]  BY <1>15, <1>a
  <2> QED BY <2>1, <2>2, <2>3
<1>16. CASE VisitDone  BY <1>16 DEF VisitDone, tableVars, exchangeVars, signalVars
<1>17. CASE Exit  BY <1>17 DEF Exit, tableVars, exchangeVars, signalVars
<1>18. CASE VisitPanics  BY <1>18 DEF VisitPanics, tableVars, exchangeVars, signalVars
<1>19. CASE UNCHANGED vars  BY <1>19 DEF vars, tableVars, exchangeVars, signalVars
<1> QED
  BY <1>1, <1>2, <1>3, <1>4, <1>5, <1>6, <1>7, <1>8, <1>9, <1>10, <1>11, <1>12, <1>13, <1>14,
     <1>15, <1>16, <1>17, <1>18, <1>19 DEF Next, AddUserStep, SignalStep

(* The mutex is held by whoever is in addUser.                             *)
LEMMA LockStep ==
  ASSUME TypeOK, LockInv, [Next]_vars
  PROVE  LockInv'
<1> USE ConstantsAssumption DEF TypeOK, LockInv, InAddUser, Kinds
<1>1. ASSUME NEW x \in Exchanges, RequestComes(x) PROVE LockInv'
  BY <1>1 DEF RequestComes, GoTo, tableVars, exchangeVars, signalVars
<1>2. ASSUME NEW x \in Exchanges, GetUser(x) PROVE LockInv'
  BY <1>2 DEF GetUser, GoTo, tableVars, exchangeVars, signalVars
<1>3. ASSUME NEW x \in Exchanges, AddUserLock(x) PROVE LockInv'
  BY <1>3 DEF AddUserLock, GoTo, tableVars, exchangeVars, signalVars
<1>4. ASSUME NEW x \in Exchanges, ShutdownModule(x) PROVE LockInv'
  BY <1>4 DEF ShutdownModule, GoTo, tableVars, exchangeVars, signalVars
<1>5. ASSUME NEW x \in Exchanges, ShutdownDone(x) PROVE LockInv'
  BY <1>5 DEF ShutdownDone, GoTo, tableVars, exchangeVars, signalVars
<1>6. ASSUME NEW x \in Exchanges, InitModule(x) PROVE LockInv'
  BY <1>6 DEF InitModule, GoTo, tableVars, exchangeVars, signalVars
<1>7. ASSUME NEW x \in Exchanges, InitDone(x) PROVE LockInv'
  BY <1>7 DEF InitDone, GoTo, tableVars, exchangeVars, signalVars
<1>8. ASSUME NEW x \in Exchanges, AddUserStore(x) PROVE LockInv'
  BY <1>8 DEF AddUserStore, GoTo, tableVars, exchangeVars, signalVars
<1>9. ASSUME NEW x \in Exchanges, AddUserPanics(x) PROVE LockInv'
  BY <1>9 DEF AddUserPanics, GoTo, tableVars, exchangeVars, signalVars
<1>10. ASSUME NEW x \in Exchanges, DispatchRequest(x) PROVE LockInv'
  BY <1>10 DEF DispatchRequest, GoTo, tableVars, exchangeVars, signalVars
<1>11. ASSUME NEW x \in Exchanges, DispatchResponse(x) PROVE LockInv'
  BY <1>11 DEF DispatchResponse, GoTo, tableVars, exchangeVars, signalVars
<1>12. ASSUME NEW x \in Exchanges, MapFault(x) PROVE LockInv'
  BY <1>12 DEF MapFault, GoTo, tableVars, exchangeVars, signalVars
<1>13. ASSUME NEW u \in Users, Visit(u) PROVE LockInv'
  BY <1>13 DEF Visit, tableVars, exchangeVars, signalVars
<1>14. CASE Signal  BY <1>14 DEF Signal, tableVars, exchangeVars, signalVars
<1>15. CASE VisitModule  BY <1>15 DEF VisitModule, tableVars, exchangeVars, signalVars
<1>16. CASE VisitDone  BY <1>16 DEF VisitDone, tableVars, exchangeVars, signalVars
<1>17. CASE Exit  BY <1>17 DEF Exit, tableVars, exchangeVars, signalVars
<1>18. CASE VisitPanics  BY <1>18 DEF VisitPanics, tableVars, exchangeVars, signalVars
<1>19. CASE UNCHANGED vars  BY <1>19 DEF vars, tableVars, exchangeVars, signalVars
<1> QED
  BY <1>1, <1>2, <1>3, <1>4, <1>5, <1>6, <1>7, <1>8, <1>9, <1>10, <1>11, <1>12, <1>13, <1>14,
     <1>15, <1>16, <1>17, <1>18, <1>19 DEF Next, AddUserStep, SignalStep

(* A dispatch is in the table under its own user, with all of its modules  *)
(* initialised, and whoever stored it is past addUser.                     *)
LEMMA TableStep ==
  ASSUME TypeOK, LockInv, PlaceInv, TableInv, [Next]_vars
  PROVE  TableInv'
<1> USE ConstantsAssumption DEF TypeOK, TableInv, LockInv, PlaceInv, InAddUser, Served, Kinds
<1>1. ASSUME NEW x \in Exchanges, RequestComes(x) PROVE TableInv'
  BY <1>1 DEF RequestComes, GoTo, tableVars, exchangeVars, signalVars
<1>2. ASSUME NEW x \in Exchanges, GetUser(x) PROVE TableInv'
  BY <1>2 DEF GetUser, GoTo, tableVars, exchangeVars, signalVars
<1>3. ASSUME NEW x \in Exchanges, AddUserLock(x) PROVE TableInv'
  BY <1>3 DEF AddUserLock, GoTo, tableVars, exchangeVars, signalVars
<1>4. ASSUME NEW x \in Exchanges, ShutdownModule(x) PROVE TableInv'
  BY <1>4 DEF ShutdownModule, GoTo, tableVars, exchangeVars, signalVars
<1>5. ASSUME NEW x \in Exchanges, ShutdownDone(x) PROVE TableInv'
  BY <1>5 DEF ShutdownDone, GoTo, tableVars, exchangeVars, signalVars
<1>6. ASSUME NEW x \in Exchanges, InitModule(x) PROVE TableInv'
  BY <1>6 DEF InitModule, GoTo, tableVars, exchangeVars, signalVars
<1>7. ASSUME NEW x \in Exchanges, InitDone(x) PROVE TableInv'
  BY <1>7 DEF InitDone, GoTo, tableVars, exchangeVars, signalVars
<1>8. ASSUME NEW x \in Exchanges, AddUserStore(x) PROVE TableInv'
  BY <1>8 DEF AddUserStore, GoTo, tableVars, exchangeVars, signalVars
<1>9. ASSUME NEW x \in Exchanges, AddUserPanics(x) PROVE TableInv'
  BY <1>9 DEF AddUserPanics, GoTo, tableVars, exchangeVars, signalVars
<1>10. ASSUME NEW x \in Exchanges, DispatchRequest(x) PROVE TableInv'
  BY <1>10 DEF DispatchRequest, GoTo, tableVars, exchangeVars, signalVars
<1>11. ASSUME NEW x \in Exchanges, DispatchResponse(x) PROVE TableInv'
  BY <1>11 DEF DispatchResponse, GoTo, tableVars, exchangeVars, signalVars
<1>12. ASSUME NEW x \in Exchanges, MapFault(x) PROVE TableInv'
  BY <1>12 DEF MapFault, GoTo, tableVars, exchangeVars, signalVars
<1>13. ASSUME NEW u \in Users, Visit(u) PROVE TableInv'
  BY <1>13 DEF Visit, tableVars, exchangeVars, signalVars
<1>14. CASE Signal  BY <1>14 DEF Signal, tableVars, exchangeVars, signalVars
<1>15. CASE VisitModule  BY <1>15 DEF VisitModule, tableVars, exchangeVars, signalVars
<1>16. CASE VisitDone  BY <1>16 DEF VisitDone, tableVars, exchangeVars, signalVars
<1>17. CASE Exit  BY <1>17 DEF Exit, tableVars, exchangeVars, signalVars
<1>18. CASE VisitPanics  BY <1>18 DEF VisitPanics, tableVars, exchangeVars, signalVars
<1>19. CASE UNCHANGED vars  BY <1>19 DEF vars, tableVars, exchangeVars, signalVars
<1> QED
  BY <1>1, <1>2, <1>3, <1>4, <1>5, <1>6, <1>7, <1>8, <1>9, <1>10, <1>11, <1>12, <1>13, <1>14,
     <1>15, <1>16, <1>17, <1>18, <1>19 DEF Next, AddUserStep, SignalStep

(* Nothing has been done before addUser, all modules are initialised when  *)
(* the dispatch is about to be stored.                                     *)
LEMMA PlaceStep ==
  ASSUME TypeOK, PlaceInv, [Next]_vars
  PROVE  PlaceInv'
<1> USE ConstantsAssumption DEF TypeOK, PlaceInv, Before, Kinds
<1>1. ASSUME NEW x \in Exchanges, RequestComes(x) PROVE PlaceInv'
  BY <1>1 DEF RequestComes, GoTo, tableVars, exchangeVars, signalVars
<1>2. ASSUME NEW x \in Exchanges, GetUser(x) PROVE PlaceInv'
  BY <1>2 DEF GetUser, GoTo, tableVars, exchangeVars, signalVars
<1>3. ASSUME NEW x \in Exchanges, AddUserLock(x) PROVE PlaceInv'
  BY <1>3 DEF AddUserLock, GoTo, tableVars, exchangeVars, signalVars
<1>4. ASSUME NEW x \in Exchanges, ShutdownModule(x) PROVE PlaceInv'
  BY <1>4 DEF ShutdownModule, GoTo, tableVars, exchangeVars, signalVars
<1>5. ASSUME NEW x \in Exchanges, ShutdownDone(x) PROVE PlaceInv'
  BY <1>5 DEF ShutdownDone, GoTo, tableVars, exchangeVars, signalVars
<1>6. ASSUME NEW x \in Exchanges, InitModule(x) PROVE PlaceInv'
  BY <1>6 DEF InitModule, GoTo, tableVars, exchangeVars, signalVars
<1>7. ASSUME NEW x \in Exchanges, InitDone(x) PROVE PlaceInv'
  BY <1>7 DEF InitDone, GoTo, tableVars, exchangeVars, signalVars
<1>8. ASSUME NEW x \in Exchanges, AddUserStore(x) PROVE PlaceInv'
  BY <1>8 DEF AddUserStore, GoTo, tableVars, exchangeVars, signalVars
<1>9. ASSUME NEW x \in Exchanges, AddUserPanics(x) PROVE PlaceInv'
  BY <1>9 DEF AddUserPanics, GoTo, tableVars, exchangeVars, signalVars
<1>10. ASSUME NEW x \in Exchanges, DispatchRequest(x) PROVE PlaceInv'
  BY <1>10 DEF DispatchRequest, GoTo, tableVars, exchangeVars, signalVars
<1>11. ASSUME NEW x \in Exchanges, DispatchResponse(x) PROVE PlaceInv'
  BY <1>11 DEF DispatchResponse, GoTo, tableVars, exchangeVars, signalVars
<1>12. ASSUME NEW x \in Exchanges, MapFault(x) PROVE PlaceInv'
  BY <1>12 DEF MapFault, GoTo, tableVars, exchangeVars, signalVars
<1>13. ASSUME NEW u \in Users, Visit(u) PROVE PlaceInv'
  BY <1>13 DEF Visit, tableVars, exchangeVars, signalVars
<1>14. CASE Signal  BY <1>14 DEF Signal, tableVars, exchangeVars, signalVars
<1>15. CASE VisitModule  BY <1>15 DEF VisitModule, tableVars, exchangeVars, signalVars
<1>16. CASE VisitDone  BY <1>16 DEF VisitDone, tableVars, exchangeVars, signalVars
<1>17. CASE Exit  BY <1>17 DEF Exit, tableVars, exchangeVars, signalVars
<1>18. CASE VisitPanics  BY <1>18 DEF VisitPanics, tableVars, exchangeVars, signalVars
<1>19. CASE UNCHANGED vars  BY <1>19 DEF vars, tableVars, exchangeVars, signalVars
<1> QED
  BY <1>1, <1>2, <1>3, <1>4, <1>5, <1>6, <1>7, <1>8, <1>9, <1>10, <1>11, <1>12, <1>13, <1>14,
     <1>15, <1>16, <1>17, <1>18, <1>19 DEF Next, AddUserStep, SignalStep

(* Shutdown callbacks are only called more and more often.                 *)
LEMMA CountsGrow ==
  ASSUME TypeOK, TypeOK', [Next]_vars
  PROVE  \A d \in Exchanges, m \in Modules : shutdowns'[d][m] >= shutdowns[d][m]
<1>1. ASSUME shutdowns' = shutdowns
      PROVE  \A d \in Exchanges, m \in Modules : shutdowns'[d][m] >= shutdowns[d][m]
  BY <1>1 DEF TypeOK
<1>2. ASSUME NEW x \in Exchanges, ShutdownModule(x)
      PROVE  \A d \in Exchanges, m \in Modules : shutdowns'[d][m] >= shutdowns[d][m]
  BY <1>2, CallCounts DEF ShutdownModule
<1>3. CASE VisitModule  BY <1>3, CallCounts DEF VisitModule
<1>4. ASSUME NEW x \in Exchanges, AddUserStep(x), ~ShutdownModule(x)
      PROVE  shutdowns' = shutdowns
  BY <1>4 DEF AddUserStep, ShutdownDone, InitModule, InitDone, AddUserStore
<1>5. ASSUME NEW x \in Exchanges,
             RequestComes(x) \/ GetUser(x) \/ AddUserLock(x) \/ AddUserPanics(x)
               \/ DispatchRequest(x) \/ DispatchResponse(x) \/ MapFault(x)
      PROVE  shutdowns' = shutdowns
  BY <1>5 DEF RequestComes, GetUser, AddUserLock, AddUserPanics,
       DispatchRequest, DispatchResponse, MapFault
<1>6. ASSUME SignalStep \/ Signal \/ VisitPanics, ~VisitModule
      PROVE  shutdowns' = shutdowns
  BY <1>6 DEF SignalStep, Visit, VisitDone, Exit, Signal, VisitPanics
<1>7. CASE UNCHANGED vars  BY <1>1, <1>7 DEF vars
<1> QED  BY <1>1, <1>2, <1>3, <1>4, <1>5, <1>6, <1>7 DEF Next

(* What is down stays down, unless it gets another module.                 *)
LEMMA DownStays ==
  ASSUME TypeOK, TypeOK', [Next]_vars, NEW d \in Exchanges, Down(d), inits'[d] = inits[d]
  PROVE  Down(d)'
<1>1. ASSUME NEW m \in WithShutdown, m <= inits[d] PROVE shutdowns'[d][m] > 0
  <2>1. m \in Modules  BY ConstantsAssumption
  <2>2. shutdowns[d][m] > 0  BY <1>1 DEF Down
  <2>3. shutdowns'[d][m] >= shutdowns[d][m]  BY <2>1, CountsGrow
  <2>4. shutdowns[d][m] \in Nat /\ shutdowns'[d][m] \in Nat  BY <2>1 DEF TypeOK
  <2> QED BY <2>2, <2>3, <2>4
<1> QED BY <1>1 DEF Down

(* A step outside of addUser leaves DownInv alone.                         *)
LEMMA DownFrame ==
  ASSUME TypeOK, TypeOK', [Next]_vars, DownInv, UNCHANGED <<dispatches, inits, at>>,
         \A x \in Exchanges :
           pc'[x] = "shutdown" \/ {pc[x], pc'[x]} \cap {"init", "store"} # {} => pc'[x] = pc[x]
  PROVE  DownInv'
<1> SUFFICES ASSUME NEW x \in Exchanges
             PROVE  OldGoesDown(x)' /\ OldIsDown(x)' /\ GoneIsDown(x)'
  BY DEF DownInv
<1>0. OldGoesDown(x) /\ OldIsDown(x) /\ GoneIsDown(x)  BY DEF DownInv
<1>1. User[x] \in Users  BY ConstantsAssumption
<1>2. dispatches[User[x]] # None => dispatches[User[x]] \in Exchanges  BY <1>1 DEF TypeOK
<1>3. OldGoesDown(x)'
  <2> SUFFICES ASSUME pc'[x] = "shutdown"
               PROVE  /\ dispatches'[User[x]] # None
                      /\ \A m \in WithShutdown : m < at'[x] =>
                           shutdowns'[dispatches'[User[x]]][m] > 0
    BY DEF OldGoesDown
  <2>1. pc[x] = "shutdown"  OBVIOUS
  <2> DEFINE d == dispatches[User[x]]
  <2>2. d \in Exchanges  BY <1>0, <1>2, <2>1 DEF OldGoesDown
  <2>3. ASSUME NEW m \in WithShutdown, m < at[x] PROVE shutdowns'[d][m] > 0
    <3>1. m \in Modules  BY ConstantsAssumption
    <3>2. shutdowns[d][m] > 0  BY <1>0, <2>1, <2>3 DEF OldGoesDown
    <3>3. shutdowns'[d][m] >= shutdowns[d][m]  BY <2>2, <3>1, CountsGrow
    <3>4. shutdowns[d][m] \in Nat /\ shutdowns'[d][m] \in Nat  BY <2>2, <3>1 DEF TypeOK
    <3> QED BY <3>2, <3>3, <3>4
  <2> QED BY <1>0, <2>1, <2>3 DEF OldGoesDown
<1>4. OldIsDown(x)'
  <2> SUFFICES ASSUME pc'[x] \in {"init", "store"}, dispatches[User[x]] # None
               PROVE  Down(dispatches[User[x]])'
    BY DEF OldIsDown
  <2>1. Down(dispatches[User[x]])  BY <1>0 DEF OldIsDown
  <2> QED BY <1>2, <2>1, DownStays
<1>5. GoneIsDown(x)'
  <2> SUFFICES ASSUME inits[x] > 0, dispatches[User[x]] # x, pc'[x] \notin {"init", "store"}
               PROVE  Down(x)'
    BY DEF GoneIsDown
  <2>1. Down(x)  BY <1>0 DEF GoneIsDown
  <2> QED BY <2>1, DownStays
<1> QED BY <1>3, <1>4, <1>5

(* Each step of addUser brings the old dispatch further down or has it     *)
(* down already.                                                           *)
LEMMA DownStep ==
  ASSUME TypeOK, TypeOK', LockInv, TableInv, PlaceInv, DownInv, [Next]_vars, panics' = 0
  PROVE  DownInv'
<1>1. ASSUME NEW y \in Exchanges, AddUserLock(y) PROVE DownInv'
  <2>1. /\ UNCHANGED <<dispatches, inits, at, shutdowns>>
        /\ \A x \in Exchanges : x # y => pc'[x] = pc[x]
        /\ pc'[y] = IF dispatches[User[y]] # None THEN "shutdown" ELSE "init"
    BY <1>1 DEF AddUserLock, GoTo, TypeOK
  <2>2. inits[y] = 0 /\ at[y] = 1  BY <1>1 DEF AddUserLock, PlaceInv, Before
  <2>3. \A m \in WithShutdown : ~(m < 1)  BY ConstantsAssumption DEF Modules
  <2> QED BY <2>1, <2>2, <2>3 DEF DownInv, OldGoesDown, OldIsDown, GoneIsDown, Down
<1>2. ASSUME NEW y \in Exchanges, ShutdownModule(y) PROVE DownInv'
  <2> DEFINE d == dispatches[User[y]]
  <2>1. /\ pc[y] = "shutdown" /\ UNCHANGED <<dispatches, inits, pc>>
        /\ CallShutdown(d, at[y])
        /\ at' = [at EXCEPT ![y] = at[y] + 1]
    BY <1>2 DEF ShutdownModule, tableVars
  <2>2. d \in Exchanges
    BY <2>1, ConstantsAssumption DEF TypeOK, DownInv, OldGoesDown
  <2>3. \A m \in WithShutdown : m < at[y] + 1 => shutdowns'[d][m] > 0
    <3> SUFFICES ASSUME NEW m \in WithShutdown, m < at[y] + 1 PROVE shutdowns'[d][m] > 0
      OBVIOUS
    <3>1. m \in Modules /\ m \in Nat /\ at[y] \in Nat
      BY ConstantsAssumption DEF TypeOK, Modules
    <3>2. CASE m = at[y]  BY <2>1, <2>2, <3>1, <3>2, CallCounts
    <3>3. CASE m < at[y]
      <4>1. shutdowns[d][m] > 0  BY <2>1, <3>3 DEF DownInv, OldGoesDown
      <4>2. shutdowns'[d][m] >= shutdowns[d][m]  BY <2>2, <3>1, CountsGrow
      <4>3. shutdowns[d][m] \in Nat /\ shutdowns'[d][m] \in Nat  BY <2>2, <3>1 DEF TypeOK
      <4> QED BY <4>1, <4>2, <4>3
    <3> QED BY <3>1, <3>2, <3>3
  <2>4. ASSUME NEW x \in Exchanges PROVE OldGoesDown(x)'
    <3>1. CASE x = y
      <4>1. at'[y] = at[y] + 1  BY <2>1 DEF TypeOK
      <4> QED BY <2>1, <2>2, <2>3, <3>1, <4>1, ConstantsAssumption DEF OldGoesDown
    <3>2. CASE x # y
      <4>1. pc[x] # "shutdown"  BY <2>1, <3>2 DEF LockInv, InAddUser
      <4> QED BY <2>1, <4>1 DEF OldGoesDown
    <3> QED BY <3>1, <3>2
  <2>5. ASSUME NEW x \in Exchanges PROVE OldIsDown(x)' /\ GoneIsDown(x)'
    <3>1. dispatches[User[x]] # None => dispatches[User[x]] \in Exchanges
      BY ConstantsAssumption DEF TypeOK
    <3>2. OldIsDown(x) /\ GoneIsDown(x)  BY DEF DownInv
    <3>3. OldIsDown(x)'
      <4> SUFFICES ASSUME pc[x] \in {"init", "store"}, dispatches[User[x]] # None
                   PROVE  Down(dispatches[User[x]])'
        BY <2>1 DEF OldIsDown
      <4> QED BY <2>1, <3>1, <3>2, DownStays DEF OldIsDown
    <3>4. GoneIsDown(x)'
      <4> SUFFICES ASSUME Down(x) PROVE Down(x)'  BY <2>1, <3>2 DEF GoneIsDown
      <4> QED BY <2>1, DownStays
    <3> QED BY <3>3, <3>4
  <2> QED BY <2>4, <2>5 DEF DownInv
<1>3. ASSUME NEW y \in Exchanges, ShutdownDone(y) PROVE DownInv'
  <2>1. /\ pc[y] = "shutdown" /\ at[y] > ModuleCount
        /\ UNCHANGED <<dispatches, inits, at, shutdowns>>
        /\ pc' = [pc EXCEPT ![y] = "init"]
    BY <1>3 DEF ShutdownDone, GoTo, tableVars
  <2>2. \A m \in WithShutdown : m < at[y]
    BY <2>1, ConstantsAssumption DEF Modules, TypeOK
  <2>3. Down(dispatches[User[y]])  BY <2>1, <2>2 DEF DownInv, OldGoesDown, Down
  <2>4. pc'[y] = "init" /\ \A x \in Exchanges : x # y => pc'[x] = pc[x]
    BY <2>1 DEF TypeOK
  <2> QED BY <2>1, <2>3, <2>4 DEF DownInv, OldGoesDown, OldIsDown, GoneIsDown, Down
<1>4. ASSUME NEW y \in Exchanges, InitModule(y) PROVE DownInv'
  <2>1. /\ pc[y] = "init" /\ UNCHANGED <<dispatches, at, shutdowns, pc>>
        /\ \A x \in Exchanges : x # y => inits'[x] = inits[x]
    BY <1>4 DEF InitModule, tableVars, TypeOK
  <2>2. \A u \in Users : dispatches[u] # y
    BY <2>1, ConstantsAssumption DEF TableInv, Served, TypeOK
  <2>3. \A x \in Exchanges : User[x] \in Users /\ dispatches[User[x]] \in Exchanges \cup {None}
    BY ConstantsAssumption DEF TypeOK
  <2> QED BY <2>1, <2>2, <2>3 DEF DownInv, OldGoesDown, OldIsDown, GoneIsDown, Down
<1>5. ASSUME NEW y \in Exchanges, InitDone(y) PROVE DownInv'
  <2>1. /\ pc[y] = "init" /\ UNCHANGED <<dispatches, inits, at, shutdowns>>
        /\ pc'[y] = "store" /\ \A x \in Exchanges : x # y => pc'[x] = pc[x]
    BY <1>5 DEF InitDone, GoTo, tableVars, TypeOK
  <2> QED BY <2>1 DEF DownInv, OldGoesDown, OldIsDown, GoneIsDown, Down
<1>6. ASSUME NEW y \in Exchanges, AddUserStore(y) PROVE DownInv'
  <2>1. /\ pc[y] = "store" /\ UNCHANGED <<inits, at, shutdowns>>
        /\ pc'[y] = "request" /\ \A x \in Exchanges : x # y => pc'[x] = pc[x]
        /\ dispatches'[User[y]] = y
        /\ \A u \in Users : u # User[y] => dispatches'[u] = dispatches[u]
    BY <1>6, ConstantsAssumption DEF AddUserStore, GoTo, TypeOK
  <2>2. \A x \in Exchanges : x # y => pc[x] \notin {"shutdown", "init", "store"}
    BY <2>1 DEF LockInv, InAddUser
  <2>3. ASSUME NEW x \in Exchanges, x # y, dispatches[User[x]] = x, User[x] = User[y]
        PROVE  Down(x)
    <3>1. x # None  BY ConstantsAssumption
    <3> QED BY <2>1, <2>3, <3>1 DEF DownInv, OldIsDown
  <2>4. \A x \in Exchanges : User[x] \in Users  BY ConstantsAssumption
  <2> QED BY <2>1, <2>2, <2>3, <2>4 DEF DownInv, OldGoesDown, OldIsDown, GoneIsDown, Down
<1>7. ASSUME NEW y \in Exchanges, AddUserPanics(y) PROVE FALSE
  BY <1>7 DEF AddUserPanics, TypeOK
<1>8. ASSUME NEW y \in Exchanges,
             RequestComes(y) \/ GetUser(y) \/ DispatchRequest(y) \/ DispatchResponse(y) \/ MapFault(y)
      PROVE  DownInv'
  <2>1. UNCHANGED <<dispatches, inits, at>>
    BY <1>8 DEF RequestComes, GetUser, DispatchRequest, DispatchResponse, MapFault,
         tableVars, exchangeVars
  <2>2. \A x \in Exchanges :
          pc'[x] = "shutdown" \/ {pc[x], pc'[x]} \cap {"init", "store"} # {} => pc'[x] = pc[x]
    BY <1>8, ConstantsAssumption DEF RequestComes, GetUser, DispatchRequest, DispatchResponse,
         MapFault, exchangeVars, GoTo, TypeOK, Kinds
  <2> QED BY <2>1, <2>2, DownFrame
<1>9. ASSUME Signal \/ SignalStep \/ VisitPanics \/ UNCHANGED vars PROVE DownInv'
  <2>1. UNCHANGED <<dispatches, inits, at, pc>>
    BY <1>9 DEF Signal, SignalStep, Visit, VisitModule, VisitDone, Exit, VisitPanics,
         vars, tableVars, exchangeVars
  <2> QED BY <2>1, DownFrame
<1> QED BY <1>1, <1>2, <1>3, <1>4, <1>5, <1>6, <1>7, <1>8, <1>9 DEF Next, AddUserStep

(* A step that stores no dispatch and calls no callback leaves             *)
(* UntouchedInv alone, if nobody leaves addUser by it.                     *)
LEMMA UntouchedFrame ==
  ASSUME UntouchedInv, UNCHANGED <<dispatches, shutdowns>>,
         \A x \in Exchanges :
           /\ pc'[x] \notin Served => pc[x] \notin Served
           /\ pc[x] \in InAddUser => pc'[x] \in InAddUser
  PROVE  UntouchedInv'
BY DEF UntouchedInv, Untouched

(* Without SIGINT and panics only a login calls shutdown callbacks, and    *)
(* only of the dispatch of its user.                                       *)
LEMMA UntouchedStep ==
  ASSUME TypeOK, TypeOK', LockInv, TableInv, UntouchedInv, [Next]_vars,
         panics' = 0, signal' = "none"
  PROVE  UntouchedInv'
<1>1. ASSUME NEW y \in Exchanges, ShutdownModule(y) PROVE UntouchedInv'
  <2> DEFINE d == dispatches[User[y]]
  <2>1. /\ pc[y] = "shutdown" /\ UNCHANGED <<dispatches, pc>>
        /\ CallShutdown(d, at[y])
    BY <1>1 DEF ShutdownModule, tableVars
  <2>2. \A x \in Exchanges, m \in Modules : x # d => shutdowns'[x][m] = shutdowns[x][m]
    BY <2>1, CallCounts
  <2>3. \A x \in Exchanges : x # d /\ Untouched(x) => Untouched(x)'
    BY <2>2, ConstantsAssumption DEF Untouched
  <2>4. ASSUME NEW x \in Exchanges, pc[x] \notin Served PROVE Untouched(x)'
    <3>1. x # d  BY <2>4, ConstantsAssumption DEF TableInv
    <3> QED BY <2>3, <2>4, <3>1 DEF UntouchedInv
  <2>5. ASSUME NEW u \in Users, dispatches[u] # None,
               \A x \in Exchanges : pc[x] \in InAddUser => User[x] # u
        PROVE  Untouched(dispatches[u])'
    <3>1. User[y] # u /\ User[y] \in Users  BY <2>1, <2>5, ConstantsAssumption DEF InAddUser
    <3>2. dispatches[u] # d  BY <2>5, <3>1 DEF TableInv
    <3>3. dispatches[u] \in Exchanges  BY <2>5 DEF TypeOK
    <3>4. Untouched(dispatches[u])  BY <2>5 DEF UntouchedInv
    <3>5. \A m \in WithShutdown : shutdowns'[dispatches[u]][m] = 0
      BY <2>2, <3>2, <3>3, <3>4, ConstantsAssumption DEF Untouched
    <3> QED BY <2>1, <3>5 DEF Untouched
  <2> QED BY <2>1, <2>4, <2>5 DEF UntouchedInv
<1>2. ASSUME NEW y \in Exchanges, AddUserStore(y) PROVE UntouchedInv'
  <2>1. /\ pc[y] = "store" /\ shutdowns' = shutdowns
        /\ pc'[y] = "request" /\ \A x \in Exchanges : x # y => pc'[x] = pc[x]
        /\ dispatches'[User[y]] = y
        /\ \A u \in Users : u # User[y] => dispatches'[u] = dispatches[u]
    BY <1>2, ConstantsAssumption DEF AddUserStore, GoTo, TypeOK
  <2>2. Untouched(y)  BY <2>1 DEF UntouchedInv, Served
  <2> QED BY <2>1, <2>2 DEF UntouchedInv, Untouched, Served, InAddUser
<1>3. ASSUME NEW y \in Exchanges,
             RequestComes(y) \/ GetUser(y) \/ AddUserLock(y) \/ ShutdownDone(y) \/ InitModule(y)
               \/ InitDone(y) \/ DispatchRequest(y) \/ DispatchResponse(y) \/ MapFault(y)
      PROVE  UntouchedInv'
  <2>1. UNCHANGED <<dispatches, shutdowns>>
    BY <1>3 DEF RequestComes, GetUser, AddUserLock, ShutdownDone, InitModule, InitDone,
         DispatchRequest, DispatchResponse, MapFault, tableVars
  <2>2. \A x \in Exchanges :
          /\ pc'[x] \notin Served => pc[x] \notin Served
          /\ pc[x] \in InAddUser => pc'[x] \in InAddUser
    BY <1>3, ConstantsAssumption DEF RequestComes, GetUser, AddUserLock, ShutdownDone, InitModule,
         InitDone, DispatchRequest, DispatchResponse, MapFault, exchangeVars, GoTo, TypeOK, Kinds,
         Served, InAddUser
  <2> QED BY <2>1, <2>2, UntouchedFrame
<1>4. ASSUME NEW y \in Exchanges, AddUserPanics(y) PROVE FALSE
  BY <1>4 DEF AddUserPanics, TypeOK
<1>5. ASSUME Signal \/ SignalStep \/ VisitPanics PROVE FALSE
  BY <1>5 DEF Signal, SignalStep, Visit, VisitModule, VisitDone, Exit, VisitPanics, signalVars
<1>6. CASE UNCHANGED vars
  BY <1>6, UntouchedFrame DEF vars, tableVars, exchangeVars
<1> QED BY <1>1, <1>2, <1>3, <1>4, <1>5, <1>6 DEF Next, AddUserStep

----------------------------------------------------------------------------
(* Before the first request it holds.                                      *)
LEMMA InitIInv == Init => IInv
<1> SUFFICES ASSUME Init PROVE IInv
  OBVIOUS
<1> USE ConstantsAssumption DEF Init
<1>1. TypeOK
  <2>1. shutdowns \in [Exchanges -> [Modules -> Nat]]  OBVIOUS
  <2>2. 1 \in 1..(ModuleCount + 1) /\ 0 \in 0..ModuleCount /\ 0 \in 0..MaxPanics  OBVIOUS
  <2> QED BY <2>1, <2>2 DEF TypeOK, Places
<1>2. LockInv /\ TableInv /\ PlaceInv
  BY DEF LockInv, TableInv, PlaceInv, InAddUser, Before
<1>3. DownInv  BY DEF DownInv, OldGoesDown, OldIsDown, GoneIsDown
<1>4. UntouchedInv  BY DEF UntouchedInv, Untouched
<1> QED BY <1>1, <1>2, <1>3, <1>4 DEF IInv

(* A panic and SIGINT cannot be taken back.                                *)
LEMMA ForGood ==
  ASSUME TypeOK, [Next]_vars
  PROVE  /\ panics' = 0 => panics = 0
         /\ signal' = "none" => signal = "none"
BY DEF Next, RequestComes, GetUser, AddUserLock, AddUserStep, ShutdownModule, ShutdownDone,
   InitModule, InitDone, AddUserStore, AddUserPanics, DispatchRequest, DispatchResponse, MapFault,
   Signal, SignalStep, Visit, VisitModule, VisitDone, Exit, VisitPanics, vars, signalVars, TypeOK

(* Every step keeps the inductive invariant.                               *)
LEMMA NextIInv == IInv /\ [Next]_vars => IInv'
<1> SUFFICES ASSUME IInv, [Next]_vars PROVE IInv'
  OBVIOUS
<1>1. TypeOK'  BY TypeStep DEF IInv
<1>2. LockInv' /\ TableInv' /\ PlaceInv'  BY LockStep, TableStep, PlaceStep DEF IInv
<1>3. panics' = 0 => DownInv'  BY <1>1, ForGood, DownStep DEF IInv
<1>4. panics' = 0 /\ signal' = "none" => UntouchedInv'  BY <1>1, ForGood, UntouchedStep DEF IInv
<1> QED BY <1>1, <1>2, <1>3, <1>4 DEF IInv

(* The inductive invariant holds, whatever the users, the exchanges and    *)
(* the modules.                                                            *)
THEOREM ProxyInvariant == Spec => []IInv
BY InitIInv, NextIInv, PTL DEF Spec

(* The proxy's state has its types.                                        *)
THEOREM ProxyTypes == Spec => []TypeOK
<1>1. IInv => TypeOK  BY DEF IInv
<1> QED BY <1>1, ProxyInvariant, PTL

(* While nobody is in addUser, the user's dispatch is running and those of *)
(* his earlier logins are down.                                            *)
LEMMA OneLiveState == IInv => OneLiveDispatch
<1> SUFFICES ASSUME IInv, mutex = None, panics = 0, signal = "none", NEW x \in Exchanges
             PROVE  IF dispatches[User[x]] = x THEN Live(x) ELSE Down(x)
  BY DEF OneLiveDispatch
<1>1. User[x] \in Users /\ x # None  BY ConstantsAssumption
<1>2. \A y \in Exchanges : pc[y] \notin InAddUser
  BY ConstantsAssumption DEF IInv, LockInv
<1>3. CASE dispatches[User[x]] = x
  <2>1. inits[x] = ModuleCount  BY <1>1, <1>3 DEF IInv, TableInv
  <2>2. Untouched(x)  BY <1>1, <1>2, <1>3 DEF IInv, UntouchedInv
  <2> QED BY <1>3, <2>1, <2>2 DEF Live, Untouched
<1>4. CASE dispatches[User[x]] # x
  <2>1. CASE inits[x] > 0
    BY <1>2, <1>4, <2>1 DEF IInv, DownInv, GoneIsDown, InAddUser
  <2>2. CASE ~(inits[x] > 0)
    <3>1. inits[x] = 0  BY <2>2, ConstantsAssumption DEF IInv, TypeOK
    <3>2. \A m \in WithShutdown : ~(m <= 0)  BY ConstantsAssumption DEF Modules
    <3> QED BY <1>4, <3>1, <3>2 DEF Down
  <2> QED BY <1>4, <2>1, <2>2
<1> QED BY <1>3, <1>4

(* One running dispatch per user: addUser (proxy.go) replaces a dispatch   *)
(* by one that is complete, after the last of its callbacks.               *)
THEOREM OneLive == Spec => []OneLiveDispatch
BY OneLiveState, ProxyInvariant, PTL

(* getUser and addUser return a dispatch that is running, whatever other   *)
(* logins do meanwhile.                                                    *)
THEOREM GetsLive == Spec => GetsLiveDispatch
<1>1. ASSUME IInv, [Next]_vars, NEW x \in Exchanges,
             pc[x] # "request", pc'[x] = "request", panics = 0, signal = "none"
      PROVE  Live(context'[x])
  <2>1. GetUser(x) \/ AddUserStore(x)
    BY <1>1, ConstantsAssumption DEF IInv, TypeOK, Kinds, Next, RequestComes, GetUser, AddUserLock,
       AddUserStep, ShutdownModule, ShutdownDone, InitModule, InitDone, AddUserStore, AddUserPanics,
       DispatchRequest, DispatchResponse, MapFault, Signal, SignalStep, Visit, VisitModule,
       VisitDone, Exit, VisitPanics, vars, exchangeVars, GoTo
  <2>2. CASE GetUser(x)
    <3> DEFINE d == dispatches[User[x]]
    <3>1. mutex = None /\ context'[x] = d /\ d # None
      BY <1>1, <2>2 DEF GetUser, GoTo, IInv, TypeOK
    <3>2. d \in Exchanges /\ User[d] = User[x]
      BY <1>1, <3>1, ConstantsAssumption DEF IInv, TypeOK, TableInv
    <3>3. Live(d)  BY <1>1, <3>1, <3>2, OneLiveState DEF OneLiveDispatch
    <3> QED BY <3>1, <3>3
  <2>3. CASE AddUserStore(x)
    <3>1. context'[x] = x /\ pc[x] = "store"  BY <1>1, <2>3 DEF AddUserStore, IInv, TypeOK
    <3>2. inits[x] = ModuleCount  BY <1>1, <3>1 DEF IInv, PlaceInv
    <3>3. Untouched(x)  BY <1>1, <3>1 DEF IInv, UntouchedInv, Served
    <3> QED BY <3>1, <3>2, <3>3 DEF Live, Untouched
  <2> QED BY <2>1, <2>2, <2>3
<1>2. IInv /\ [Next]_vars =>
        [\A x \in Exchanges :
           pc[x] # "request" /\ pc'[x] = "request" /\ panics = 0 /\ signal = "none" =>
             Live(context'[x])]_vars
  BY <1>1
<1> QED BY <1>2, ProxyInvariant, PTL DEF Spec, GetsLiveDispatch

(* initMods of a login starts only after the last shutdown callback of the *)
(* modules of every earlier login of the same user.                        *)
THEOREM ShutdownFirst == Spec => ShutdownComesFirst
<1>1. ASSUME IInv, [Next]_vars, NEW x \in Exchanges, NEW y \in Exchanges,
             x # y, User[x] = User[y], inits'[x] # inits[x], panics = 0
      PROVE  Down(y)
  <2>1. InitModule(x)
    BY <1>1 DEF IInv, TypeOK, Next, RequestComes, GetUser, AddUserLock,
       AddUserStep, ShutdownModule, ShutdownDone, InitModule, InitDone, AddUserStore, AddUserPanics,
       DispatchRequest, DispatchResponse, MapFault, Signal, SignalStep, Visit, VisitModule,
       VisitDone, Exit, VisitPanics, vars, exchangeVars
  <2>2. pc[x] = "init" /\ mutex = x
    BY <1>1, <2>1 DEF InitModule, IInv, LockInv, InAddUser
  <2>3. pc[y] \notin InAddUser  BY <1>1, <2>2 DEF IInv, LockInv
  <2>4. CASE dispatches[User[y]] = y
    <3>1. y # None  BY ConstantsAssumption
    <3> QED BY <1>1, <2>2, <2>4, <3>1 DEF IInv, DownInv, OldIsDown
  <2>5. CASE dispatches[User[y]] # y /\ inits[y] > 0
    BY <1>1, <2>3, <2>5 DEF IInv, DownInv, GoneIsDown, InAddUser
  <2>6. CASE ~(inits[y] > 0)
    <3>1. inits[y] = 0  BY <1>1, <2>6, ConstantsAssumption DEF IInv, TypeOK
    <3>2. \A m \in WithShutdown : ~(m <= 0)  BY ConstantsAssumption DEF Modules
    <3> QED BY <3>1, <3>2 DEF Down
  <2> QED BY <2>4, <2>5, <2>6
<1>2. IInv /\ [Next]_vars =>
        [\A x, y \in Exchanges :
           x # y /\ User[x] = User[y] /\ inits'[x] # inits[x] /\ panics = 0 => Down(y)]_vars
  BY <1>1
<1> QED BY <1>2, ProxyInvariant, PTL DEF Spec, ShutdownComesFirst
----------------------------------------------------------------------------
(***************************************************************************)
(* Shutdown, which takes no mutex, against the logins: exit leaves nothing *)
(* running that was in the table when SIGINT came, and a shutdown callback *)
(* is called once by a login and once by SIGINT at most.  The argument: a  *)
(* dispatch that Shutdown has not called is either still in the table, and *)
(* will be visited, or was replaced by a login that had called all of its  *)
(* callbacks; and login and SIGINT each pass over a module once.           *)
(***************************************************************************)

(* What a login has brought down of the dispatch it replaces, panics or not*)
OldInv == \A x \in Exchanges : OldGoesDown(x) /\ OldIsDown(x)

(* d was in the table and Shutdown has come past the first k - 1 modules.  *)
CalledUpTo(d, k) == \A m \in WithShutdown : m < k => shutdowns[d][m] > 0

(* Where a dispatch is of which Shutdown has to see that it goes down.     *)
RunningInv ==
  /\ \A d \in running :
       /\ User[d] \in entries
       /\ pc[d] \in Served
       /\ \/ Down(d)
          \/ dispatches[User[d]] = d /\ User[d] \notin visited
          \/ signal = "call" /\ visiting = d /\ CalledUpTo(d, visitAt)
  /\ signal = "none" => running = {} /\ visited = {}
  /\ signal = "call" => visiting \in Exchanges

ShutdownInv == IInv /\ OldInv /\ RunningInv

----------------------------------------------------------------------------
(* Only a login changes the table, what is initialised, or its own place   *)
(* in addUser; the others leave OldInv alone.                              *)
LEMMA OldFrame ==
  ASSUME TypeOK, TypeOK', [Next]_vars, OldInv, UNCHANGED <<dispatches, inits, at>>,
         \A x \in Exchanges : pc'[x] \in InAddUser => pc'[x] = pc[x]
  PROVE  OldInv'
<1> SUFFICES ASSUME NEW x \in Exchanges PROVE OldGoesDown(x)' /\ OldIsDown(x)'
  BY DEF OldInv
<1> DEFINE d == dispatches[User[x]]
<1>1. OldGoesDown(x) /\ OldIsDown(x)  BY DEF OldInv
<1>2. d # None => d \in Exchanges  BY ConstantsAssumption DEF TypeOK
<1>3. OldGoesDown(x)'
  <2> SUFFICES ASSUME pc'[x] = "shutdown"
               PROVE  d # None /\ \A m \in WithShutdown : m < at[x] => shutdowns'[d][m] > 0
    BY DEF OldGoesDown
  <2>1. pc[x] = "shutdown"  BY DEF InAddUser
  <2>2. d \in Exchanges  BY <1>1, <1>2, <2>1 DEF OldGoesDown
  <2>3. ASSUME NEW m \in WithShutdown, m < at[x] PROVE shutdowns'[d][m] > 0
    <3>1. m \in Modules  BY ConstantsAssumption
    <3>2. shutdowns[d][m] > 0  BY <1>1, <2>1, <2>3 DEF OldGoesDown
    <3>3. shutdowns'[d][m] >= shutdowns[d][m]  BY <2>2, <3>1, CountsGrow
    <3>4. shutdowns[d][m] \in Nat /\ shutdowns'[d][m] \in Nat  BY <2>2, <3>1 DEF TypeOK
    <3> QED BY <3>2, <3>3, <3>4
  <2> QED BY <1>1, <2>1, <2>3 DEF OldGoesDown
<1>4. OldIsDown(x)'
  <2> SUFFICES ASSUME pc'[x] \in {"init", "store"}, d # None PROVE Down(d)'
    BY DEF OldIsDown
  <2>1. Down(d)  BY <1>1 DEF OldIsDown, InAddUser
  <2> QED BY <1>2, <2>1, DownStays
<1> QED BY <1>3, <1>4

(* Every step brings the old dispatch further down or has it down already, *)
(* a panic included: whoever panics is out of addUser.                     *)
LEMMA OldStep ==
  ASSUME IInv, TypeOK', OldInv, [Next]_vars
  PROVE  OldInv'
<1> USE DEF IInv
<1>0. \A x, y \in Exchanges : pc[x] \in InAddUser /\ pc[y] \in InAddUser => x = y
  BY DEF LockInv
<1>1. ASSUME NEW y \in Exchanges, AddUserLock(y) PROVE OldInv'
  <2>1. /\ pc[y] = "lockAdd" /\ mutex = None
        /\ UNCHANGED <<dispatches, inits, at, shutdowns>>
        /\ pc' = [pc EXCEPT ![y] = IF dispatches[User[y]] # None THEN "shutdown" ELSE "init"]
    BY <1>1 DEF AddUserLock, GoTo
  <2>2. at[y] = 1  BY <2>1 DEF PlaceInv, Before
  <2>3. \A m \in WithShutdown : ~(m < 1)  BY ConstantsAssumption DEF Modules
  <2>4. /\ pc'[y] = IF dispatches[User[y]] # None THEN "shutdown" ELSE "init"
        /\ \A x \in Exchanges : x # y => pc'[x] = pc[x]
    BY <2>1 DEF TypeOK
  <2> QED BY <2>1, <2>2, <2>3, <2>4 DEF OldInv, OldGoesDown, OldIsDown, Down
<1>2. ASSUME NEW y \in Exchanges, ShutdownModule(y) PROVE OldInv'
  <2> DEFINE d == dispatches[User[y]]
  <2>1. /\ pc[y] = "shutdown" /\ at[y] <= ModuleCount /\ UNCHANGED <<dispatches, inits, pc>>
        /\ CallShutdown(d, at[y])
        /\ at' = [at EXCEPT ![y] = @ + 1]
    BY <1>2 DEF ShutdownModule, tableVars
  <2>2. \A x \in Exchanges : pc[x] \in InAddUser => x = y  BY <1>0, <2>1 DEF InAddUser
  <2>3. d \in Exchanges  BY <2>1, ConstantsAssumption DEF OldInv, OldGoesDown, TypeOK
  <2>4. at'[y] = at[y] + 1 /\ at[y] \in Nat  BY <2>1 DEF TypeOK
  <2>5. ASSUME NEW m \in WithShutdown, m < at'[y] PROVE shutdowns'[d][m] > 0
    <3>1. m \in Modules /\ m \in Nat  BY ConstantsAssumption DEF Modules
    <3>2. CASE m = at[y]  BY <2>1, <2>3, <2>5, <3>1, <3>2, CallCounts
    <3>3. CASE m < at[y]
      <4>1. shutdowns[d][m] > 0  BY <2>1, <3>3 DEF OldInv, OldGoesDown
      <4>2. shutdowns'[d][m] >= shutdowns[d][m]  BY <2>3, <3>1, CountsGrow
      <4>3. shutdowns[d][m] \in Nat /\ shutdowns'[d][m] \in Nat  BY <2>3, <3>1 DEF TypeOK
      <4> QED BY <4>1, <4>2, <4>3
    <3> QED BY <2>4, <2>5, <3>1, <3>2, <3>3
  <2> QED BY <2>1, <2>2, <2>5 DEF OldInv, OldGoesDown, OldIsDown, InAddUser
<1>3. ASSUME NEW y \in Exchanges, ShutdownDone(y) PROVE OldInv'
  <2>1. /\ pc[y] = "shutdown" /\ at[y] > ModuleCount
        /\ UNCHANGED <<dispatches, inits, at, shutdowns>>
        /\ pc' = [pc EXCEPT ![y] = "init"]
    BY <1>3 DEF ShutdownDone, GoTo, tableVars
  <2>2. \A m \in WithShutdown : m < at[y]
    BY <2>1, ConstantsAssumption DEF Modules, TypeOK
  <2>3. Down(dispatches[User[y]])  BY <2>1, <2>2 DEF OldInv, OldGoesDown, Down
  <2>4. pc'[y] = "init" /\ \A x \in Exchanges : x # y => pc'[x] = pc[x]
    BY <2>1 DEF TypeOK
  <2> QED BY <2>1, <2>3, <2>4 DEF OldInv, OldGoesDown, OldIsDown, Down
<1>4. ASSUME NEW y \in Exchanges, InitModule(y) PROVE OldInv'
  <2>1. /\ pc[y] = "init" /\ UNCHANGED <<dispatches, at, shutdowns, pc>>
        /\ \A x \in Exchanges : x # y => inits'[x] = inits[x]
    BY <1>4 DEF InitModule, tableVars, TypeOK
  <2>2. ASSUME NEW u \in Users, dispatches[u] = y PROVE FALSE
    <3>1. dispatches[u] # None  BY <2>2, ConstantsAssumption
    <3>2. pc[y] \in Served  BY <2>2, <3>1 DEF TableInv
    <3> QED  BY <2>1, <3>2 DEF Served
  <2>3. \A x \in Exchanges : User[x] \in Users /\ dispatches[User[x]] \in Exchanges \cup {None}
    BY ConstantsAssumption DEF TypeOK
  <2> QED BY <2>1, <2>2, <2>3 DEF OldInv, OldGoesDown, OldIsDown, Down
<1>5. ASSUME NEW y \in Exchanges, InitDone(y) PROVE OldInv'
  <2>1. /\ pc[y] = "init" /\ UNCHANGED <<dispatches, inits, at, shutdowns>>
        /\ pc'[y] = "store" /\ \A x \in Exchanges : x # y => pc'[x] = pc[x]
    BY <1>5 DEF InitDone, GoTo, tableVars, TypeOK
  <2> QED BY <2>1 DEF OldInv, OldGoesDown, OldIsDown, Down
<1>6. ASSUME NEW y \in Exchanges, AddUserStore(y) PROVE OldInv'
  <2>1. pc[y] = "store" /\ pc'[y] = "request" /\ \A x \in Exchanges : x # y => pc'[x] = pc[x]
    BY <1>6 DEF AddUserStore, GoTo, TypeOK
  <2>2. \A x \in Exchanges : pc'[x] \notin InAddUser  BY <1>0, <2>1 DEF InAddUser
  <2> QED BY <2>2 DEF OldInv, OldGoesDown, OldIsDown, InAddUser
<1>7. ASSUME NEW y \in Exchanges,
             AddUserPanics(y) \/ RequestComes(y) \/ GetUser(y) \/ DispatchRequest(y)
               \/ DispatchResponse(y) \/ MapFault(y)
      PROVE  OldInv'
  <2>1. UNCHANGED <<dispatches, inits, at>>
    BY <1>7 DEF AddUserPanics, RequestComes, GetUser, DispatchRequest, DispatchResponse, MapFault,
         tableVars, exchangeVars
  <2>2. \A x \in Exchanges : pc'[x] \in InAddUser => pc'[x] = pc[x]
    BY <1>7, ConstantsAssumption DEF AddUserPanics, RequestComes, GetUser, DispatchRequest,
         DispatchResponse, MapFault, exchangeVars, GoTo, TypeOK, Kinds, InAddUser
  <2> QED BY <2>1, <2>2, OldFrame
<1>8. ASSUME Signal \/ SignalStep \/ VisitPanics \/ UNCHANGED vars PROVE OldInv'
  <2>1. UNCHANGED <<dispatches, inits, at, pc>>
    BY <1>8 DEF Signal, SignalStep, Visit, VisitModule, VisitDone, Exit, VisitPanics,
         vars, tableVars, exchangeVars
  <2> QED BY <2>1, OldFrame
<1> QED BY <1>1, <1>2, <1>3, <1>4, <1>5, <1>6, <1>7, <1>8 DEF Next, AddUserStep
----------------------------------------------------------------------------
(* A dispatch that was in the table has all of its modules, and keeps them.*)
LEMMA RunningHasAll ==
  ASSUME TypeOK, PlaceInv, TableInv, [Next]_vars, NEW d \in Exchanges, pc[d] \in Served
  PROVE  pc'[d] \in Served /\ inits'[d] = inits[d]
<1>1. UNCHANGED <<pc, inits>> => pc'[d] \in Served /\ inits'[d] = inits[d]  OBVIOUS
<1>2. ASSUME NEW y \in Exchanges,
             RequestComes(y) \/ GetUser(y) \/ AddUserLock(y) \/ AddUserStep(y) \/ AddUserPanics(y)
               \/ DispatchRequest(y) \/ DispatchResponse(y) \/ MapFault(y)
      PROVE  pc'[d] \in Served /\ inits'[d] = inits[d]
  BY <1>2 DEF RequestComes, GetUser, AddUserLock, AddUserStep, ShutdownModule, ShutdownDone,
     InitModule, InitDone, AddUserStore, AddUserPanics, DispatchRequest, DispatchResponse, MapFault,
     GoTo, exchangeVars, TypeOK, Served
<1>3. Signal \/ SignalStep \/ VisitPanics \/ UNCHANGED vars => UNCHANGED <<pc, inits>>
  BY DEF Signal, SignalStep, Visit, VisitModule, VisitDone, Exit, VisitPanics, vars, exchangeVars
<1> QED BY <1>1, <1>2, <1>3 DEF Next

(* What Shutdown has called stays called.                                  *)
LEMMA CalledStays ==
  ASSUME TypeOK, TypeOK', [Next]_vars, NEW d \in Exchanges, NEW k \in Nat, CalledUpTo(d, k)
  PROVE  \A m \in WithShutdown : m < k => shutdowns'[d][m] > 0
<1> SUFFICES ASSUME NEW m \in WithShutdown, m < k PROVE shutdowns'[d][m] > 0
  OBVIOUS
<1>1. m \in Modules  BY ConstantsAssumption
<1>2. shutdowns[d][m] > 0  BY DEF CalledUpTo
<1>3. shutdowns'[d][m] >= shutdowns[d][m]  BY <1>1, CountsGrow
<1>4. shutdowns[d][m] \in Nat /\ shutdowns'[d][m] \in Nat  BY <1>1 DEF TypeOK
<1> QED BY <1>2, <1>3, <1>4

(* A step of an exchange: what leaves the table is down.                   *)
LEMMA RunningUnderLogins ==
  ASSUME IInv, TypeOK', OldInv, RunningInv, [Next]_vars, UNCHANGED signalVars
  PROVE  RunningInv'
<1> USE DEF IInv
<1>1. UNCHANGED <<signal, visited, visiting, visitAt, entries, running>>  BY DEF signalVars
<1>2. ASSUME NEW d \in running
      PROVE  /\ User[d] \in entries
             /\ pc'[d] \in Served
             /\ \/ Down(d)'
                \/ dispatches'[User[d]] = d /\ User[d] \notin visited
                \/ signal = "call" /\ visiting = d /\ CalledUpTo(d, visitAt)'
  <2>1. d \in Exchanges /\ User[d] \in entries /\ pc[d] \in Served
    BY DEF RunningInv, TypeOK
  <2>2. pc'[d] \in Served /\ inits'[d] = inits[d]  BY <2>1, RunningHasAll
  <2>3. CASE Down(d)  BY <2>1, <2>2, <2>3, DownStays
  <2>4. CASE dispatches[User[d]] = d /\ User[d] \notin visited
    <3>1. ASSUME dispatches'[User[d]] # d PROVE Down(d)
      <4>1. PICK y \in Exchanges : AddUserStore(y)
        BY <2>4, <3>1 DEF Next, RequestComes, GetUser, AddUserLock, AddUserStep, ShutdownModule,
           ShutdownDone, InitModule, InitDone, AddUserPanics, DispatchRequest, DispatchResponse,
           MapFault, Signal, SignalStep, Visit, VisitModule, VisitDone, Exit, VisitPanics, vars,
           tableVars
      <4>2. pc[y] = "store" /\ \A u \in Users : u # User[y] => dispatches'[u] = dispatches[u]
        BY <4>1 DEF AddUserStore, TypeOK
      <4>3. User[d] = User[y]  BY <2>1, <2>4, <3>1, <4>2, ConstantsAssumption
      <4>4. d # None  BY <2>1, ConstantsAssumption
      <4> QED BY <2>4, <4>2, <4>3, <4>4 DEF OldInv, OldIsDown
    <3> QED BY <2>1, <2>2, <2>4, <3>1, DownStays
  <2>5. CASE signal = "call" /\ visiting = d /\ CalledUpTo(d, visitAt)
    <3>1. visitAt \in Nat  BY ConstantsAssumption DEF TypeOK
    <3>2. \A m \in WithShutdown : m < visitAt => shutdowns'[d][m] > 0
      BY <2>1, <2>5, <3>1, CalledStays
    <3> QED BY <1>1, <2>1, <2>2, <2>5, <3>2 DEF CalledUpTo
  <2> QED BY <2>1, <2>2, <2>3, <2>4, <2>5 DEF RunningInv
<1> QED BY <1>1, <1>2 DEF RunningInv

(* A step of the SIGINT goroutine: it comes to every entry, and passes over*)
(* all modules of what it finds there.                                     *)
LEMMA RunningUnderSignal ==
  ASSUME IInv, TypeOK', RunningInv, [Next]_vars, Signal \/ SignalStep \/ VisitPanics
  PROVE  RunningInv'
<1> USE DEF IInv
<1>1. UNCHANGED <<dispatches, pc, inits, crashed>> \/ UNCHANGED <<dispatches, pc, inits>>
  BY DEF Signal, SignalStep, Visit, VisitModule, VisitDone, Exit, VisitPanics, tableVars, exchangeVars
<1>2. \A d \in Exchanges : Down(d) => Down(d)'  BY <1>1, DownStays
<1>3. running \subseteq Exchanges  BY DEF TypeOK
<1>4. CASE Signal
  <2>1. signal = "none" /\ signal' = "range" /\ visited' = visited /\ visited = {}
        /\ entries' = InTable /\ running' = {dispatches[u] : u \in InTable}
    BY <1>4 DEF Signal, RunningInv
  <2>2. ASSUME NEW d \in running'
        PROVE  User[d] \in entries' /\ pc[d] \in Served /\ dispatches[User[d]] = d
    <3>1. PICK u \in InTable : d = dispatches[u]  BY <2>1
    <3> QED BY <2>1, <3>1 DEF InTable, TableInv
  <2> QED BY <1>1, <2>1, <2>2 DEF RunningInv
<1>5. ASSUME NEW u \in Users, Visit(u) PROVE RunningInv'
  <2>1. /\ signal = "range" /\ signal' = "call" /\ u \in InTable
        /\ visited' = visited \cup {u} /\ visiting' = dispatches[u] /\ visitAt' = 1
        /\ UNCHANGED <<entries, running>>
    BY <1>5 DEF Visit
  <2>2. visiting' \in Exchanges  BY <2>1 DEF InTable, TypeOK
  <2>3. \A m \in WithShutdown : ~(m < 1)  BY ConstantsAssumption DEF Modules
  <2>4. ASSUME NEW d \in running, dispatches[User[d]] = d, User[d] \notin visited, User[d] \in visited'
        PROVE  visiting' = d /\ CalledUpTo(d, visitAt)'
    BY <2>1, <2>3, <2>4 DEF CalledUpTo
  <2>5. ASSUME NEW d \in running'
        PROVE  /\ User[d] \in entries'
               /\ pc'[d] \in Served
               /\ \/ Down(d)'
                  \/ dispatches'[User[d]] = d /\ User[d] \notin visited'
                  \/ signal' = "call" /\ visiting' = d /\ CalledUpTo(d, visitAt)'
    <3>1. d \in running /\ d \in Exchanges  BY <1>3, <2>1
    <3>2. Down(d) \/ (dispatches[User[d]] = d /\ User[d] \notin visited)
      BY <2>1, <3>1 DEF RunningInv
    <3> QED BY <1>1, <1>2, <2>1, <2>4, <3>1, <3>2 DEF RunningInv
  <2> QED BY <2>1, <2>2, <2>5 DEF RunningInv
<1>6. CASE VisitModule
  <2>1. /\ signal = "call" /\ visitAt' = visitAt + 1 /\ CallShutdown(visiting, visitAt)
        /\ UNCHANGED <<signal, visited, visiting, entries, running>>
    BY <1>6 DEF VisitModule
  <2>2. visiting \in Exchanges /\ visitAt \in Nat  BY <2>1, ConstantsAssumption DEF RunningInv, TypeOK
  <2>3. ASSUME CalledUpTo(visiting, visitAt) PROVE CalledUpTo(visiting, visitAt)'
    <3> SUFFICES ASSUME NEW m \in WithShutdown, m < visitAt + 1 PROVE shutdowns'[visiting][m] > 0
      BY <2>1 DEF CalledUpTo
    <3>1. m \in Modules /\ m \in Nat  BY ConstantsAssumption DEF Modules
    <3>2. CASE m = visitAt  BY <2>1, <2>2, <3>1, <3>2, CallCounts
    <3>3. CASE m < visitAt  BY <2>2, <2>3, <3>3, CalledStays
    <3> QED BY <2>2, <3>1, <3>2, <3>3
  <2> QED BY <1>1, <1>2, <1>3, <2>1, <2>3 DEF RunningInv
<1>7. CASE VisitDone
  <2>1. /\ signal = "call" /\ visitAt > ModuleCount /\ signal' = "range"
        /\ UNCHANGED <<visited, visiting, visitAt, entries, running, shutdowns>>
    BY <1>7 DEF VisitDone
  <2>2. \A m \in WithShutdown : m < visitAt
    BY <2>1, ConstantsAssumption DEF Modules, TypeOK
  <2>3. CalledUpTo(visiting, visitAt) => Down(visiting)  BY <2>2 DEF CalledUpTo, Down
  <2> QED BY <1>1, <1>2, <1>3, <2>1, <2>3 DEF RunningInv
<1>8. CASE Exit
  <2>1. signal = "range" /\ signal' = "exited" /\ UNCHANGED <<visited, visiting, visitAt, entries, running>>
    BY <1>8 DEF Exit
  <2> QED BY <1>1, <1>2, <1>3, <2>1 DEF RunningInv
<1>9. CASE VisitPanics
  <2>1. UNCHANGED <<signal, visited, visiting, visitAt, entries, running, shutdowns>>
    BY <1>9 DEF VisitPanics, signalVars
  <2> QED BY <1>1, <1>2, <1>3, <2>1 DEF RunningInv, CalledUpTo
<1> QED BY <1>4, <1>5, <1>6, <1>7, <1>8, <1>9 DEF SignalStep

(* Every step keeps the strengthened invariant.                            *)
LEMMA ShutdownStep == ShutdownInv /\ [Next]_vars => ShutdownInv'
<1> SUFFICES ASSUME ShutdownInv, [Next]_vars PROVE ShutdownInv'
  OBVIOUS
<1> USE DEF ShutdownInv
<1>1. IInv'  BY NextIInv
<1>2. TypeOK'  BY <1>1 DEF IInv
<1>3. OldInv'  BY <1>2, OldStep
<1>4. CASE Signal \/ SignalStep \/ VisitPanics
  BY <1>1, <1>2, <1>3, <1>4, RunningUnderSignal
<1>5. CASE ~(Signal \/ SignalStep \/ VisitPanics)
  <2>1. UNCHANGED signalVars
    BY <1>5 DEF Next, RequestComes, GetUser, AddUserLock, AddUserStep, ShutdownModule, ShutdownDone,
       InitModule, InitDone, AddUserStore, AddUserPanics, DispatchRequest, DispatchResponse, MapFault,
       vars
  <2> QED BY <1>1, <1>2, <1>3, <2>1, RunningUnderLogins
<1> QED BY <1>4, <1>5

(* What was in the table when SIGINT came is down or waits for its visit,  *)
(* whatever is replaced meanwhile and whoever panics.                      *)
THEOREM ShutdownInvariant == Spec => []ShutdownInv
<1>1. Init => ShutdownInv
  <2> SUFFICES ASSUME Init PROVE ShutdownInv
    OBVIOUS
  <2>1. IInv  BY InitIInv
  <2>2. OldInv  BY DEF Init, OldInv, OldGoesDown, OldIsDown
  <2>3. RunningInv  BY DEF Init, RunningInv
  <2> QED BY <2>1, <2>2, <2>3 DEF ShutdownInv
<1> QED BY <1>1, ShutdownStep, PTL DEF Spec

(* Proxy.Start exits after Shutdown only when every module that was in the *)
(* table at SIGINT has been shut down.                                     *)
THEOREM ExitLeavesNone == Spec => []ExitShutsDown
<1> DEFINE Left == signal = "exited" => entries \subseteq visited
<1>1. ShutdownInv /\ Left => ExitShutsDown
  BY DEF ShutdownInv, RunningInv, ExitShutsDown
<1>2. Init => Left  BY DEF Init
<1>3. Left /\ [Next]_vars => Left'
  BY DEF Next, Alive, RequestComes, GetUser, AddUserLock, AddUserStep, ShutdownModule, ShutdownDone,
     InitModule, InitDone, AddUserStore, AddUserPanics, DispatchRequest, DispatchResponse, MapFault,
     Signal, SignalStep, Visit, VisitModule, VisitDone, Exit, VisitPanics, vars, signalVars
<1> QED BY <1>1, <1>2, <1>3, ShutdownInvariant, PTL DEF Spec
----------------------------------------------------------------------------
(* A login passes over m of d once: d is in the table, and it is behind m, *)
(* or d was in the table.                                                  *)
LoginCalled(d, m) ==
  IF dispatches[User[d]] = d
    THEN \E y \in Exchanges :
           /\ User[y] = User[d]
           /\ pc[y] \in {"init", "store"} \/ (pc[y] = "shutdown" /\ m < at[y])
    ELSE pc[d] \in Served

(* Shutdown comes to a user once, and passes over m of what it finds once. *)
SignalCalled(d, m) ==
  /\ User[d] \in visited
  /\ signal = "call" /\ User[visiting] = User[d] => visiting = d /\ m < visitAt

CountsInv ==
  /\ \A d \in Exchanges, m \in Modules :
       /\ ~LoginCalled(d, m) /\ ~SignalCalled(d, m) => shutdowns[d][m] = 0
       /\ ~(LoginCalled(d, m) /\ SignalCalled(d, m)) => shutdowns[d][m] <= 1
       /\ shutdowns[d][m] <= 2
  /\ signal = "call" => User[visiting] \in visited

(* A call is counted once, for its module and for no other.                *)
LEMMA CallExact ==
  ASSUME TypeOK, NEW d \in Exchanges, NEW m \in Modules, CallShutdown(d, m)
  PROVE  \A e \in Exchanges, k \in Modules :
           /\ e # d \/ k # m => shutdowns'[e][k] = shutdowns[e][k]
           /\ e = d /\ k = m => shutdowns'[e][k] <= shutdowns[e][k] + 1
<1>1. CASE m \notin WithShutdown  BY <1>1 DEF CallShutdown, TypeOK
<1>2. CASE m \in WithShutdown
  <2>1. shutdowns' = [shutdowns EXCEPT ![d][m] = @ + 1]  BY <1>2 DEF CallShutdown
  <2>2. shutdowns \in [Exchanges -> [Modules -> Nat]]  BY DEF TypeOK
  <2>3. shutdowns'[d] = [shutdowns[d] EXCEPT ![m] = shutdowns[d][m] + 1]  BY <2>1, <2>2
  <2>4. \A e \in Exchanges : e # d => shutdowns'[e] = shutdowns[e]  BY <2>1, <2>2
  <2>5. shutdowns[d] \in [Modules -> Nat]  BY <2>2
  <2>6. shutdowns'[d][m] = shutdowns[d][m] + 1 /\ shutdowns[d][m] \in Nat  BY <2>3, <2>5
  <2>7. \A k \in Modules : k # m => shutdowns'[d][k] = shutdowns[d][k]  BY <2>3, <2>5
  <2> QED BY <2>4, <2>6, <2>7
<1> QED BY <1>1, <1>2

(* A step that calls nothing, and after which login and SIGINT have passed *)
(* over what they had passed over before.                                  *)
LEMMA CountsFrame ==
  ASSUME CountsInv, shutdowns' = shutdowns,
         \A d \in Exchanges, m \in Modules :
           (LoginCalled(d, m) => LoginCalled(d, m)') /\ (SignalCalled(d, m) => SignalCalled(d, m)'),
         signal' = "call" => User[visiting'] \in visited'
  PROVE  CountsInv'
BY DEF CountsInv

(* A step that calls m of d, which the one who calls had not passed before.*)
LEMMA CountsCall ==
  ASSUME TypeOK, TypeOK', CountsInv, NEW d \in Exchanges, NEW m \in Modules, CallShutdown(d, m),
         \A e \in Exchanges, k \in Modules :
           (LoginCalled(e, k) => LoginCalled(e, k)') /\ (SignalCalled(e, k) => SignalCalled(e, k)'),
         (~LoginCalled(d, m) /\ LoginCalled(d, m)') \/ (~SignalCalled(d, m) /\ SignalCalled(d, m)'),
         signal' = "call" => User[visiting'] \in visited'
  PROVE  CountsInv'
<1>1. ASSUME NEW e \in Exchanges, NEW k \in Modules
      PROVE  /\ ~LoginCalled(e, k)' /\ ~SignalCalled(e, k)' => shutdowns'[e][k] = 0
             /\ ~(LoginCalled(e, k)' /\ SignalCalled(e, k)') => shutdowns'[e][k] <= 1
             /\ shutdowns'[e][k] <= 2
  <2> USE DEF CountsInv
  <2>1. CASE e # d \/ k # m
    <3>1. shutdowns'[e][k] = shutdowns[e][k]  BY <2>1, CallExact
    <3> QED BY <3>1
  <2>2. CASE e = d /\ k = m
    <3>1. shutdowns'[d][m] <= shutdowns[d][m] + 1  BY CallExact
    <3>2. shutdowns[d][m] \in Nat /\ shutdowns'[d][m] \in Nat  BY DEF TypeOK
    <3>3. shutdowns[d][m] <= 1  OBVIOUS
    <3>4. ~(LoginCalled(d, m)' /\ SignalCalled(d, m)') => shutdowns[d][m] = 0  OBVIOUS
    <3>5. LoginCalled(d, m)' \/ SignalCalled(d, m)'  OBVIOUS
    <3> QED BY <2>2, <3>1, <3>2, <3>3, <3>4, <3>5
  <2> QED BY <2>1, <2>2
<1> QED BY <1>1 DEF CountsInv

(* Steps of the logins and of the other exchanges.                         *)
LEMMA CountsUnderLogins ==
  ASSUME IInv, TypeOK', CountsInv, panics' = 0, UNCHANGED signalVars,
         NEW y \in Exchanges,
         RequestComes(y) \/ GetUser(y) \/ AddUserLock(y) \/ AddUserStep(y) \/ AddUserPanics(y)
           \/ DispatchRequest(y) \/ DispatchResponse(y) \/ MapFault(y)
  PROVE  CountsInv'
<1> USE DEF IInv
<1>1. UNCHANGED <<signal, visited, visiting, visitAt>>  BY DEF signalVars
<1>2. /\ \A d \in Exchanges, m \in Modules : SignalCalled(d, m) => SignalCalled(d, m)'
      /\ signal' = "call" => User[visiting'] \in visited'
  BY <1>1 DEF SignalCalled, CountsInv
<1>3. \A x, z \in Exchanges : pc[x] \in InAddUser /\ pc[z] \in InAddUser => x = z
  BY DEF LockInv
<1>4. CASE AddUserPanics(y)  BY <1>4 DEF AddUserPanics, TypeOK
<1>5. CASE ShutdownModule(y)
  <2> DEFINE d == dispatches[User[y]]
  <2>1. /\ pc[y] = "shutdown" /\ at[y] <= ModuleCount /\ UNCHANGED <<dispatches, pc>>
        /\ CallShutdown(d, at[y]) /\ at' = [at EXCEPT ![y] = @ + 1]
    BY <1>5 DEF ShutdownModule, tableVars
  <2>2. at[y] \in Modules /\ at'[y] = at[y] + 1
        /\ \A x \in Exchanges : x # y => at'[x] = at[x]
    BY <2>1, ConstantsAssumption DEF TypeOK, Modules
  <2>3. panics = 0  BY <1>5 DEF ShutdownModule
  <2>4. d \in Exchanges /\ User[d] = User[y] /\ dispatches[User[d]] = d
    BY <2>1, <2>3, ConstantsAssumption DEF DownInv, OldGoesDown, TableInv, TypeOK
  <2>5. PICK o \in Exchanges, m \in Modules : o = d /\ m = at[y]
    BY <2>2, <2>4
  <2>6. ~LoginCalled(o, m)
    <3>1. \A x \in Exchanges : pc[x] \in InAddUser => x = y  BY <1>3, <2>1 DEF InAddUser
    <3>2. ~(m < at[y])  BY <2>2, <2>5 DEF Modules
    <3> QED BY <2>1, <2>4, <2>5, <3>1, <3>2 DEF LoginCalled, InAddUser
  <2>7. LoginCalled(o, m)'
    <3>1. m < at'[y]  BY <2>2, <2>5 DEF Modules
    <3>2. dispatches'[User[o]] = o /\ pc'[y] = "shutdown" /\ User[y] = User[o]
      BY <2>1, <2>4, <2>5
    <3> QED BY <3>1, <3>2 DEF LoginCalled
  <2>8. \A e \in Exchanges, k \in Modules : LoginCalled(e, k) => LoginCalled(e, k)'
    <3>1. \A x \in Exchanges, k \in Modules : k < at[x] => k < at'[x]
      <4>1. at[y] \in Nat  BY <2>2 DEF Modules
      <4>2. \A k \in Modules : k \in Nat  BY DEF Modules
      <4> QED BY <2>2, <4>1, <4>2
    <3> QED BY <2>1, <3>1 DEF LoginCalled
  <2>9. CallShutdown(o, m)  BY <2>1, <2>5
  <2> QED BY <1>2, <2>6, <2>7, <2>8, <2>9, CountsCall
<1>6. CASE AddUserStore(y)
  <2>1. /\ pc[y] = "store" /\ UNCHANGED <<shutdowns, at>>
        /\ pc'[y] = "request" /\ \A x \in Exchanges : x # y => pc'[x] = pc[x]
        /\ dispatches'[User[y]] = y
        /\ \A u \in Users : u # User[y] => dispatches'[u] = dispatches[u]
    BY <1>6, ConstantsAssumption DEF AddUserStore, GoTo, TypeOK
  <2>2. \A x \in Exchanges : pc[x] \in InAddUser => x = y  BY <1>3, <2>1 DEF InAddUser
  <2>3. ASSUME NEW d \in Exchanges, NEW m \in Modules, LoginCalled(d, m)
        PROVE  LoginCalled(d, m)'
    <3>1. User[d] \in Users /\ User[y] \in Users /\ d # None  BY ConstantsAssumption
    <3>2. CASE dispatches[User[d]] = d
      <4>1. User[d] = User[y]  BY <2>2, <2>3, <3>2 DEF LoginCalled, InAddUser
      <4>2. pc[d] \in Served  BY <3>1, <3>2 DEF TableInv
      <4>3. d # y  BY <2>1, <4>2 DEF Served
      <4> QED BY <2>1, <4>1, <4>2, <4>3 DEF LoginCalled
    <3>3. CASE dispatches[User[d]] # d
      <4>1. pc[d] \in Served  BY <2>3, <3>3 DEF LoginCalled
      <4>2. d # y  BY <2>1, <4>1 DEF Served
      <4>3. dispatches'[User[d]] # d  BY <2>1, <3>1, <3>3, <4>2
      <4> QED BY <2>1, <4>1, <4>2, <4>3 DEF LoginCalled
    <3> QED BY <3>2, <3>3
  <2> QED BY <1>2, <2>1, <2>3, CountsFrame
<1>7. CASE RequestComes(y) \/ GetUser(y) \/ AddUserLock(y) \/ ShutdownDone(y) \/ InitModule(y)
             \/ InitDone(y) \/ DispatchRequest(y) \/ DispatchResponse(y) \/ MapFault(y)
  <2>1. UNCHANGED <<dispatches, at, shutdowns>>
    BY <1>7 DEF RequestComes, GetUser, AddUserLock, ShutdownDone, InitModule, InitDone,
         DispatchRequest, DispatchResponse, MapFault, tableVars, exchangeVars
  <2>2. \A x \in Exchanges :
          /\ pc[x] \in Served => pc'[x] \in Served
          /\ pc[x] \in {"init", "store"} => pc'[x] \in {"init", "store"}
          /\ pc[x] = "shutdown" => pc'[x] \in {"shutdown", "init"}
    BY <1>7, ConstantsAssumption DEF RequestComes, GetUser, AddUserLock, ShutdownDone, InitModule,
         InitDone, DispatchRequest, DispatchResponse, MapFault, exchangeVars, GoTo, TypeOK, Kinds, Served
  <2>3. \A d \in Exchanges, m \in Modules : LoginCalled(d, m) => LoginCalled(d, m)'
    BY <2>1, <2>2 DEF LoginCalled
  <2> QED BY <1>2, <2>1, <2>3, CountsFrame
<1> QED BY <1>4, <1>5, <1>6, <1>7 DEF AddUserStep

(* Steps of the SIGINT goroutine.                                          *)
LEMMA CountsUnderSignal ==
  ASSUME IInv, TypeOK', RunningInv, CountsInv, Signal \/ SignalStep \/ VisitPanics
  PROVE  CountsInv'
<1> USE DEF IInv
<1>1. UNCHANGED <<dispatches, pc, at>>
  BY DEF Signal, SignalStep, Visit, VisitModule, VisitDone, Exit, VisitPanics, tableVars, exchangeVars
<1>2. \A d \in Exchanges, m \in Modules : LoginCalled(d, m) => LoginCalled(d, m)'
  BY <1>1 DEF LoginCalled
<1>3. CASE Signal \/ Exit \/ VisitPanics \/ VisitDone
  <2>1. /\ UNCHANGED <<shutdowns, visited, visiting, visitAt>>
        /\ signal' = "call" => signal = "call"
    BY <1>3 DEF Signal, Exit, VisitPanics, VisitDone, signalVars
  <2> QED BY <1>2, <2>1, CountsFrame DEF SignalCalled, CountsInv
<1>4. ASSUME NEW u \in Users, Visit(u) PROVE CountsInv'
  <2>1. /\ signal = "range" /\ signal' = "call" /\ u \in InTable \ visited
        /\ visited' = visited \cup {u} /\ visiting' = dispatches[u] /\ shutdowns' = shutdowns
    BY <1>4 DEF Visit
  <2>2. User[visiting'] = u  BY <2>1 DEF InTable, TableInv
  <2> QED BY <1>2, <2>1, <2>2, CountsFrame DEF SignalCalled
<1>5. CASE VisitModule
  <2>1. /\ signal = "call" /\ visitAt <= ModuleCount /\ visitAt' = visitAt + 1
        /\ CallShutdown(visiting, visitAt) /\ UNCHANGED <<signal, visited, visiting>>
    BY <1>5 DEF VisitModule
  <2>2. visiting \in Exchanges /\ visitAt \in Modules
    BY <2>1, ConstantsAssumption DEF RunningInv, TypeOK, Modules
  <2>3. User[visiting] \in visited  BY <2>1 DEF CountsInv
  <2>4. PICK o \in Exchanges, m \in Modules : o = visiting /\ m = visitAt
    BY <2>2
  <2>5. ~SignalCalled(o, m) /\ SignalCalled(o, m)'
    <3>1. ~(m < visitAt) /\ m < visitAt'  BY <2>1, <2>2, <2>4 DEF Modules
    <3> QED BY <2>1, <2>3, <2>4, <3>1 DEF SignalCalled
  <2>6. \A d \in Exchanges, k \in Modules : SignalCalled(d, k) => SignalCalled(d, k)'
    <3>1. \A k \in Modules : k < visitAt => k < visitAt'
      BY <2>1, <2>2 DEF Modules
    <3> QED BY <2>1, <3>1 DEF SignalCalled
  <2>7. CallShutdown(o, m)  BY <2>1, <2>4
  <2>8. User[visiting'] \in visited'  BY <2>1, <2>3
  <2> QED BY <1>2, <2>5, <2>6, <2>7, <2>8, CountsCall
<1> QED BY <1>3, <1>4, <1>5 DEF SignalStep

(* As long as no callback panics in addUser, a login and SIGINT each call  *)
(* a shutdown callback once at most, whatever other logins do meanwhile.   *)
THEOREM CalledOnce == Spec => []ShutdownOnce
<1> DEFINE Counted == panics = 0 => CountsInv
<1>1. Init => Counted
  <2> SUFFICES ASSUME Init PROVE CountsInv
    OBVIOUS
  <2>1. \A d \in Exchanges, m \in Modules : shutdowns[d][m] = 0  BY DEF Init
  <2>2. signal # "call"  BY DEF Init
  <2> QED BY <2>1, <2>2 DEF CountsInv
<1>2. ShutdownInv /\ ShutdownInv' /\ Counted /\ [Next]_vars => Counted'
  <2> SUFFICES ASSUME ShutdownInv, ShutdownInv', Counted, [Next]_vars, panics' = 0 PROVE CountsInv'
    OBVIOUS
  <2>1. TypeOK /\ TypeOK' /\ IInv /\ RunningInv  BY DEF ShutdownInv, IInv
  <2>2. CountsInv  BY <2>1, ForGood
  <2>3. ASSUME NEW y \in Exchanges,
               RequestComes(y) \/ GetUser(y) \/ AddUserLock(y) \/ AddUserStep(y) \/ AddUserPanics(y)
                 \/ DispatchRequest(y) \/ DispatchResponse(y) \/ MapFault(y)
        PROVE  CountsInv'
    <3>1. UNCHANGED signalVars
      BY <2>3 DEF RequestComes, GetUser, AddUserLock, AddUserStep, ShutdownModule, ShutdownDone,
         InitModule, InitDone, AddUserStore, AddUserPanics, DispatchRequest, DispatchResponse, MapFault
    <3> QED BY <2>1, <2>2, <2>3, <3>1, CountsUnderLogins
  <2>4. CASE Signal \/ SignalStep \/ VisitPanics  BY <2>1, <2>2, <2>4, CountsUnderSignal
  <2>5. CASE UNCHANGED vars
    BY <2>2, <2>5 DEF vars, tableVars, exchangeVars, signalVars, CountsInv, LoginCalled, SignalCalled
  <2> QED BY <2>3, <2>4, <2>5 DEF Next
<1>3. ShutdownInv /\ Counted => ShutdownOnce
  <2> SUFFICES ASSUME RunningInv, CountsInv, NEW x \in Exchanges, NEW m \in Modules
               PROVE  shutdowns[x][m] <= IF signal = "none" THEN 1 ELSE 2
    BY DEF ShutdownInv, ShutdownOnce
  <2>1. signal = "none" => ~SignalCalled(x, m)  BY DEF RunningInv, SignalCalled
  <2> QED BY <2>1 DEF CountsInv
<1> QED BY <1>1, <1>2, <1>3, ShutdownInvariant, PTL DEF Spec
=============================================================================
