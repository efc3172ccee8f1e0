SPECIFICATION MCSpec
CONSTANTS
  ann = ann
  bob = bob
  login1 = login1
  login2 = login2
  login3 = login3
  game1 = game1
  Users = {ann, bob}
  Exchanges = {login1, login2, login3, game1}
  User <- MCUser
  Kind <- MCKind
  ModuleCount = 2
  WithShutdown <- MCWithShutdown
  MaxPanics = 1
  None = None
INVARIANTS
  TypeOK
  OneLiveDispatch
  ShutdownOnce
  ExitShutsDown
PROPERTIES
  GetsLiveDispatch
  ShutdownComesFirst
  RequestsServed
