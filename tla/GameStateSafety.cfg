SPECIFICATION MCExactSpec
CONSTANTS
  sync1 = sync1
  sync2 = sync2
  delta1 = delta1
  delta2 = delta2
  delete1 = delete1
  other1 = other1
  hook1 = hook1
  hook2 = hook2
  hook3 = hook3
  Packets = {sync1, sync2, delta1, delta2}
  Hooks = {hook1, hook2}
  Readers = {r1}
  Kind <- MCKind
  Walk <- MCWalk
  Paths <- MCPaths
  Target <- MCTarget
  EventOnly = {}
  Unresolved = {"a"}
  HookQueueMax = 1
  ListenerCap = 1
  MaxInFlight = 2
  SyncOverlap = FALSE
  NoHook = NoHook
INVARIANT TypeOK
INVARIANT MutualExclusion
INVARIANT NeverCrashes
INVARIANT HandoverInv
 
INVARIANT MirrorExact
PROPERTY ReadsSeeState
PROPERTY ReadsAreFresh
PROPERTY UnhookStops
PROPERTY MirrorSafety
