SPECIFICATION MCSpec
CONSTANTS
  high = high
  middle = middle
  low = low
  wild = wild
  start = start
  finish = finish
  Hooks = {high, middle, low, wild}
  Packets = {p1, p2}
  FewHooks = {high, low}
  Ops <- TwoOps
  Wild = Wild
  Target <- MCTarget
  Priority <- MCPriority
  NoHook = NoHook
INVARIANTS
  TypeOK
  MapExact
  CallsEveryHookOnce
  PriorityNeverRises
  NoHoles
SYMMETRY SamePackets
