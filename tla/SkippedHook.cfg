SPECIFICATION MCSpec
CONSTANTS
  high = high
  middle = middle
  low = low
  wild = wild
  start = start
  finish = finish
  Hooks = {high, middle, low}
  Packets = {p1}
  FewHooks = {}
  Ops <- OneOp
  Wild = Wild
  Target <- MCTarget
  Priority <- MCPriority
  NoHook = NoHook
INVARIANT NoHookSkipped
