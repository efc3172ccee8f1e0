SPECIFICATION MCSpec
CONSTANTS
  start1 = start1
  finish1 = finish1
  start2 = start2
  finish2 = finish2
  other = other
  None = None
  Sessions <- MCSessions
  Packets = {start1, finish1, other}
  Op <- MCOp
  Battles <- MCBattles
  Practice = {}
  Failed = {}
  BufferCap = 2
INVARIANT DropsLogged
