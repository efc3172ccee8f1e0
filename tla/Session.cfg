SPECIFICATION MCSpec
CONSTANTS
  start1 = start1
  finish1 = finish1
  start2 = start2
  finish2 = finish2
  other = other
  None = None
  Sessions <- MCSessions
  Packets = {start1, finish1, start2, finish2}
  Op <- MCOp
  Battles <- MCBattles
  Practice = {start2}
  Failed = {}
  BufferCap = 2
INVARIANTS
  TypeOK
  
  DropsOfTheirBattle
  DiesOnlyMidBattle
PROPERTY ExchangesReturn
