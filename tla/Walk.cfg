SPECIFICATION MCSpec
CONSTANTS
  MaxPathDepth = 3
  Spaces <- Either
  Rubbish <- Broken
INVARIANTS
  TypeOK
  NeverPanics
  PathsExact
