SPECIFICATION MCSpec
CONSTANTS
  MCFileCount = 3
  MCTableCount = 1
  MCChangingCount = 1
  Files <- MCFiles
  Tables <- MCTables
  Changing <- MCChanging
  Workers = {w1}
  JobsCap = 1
  Callers = {c1, c2}
  MaxVersion = 2
  MaxLives = 2
INVARIANTS
  TypeOK
  EtagsSound
  LoadsWhatWasFetched
PROPERTY CallersReturn
