SPECIFICATION MCSpec
CONSTANTS
  MaxPathDepth = 3
  Spaces <- Compact
  Rubbish <- Whole
INVARIANT ArrayPathsExact
