SPECIFICATION MCSpec
CONSTANT MaxDepth = 6
INVARIANTS
  RejectsAtOnce
  AcceptsJson
PROPERTY
  EndComesAfterTheValue
