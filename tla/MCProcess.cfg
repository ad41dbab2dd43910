SPECIFICATION LiveSpec
CONSTANTS
  Starters = {s1, s2, s3}
  Stoppers = {q1}
  None = None
  Empty = Empty
INVARIANTS
  TypeOK
  LockfileNamesServer
  
PROPERTIES
  StopEndsServer
  ImplementsLives
CHECK_DEADLOCK FALSE
