SPECIFICATION Spec
CONSTANTS
  Starters = {s1, s2}
  Stoppers = {q1}
  None = None
  Empty = Empty
INVARIANT
  ServerHasLockfile
CHECK_DEADLOCK FALSE
