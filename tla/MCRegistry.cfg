SPECIFICATION Spec
CONSTANTS
  Chars <- MCChars
  RECORD_COUNT = 2
  accepted_userIDs <- MCUserIDs
  Profiles <- MCProfiles
  Addrs <- MCAddrs
  Starters = {s1, s2}
  NoFile = NoFile
SYMMETRY Symmetry
INVARIANTS
  TypeOK
  OneSaver
  SavedWhenIdle
  NobodyElse
  OnlyUnsavedAreLost
PROPERTIES
  StaysInFile
CHECK_DEADLOCK FALSE
