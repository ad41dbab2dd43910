SPECIFICATION Spec
CONSTANTS
  RECORD_COUNT = 2
  MaxConnections = 2
  MaxThreads = 3
  Profiles = {p1}
  Addrs = {a1}
  NoProfile = NoProfile
  NoAddr = NoAddr
INVARIANTS
  TypeOK
  MutualExclusion
  LoggedInSession
  SavedOrDirty
  SlotHasOneOwner
  SocketFollowsSlot
  NoGhostLogin
PROPERTIES
  OnlyOwnLogout
  StaysRegistered
  SnapshotsOfRecords
