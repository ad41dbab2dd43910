SPECIFICATION Spec
CONSTANTS
  RECORD_COUNT = 1
  MaxConnections = 2
  MaxThreads = 2
  Profiles = {p1}
  Addrs = {a1}
  NoProfile = NoProfile
  NoAddr = NoAddr
INVARIANT
  OneSessionPerUser
