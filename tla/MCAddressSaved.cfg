SPECIFICATION LiveSpec
CONSTANTS
  RECORD_COUNT = 1
  MaxConnections = 1
  MaxThreads = 1
  Profiles = {p1}
  Addrs = {a1, a2}
  NoProfile = NoProfile
  NoAddr = NoAddr
PROPERTY
  AddressSaved
