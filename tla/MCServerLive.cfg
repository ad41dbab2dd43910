SPECIFICATION LiveSpec
CONSTANTS
  RECORD_COUNT = 1
  MaxConnections = 2
  MaxThreads = 2
  Profiles = {p1, p2}
  Addrs = {a1}
  NoProfile = NoProfile
  NoAddr = NoAddr
PROPERTIES
  RecordsReachDisk
  ClosingSlotReturns
  CommandCompletes
