SPECIFICATION LiveSpec
CONSTANTS
  Threads = {t1, t2}
  AdFiles = {ad1, ad2}
  AdTexts <- MCAdTexts
  Secret = Secret
  Absent = Absent
  Junk = Junk
  Folder = Folder
  MaxFiles = 4
  MaxEdits = 2
  RECORD_COUNT = 2
  SendBufferSize = 8
  MessageLength = 2
  CopiedLengths = {3}
  InfoLength = 9
  OnlineLength = 3
  ValueLength = 6
  DisconnectLength = 2
INVARIANTS
  TypeOK
  ReplyFits
  AdIsWhole
  QuietAdIsFound
PROPERTIES
  AdvertisementEnds
CHECK_DEADLOCK FALSE
