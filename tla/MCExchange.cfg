SPECIFICATION LiveSpec
CONSTANTS
  NotANumber = NotANumber
  DefaultSize = 3
  SettingsFiles <- MCFiles
  Ports = {3000, 47115, 65536}
  Ephemeral = {3000}
  Ids <- MCIds
  Commands <- MCCommands
  Exit <- MCExit
  Quit <- MCQuit
  NUL = NUL
  Junk = Junk
  BUFSIZE = 3
  Capacity = 5
  MaxTyped = 4
INVARIANTS
  TypeOK
  OnlyAsked
  MutualWaitHasCause
  RefusedHasCause
  TurnedAwayHasCause
PROPERTIES
  AnswerComes
CHECK_DEADLOCK FALSE
