SPECIFICATION Spec
CONSTANTS
  NotANumber = NotANumber
  DefaultSize = 3
  SettingsFiles <- MCDocumented
  Ports = {3000, 47115, 65536}
  Ephemeral = {3000}
  Ids <- MCIds
  Commands <- MCCommands
  Exit <- MCExit
  Quit <- MCQuit
  NUL = NUL
  Junk = Junk
  BUFSIZE = 3
  Capacity = 5
  MaxTyped = 4
INVARIANT
  ServesAsDocumented
CHECK_DEADLOCK FALSE
