CONSTANTS
  Pids = {1, 2}
  MaxGen = 1
  ExitCodes = {0, 259}
  STILL_ACTIVE = 259
  Platforms = {"unix", "win32"}
  Specs <- MCSpecs
  PidBits = 4
  NULL = NULL
SPECIFICATION Spec
INVARIANTS
  TypeOK
  NoFalseAlarm
PROPERTIES
  DeathNoticed
