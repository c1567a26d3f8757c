CONSTANTS
  MaxFiles = 3
  Lengths = {1, 2}
  Targets = {0, 2}
  MinRemoves = {0, 1}
  UnlinkFailsIn = {"remove_file", "shrink"}
  ListdirMayFail = FALSE
  NoFile = NoFile
  NULL = NULL
  ClockMax = 2
  Strings <- MCStrings
SPECIFICATION Spec
INVARIANTS
  TypeOK
  UsageMatchesDisk
PROPERTIES
  NoSaveOverwrites
  ShrinkRemovesOldestToGoal
