CONSTANTS
  MaxFiles = 3
  Lengths = {1, 2}
  Targets = {0, 2}
  MinRemoves = {0, 1}
  UnlinkFailsIn = {"clean_tmpfiles"}
  ListdirMayFail = FALSE
  NoFile = NoFile
  NULL = NULL
  ClockMax = 2
  Strings <- MCStrings
SPECIFICATION Spec
INVARIANTS
  UsageMatchesDisk
