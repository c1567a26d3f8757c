CONSTANTS
  MaxFiles = 3
  Lengths = {1, 2}
  Targets = {0, 2}
  MinRemoves = {0, 1}
  UnlinkFailsIn = {}
  ListdirMayFail = TRUE
  NoFile = NoFile
  NULL = NULL
  ClockMax = 2
  Strings <- MCStrings
SPECIFICATION Spec
INVARIANTS
  NoNullListing
