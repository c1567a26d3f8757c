CONSTANTS
  t1 = t1
  t2 = t2
  t3 = t3
  Threads <- MCThreads2
  NoOne = NoOne
  INFINITE = INFINITE
  MsChoices = {1, 2}
  TimedThreads <- MCThreads2
  MaxSignals = 2
  TickBits = 8
  TickBase = 255
  ClockMax = 2
SPECIFICATION Spec
CHECK_DEADLOCK FALSE
PROPERTIES
  TimeoutNotEarly
