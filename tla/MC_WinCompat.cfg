CONSTANTS
  t1 = t1
  t2 = t2
  t3 = t3
  Threads <- MCThreads3
  NoOne = NoOne
  INFINITE = INFINITE
  MsChoices = {1}
  TimedThreads <- MCTimed1
  MaxSignals = 3
  TickBits = 8
  TickBase = 0
  ClockMax = 1
  TLThreads <- MCThreads2
  TLocals = {tl1, tl2}
  Indexes = {0, 1}
  Values = {NULL, v1}
  NULL = NULL
  TLS_OUT_OF_INDEXES = TLS_OUT_OF_INDEXES
SPECIFICATION MCSpec
CHECK_DEADLOCK FALSE
INVARIANTS
  TypeOK
  WaitersCounted
PROPERTIES
  TimeoutNotEarly
  SignalledWaiterWakes
  InitFailsOnlyWhenFull
