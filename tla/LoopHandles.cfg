SPECIFICATION Spec
CONSTANTS
  Timers = {t1}
  Asyncs = {a1}
  Idles = {i1, i2}
  Prepares = {}
  Checks = {}
  NoHandle = NoHandle
  Modes = {"DEFAULT", "NOWAIT"}
  Timeouts = {0, 1}
  TimeMax = 7
  Int64Max = 5
  DwordMax = 3
  MaxBatch = 2
  Clock = 1
  MaxOps = 4
  MaxResumes = 0
INVARIANTS
  ActiveCount
  InvokesEachOnce
  ClosedIsForgotten
CHECK_DEADLOCK FALSE
