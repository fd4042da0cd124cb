SPECIFICATION Spec
CONSTANTS
  Timers = {t1, t2}
  Asyncs = {}
  Idles = {}
  Prepares = {p1}
  Checks = {c1}
  NoHandle = NoHandle
  Modes = {"DEFAULT", "ONCE"}
  Timeouts = {0, 2, 5}
  TimeMax = 5
  Int64Max = 3
  DwordMax = 2
  MaxBatch = 2
  Clock = 2
  MaxOps = 3
  MaxResumes = 0
INVARIANTS
  TypeOK
  Registered
  SleepsToFirstTimer
CHECK_DEADLOCK FALSE
