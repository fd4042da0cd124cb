SPECIFICATION FairSpec
CONSTANTS
  Timers = {t1}
  Asyncs = {a1}
  Idles = {}
  Prepares = {}
  Checks = {}
  NoHandle = NoHandle
  Modes = {"DEFAULT", "ONCE"}
  Timeouts = {0, 1}
  TimeMax = 7
  Int64Max = 5
  DwordMax = 3
  MaxBatch = 2
  Clock = 1
  MaxOps = 4
  MaxResumes = 1
PROPERTIES
  ClosesEventually
  SendsAreSeen
CHECK_DEADLOCK FALSE
