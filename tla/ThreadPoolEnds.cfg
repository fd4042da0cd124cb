SPECIFICATION FairSpec
CONSTANTS
  l1 = l1  l2 = l2  r1 = r1  r2 = r2  r3 = r3
  Loops = {l1, l2}
  Reqs = {r1, r3}
  LoopOf <- TwoLoops
  ARRAY_SIZE = 1
  MAX_THREADPOOL_SIZE = 2
  EnvSizes <- EdgeSizes
  HasDestructor = TRUE
  exit_message = exit_message
  MainThread = MainThread
  NoThread = NoThread
  NoReq = NoReq
  MaxCalls = 2
  MaxSpurious = 0
INVARIANTS
  ClosedLoopUnused
PROPERTIES
  Delivered
  CleanupReturns
CHECK_DEADLOCK FALSE
