SPECIFICATION Spec
CONSTANTS
  l1 = l1  l2 = l2  r1 = r1  r2 = r2  r3 = r3
  Loops = {l1}
  Reqs = {r1, r2}
  LoopOf <- OneLoop
  ARRAY_SIZE = 1
  MAX_THREADPOOL_SIZE = 2
  EnvSizes = {2}
  HasDestructor = FALSE
  exit_message = exit_message
  MainThread = MainThread
  NoThread = NoThread
  NoReq = NoReq
  MaxCalls = 1
  MaxSpurious = 0
INVARIANTS
  CloseFindsNoWakeup
CHECK_DEADLOCK FALSE
