SPECIFICATION FairSpec
CONSTANTS
  Writes = {w1, w2}
  SyncResults = {"now", "kernel", "refused", "wait_refused"}
  AllocCalls = FALSE
  RestartsRefused = FALSE
  MaxCalls = 5
  SimultaneousAccepts = 3
  AcceptResults = {"now", "kernel", "refused"}
  ListensAgainWhen = {}
  MaxServerCalls = 6
INVARIANTS
  CountersExact
  Armed
  OneAtATime
PROPERTIES
  Silent
  Pays
CHECK_DEADLOCK FALSE
