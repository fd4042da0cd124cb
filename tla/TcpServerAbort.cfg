SPECIFICATION Spec
CONSTANTS
  SimultaneousAccepts = 2
  AcceptResults = {"now", "kernel", "refused"}
  ListensAgainWhen = {}
  MaxServerCalls = 5
INVARIANTS
  AcceptSucceeds
CHECK_DEADLOCK FALSE
