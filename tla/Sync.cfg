SPECIFICATION SyncSpec
CONSTANTS
  Threads = {t1, t2, t3}
  MaxRounds = 2
  MaxOnce = 2
  Waker = t0
  OneWaiter = t1
  MaxSignals = 3
INVARIANTS
  Exclusive
  SemaphoreHeld
  Together
  OnceAndBefore
PROPERTIES
  AllGoOn
