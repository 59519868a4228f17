SPECIFICATION FairSpec
CONSTANTS
  Keys = {k1, k2}
  Callers = {c1, c2}
  Runtimes = {r1, r2}
  None = None
  EVICT_AFTER_IDLE = 2
  REAPER_INTERVAL = 1
  MaxLate = 1
  MaxTime = 6
INVARIANTS TypeOK StreamsAreServed OneRuntimePerKey NoRuntimeLeaks EvictionIsPrompt
PROPERTIES ImplementsSharedResources GetStreamReturns
