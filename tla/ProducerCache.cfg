SPECIFICATION Spec
CONSTANTS
  Hosts = {h1}
  Users = {u1, u2}
  Producers = {p1, p2}
  None = None
  EVICT_AFTER_IDLE = 2
  REAPER_INTERVAL = 1
  MaxDelay = 1
  MaxLate = 1
  MaxTime = 6
SYMMETRY Interchangeable
INVARIANTS TypeOK EvictionIsPrompt
PROPERTIES EvictionRespectsUse ImplementsSharedResources
