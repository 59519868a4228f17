SPECIFICATION GraceSpec
CONSTANTS
  Keys = {k1}
  Callers = {c1, c2}
  Runtimes = {r1, r2}
  None = None
  EVICT_AFTER_IDLE = 2
  REAPER_INTERVAL = 1
  MaxLate = 1
  MaxTime = 4
PROPERTIES GracePeriodIsRespected
