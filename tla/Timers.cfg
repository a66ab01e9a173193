SPECIFICATION FairSpec
CONSTANTS
  Timers = {t1, t2, t3, t4}
  MaxTimers = 3
  Delays <- MCDelays
  Haste = 1
  MaxCycles = 3
  DefaultSleep = 3
INVARIANTS
  PoolIntact
  Scheduled
PROPERTIES
  AlarmsKept
  BacklogShrinks
  ProcessEnds
