SPECIFICATION WatchdogFairSpec
CONSTANTS
  Timers = {"watchdog", "wdce_clear", "other"}
  Prescalers = {0, 1}
  BasePeriod = 5
  Window = 4
  MaxTimers = 3
  Delays = {0, 2}
  Haste = 0
  MaxCycles = 2
  DefaultSleep = 3
INVARIANTS
  WatchdogTypeOK
  WatchArmed
PROPERTIES
  WindowRespected
  WatchdogBites
