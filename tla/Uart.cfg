SPECIFICATION UartSpec
CONSTANTS
  Timers = {"rxc", "txc", "other"}
  Capacity = 3
  CountMod = 4
  ByteCycles = {2, 3}
  ResetCycles = 2
  MaxTimers = 3
  Delays = {0, 2}
  Haste = 0
  MaxCycles = 2
  DefaultSleep = 3
INVARIANTS
  UartTypeOK
  PumpsRun
  ReceiverHonest
