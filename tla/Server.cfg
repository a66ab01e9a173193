SPECIFICATION FairSpec
CHECK_DEADLOCK FALSE
CONSTANTS
  InputSizes = {1}
  FrameCounts = {0}
  CounterMod = 2
  MaxSent = 3
  WireSize = 1
  RecvMax = 2
  PipeSize = 4
  GarbageSizes = {1, 9}
INVARIANTS
  TypeOK
  DeathExplained
  PlotSafe
PROPERTIES
  LogRefined
  EdgesRendered
  SenderFreed
