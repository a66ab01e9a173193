SPECIFICATION FairSpec
CONSTANTS
  Vectors <- MCVectors
  Sticky <- MCSticky
  FifoSize = 4
  NestMax = 2
  EvalOrders <- Gcc
INVARIANTS
  TableSound
  LossOnlyByOverflow
  NoLostWakeup
PROPERTIES
  RequestsKept
  TopServed
CHECK_DEADLOCK FALSE
