SPECIFICATION Spec
CONSTANTS
  a = a
  b = b
  reset = reset
  body = body
  isr = isr
  wild = wild
  Inputs <- MCInputs
  Seeds <- MCSeeds
  Mutate <- MCMutate
  RunOnceModes = {TRUE, FALSE}
  Locs <- MCLocs
  ResetLoc = reset
  Wild = wild
  Vectors <- MCVectors
  PushReports <- MaySmash
  Code <- CrashCode
  Patches <- CrashPatches
  Watchdog = TRUE
  Returns <- MCReturns
  Values <- MCValues
  Timeout = 3
  MaxCycles = 2
  SleepCycles = 2
  ReportTimeouts = TRUE
  Paddings = {0}
  CounterMod = 2
INVARIANTS
  NoEarlyTimeout
  RunOnceFaithful
PROPERTY CrashLedger
CHECK_DEADLOCK FALSE
