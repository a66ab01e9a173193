SPECIFICATION FairSpec
CONSTANTS
  a = a
  b = b
  reset = reset
  body = body
  isr = isr
  wild = wild
  Inputs <- MCInputs
  Seeds <- MCSeeds
  Mutate <- MCMutate
  RunOnceModes = {FALSE}
  Locs <- MCLocs
  ResetLoc = reset
  Wild = wild
  Vectors <- MCVectors
  PushReports <- Silent
  Code <- SpinCode
  Patches <- SpinPatches
  Watchdog = FALSE
  Returns <- MCReturns
  Values <- MCValues
  Timeout = 3
  MaxCycles = 2
  SleepCycles = 2
  ReportTimeouts = TRUE
  Paddings = {0}
  CounterMod = 2
INVARIANT TimeoutHonoured
PROPERTIES
  Headway
  TestsAdvance
