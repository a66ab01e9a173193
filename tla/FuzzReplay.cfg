SPECIFICATION FairSpec
CONSTANTS
  a = a
  b = b
  reset = reset
  body = body
  isr = isr
  wild = wild
  Inputs <- MCInputs
  Seeds <- MCSeeds
  Mutate <- MCMutate
  RunOnceModes = {FALSE}
  Locs <- MCLocs
  ResetLoc = reset
  Wild = wild
  Vectors <- NoVectors
  PushReports <- Silent
  Code <- ReplayCode
  Patches <- NoPatches
  Watchdog = FALSE
  Returns <- MCReturns
  Values <- MCValues
  Timeout = 3
  MaxCycles = 2
  SleepCycles = 2
  ReportTimeouts = FALSE
  Paddings = {0}
  CounterMod = 2
PROPERTY TestsAdvance
