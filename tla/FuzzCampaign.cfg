SPECIFICATION Spec
CONSTANTS
  a = a
  b = b
  reset = reset
  body = body
  isr = isr
  wild = wild
  Inputs <- MCInputs
  Seeds <- MCSeeds
  Mutate <- MCMutate
  RunOnceModes = {FALSE}
  Locs <- MCLocs
  ResetLoc = reset
  Wild = wild
  Vectors <- MCVectors
  PushReports <- Silent
  Code <- CampaignCode
  Patches <- CampaignPatches
  Watchdog = FALSE
  Returns <- MCReturns
  Values <- MCValues
  Timeout = 3
  MaxCycles = 2
  SleepCycles = 2
  ReportTimeouts = FALSE
  Paddings = {0, 1}
  CounterMod = 2
INVARIANTS
  WellFormed
  DiscoveriesKept
  CorpusEarned
PROPERTY CampaignKept
