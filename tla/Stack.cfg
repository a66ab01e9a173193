SPECIFICATION Spec
CONSTANTS
  RamEnd = 9
  AddressSize = 2
  MaxLocals = 2
  StackFrameSize = 4
  Interrupts = TRUE
  Pops = TRUE
INVARIANTS
  TypeOK
  FramesGuardCalls
  AlarmsReal
  SmashCaught
