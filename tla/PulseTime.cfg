CONSTANTS
  TPS = 8
  HalfTPS = 4
  MinOffset = 3
  MaxOffset = 5
  LoopTime = 1
  Tol = 0
  IntMod = 1024
  MaxSec = 5
  Errors <- MCErrors
  Offsets <- MCOffsets
SPECIFICATION Spec
INVARIANT TypeOK
INVARIANT UsedTimeIsTheReceivers
INVARIANT FreshPulseSetsClock
PROPERTY ClockFollowsReceiver
