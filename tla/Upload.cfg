CONSTANTS
  Images = {good, better, bad}
  Working = {good, better}
  Rest = Rest
  MaxResets = 3
  Maps <- ThreeMaps
  OtherSize <- SmallMaps
  Erased <- EmptyFlash
  MapParts = 3
  Byte = 8
  Parts = 2
  MaxUploads = 2
CHECK_DEADLOCK FALSE
SPECIFICATION Spec
INVARIANT MapInUseIsWhole
INVARIANT LookupFindsTheZone
PROPERTY ImplementsTrialBoot
PROPERTY InstalledIsTried
PROPERTY ClockComesUp
