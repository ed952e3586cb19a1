CONSTANTS
  HttpAge = 2
  AlarmAge = 4
  BootAge = 6
  Mod32 = 64
  Mod64 = 4096
  MaxUp = 6
SPECIFICATION FairSpec
PROPERTY HttpYieldsToDefinitive
PROPERTY AlarmWhenStale
PROPERTY HttpSetsUnsetClock
PROPERTY FreshTimeClearsAlarm
