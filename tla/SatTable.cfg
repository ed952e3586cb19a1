CONSTANTS
  MaxGSVRecs = 3
  MaxMessages = 4
  MaxCycle = 4
SPECIFICATION SatSpec
INVARIANT WholeCycleIsPublished
INVARIANT NoRowOlderThanFirst
INVARIANT PageMovesForward
