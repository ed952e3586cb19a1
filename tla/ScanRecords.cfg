CONSTANTS
  Bssids = {b1, b2, b3, b4}
  NoBssid = NoBssid
  Slots = 3
  MaxScans = 3
SPECIFICATION TableSpec
INVARIANT NoDuplicates
INVARIANT QuietRowsAreShown
PROPERTY OldestGoesFirst
