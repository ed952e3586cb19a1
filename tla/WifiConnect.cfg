CONSTANTS
  Bssids = {b1}
  NoBssid = NoBssid
  Slots = 1
  MaxScans = 2
  Addresses = 2
  MaxFaults = 2
  MaxRestarts = 1
SPECIFICATION Spec
INVARIANT ShowsTheAddress
INVARIANT ResultsBeforeNextScan
 
PROPERTY NobodyWaitsForEver
PROPERTY AddressComesBack
