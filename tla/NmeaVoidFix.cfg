CONSTANTS
  Kinds = {"GPRMC", "GPGSV"}
  Name <- MCName
  NameLength = 1
  Lengths <- MCLengths
  Plain = {"R", "S"}
  PosField = 2
  RollSize = 8
  MaxText = 8
SPECIFICATION Spec
INVARIANT RuleUntilPosition
