CONSTANTS
  d = d
  x = x
  y = y
  NKeys = 2
  Values = {d, x, y}
  Default <- MCDefault
  Hidden = Hidden
  Absent = Absent
SPECIFICATION Spec
INVARIANT RamMatchesFlash
INVARIANT EraseFindsItsKey
INVARIANT SavedStaysSaved
INVARIANT ResetIsComplete
