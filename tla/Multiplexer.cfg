CONSTANTS
  a = a
  b = b
  NDIGITS = 2
  Lo = {a}
  Hi = {b}
  Delays = {3, 5}
  Costs = {1, 2}
  Texts <- MCTexts
SPECIFICATION MuxFairSpec
INVARIANT OneDigitLit
INVARIANT ShowsItsGlyph
PROPERTY ChangesInTheDark
PROPERTY EveryDigitIsLit
PROPERTY SettlesOnText
