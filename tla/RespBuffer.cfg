CONSTANTS
  none = none
  one = one
  two = two
  full = full
  large = large
  Texts <- MCTexts
  SizeOf <- MCSizeOf
  bufsiz = 4
  MaxTexts = 5
SPECIFICATION Spec
INVARIANT TypeOK
PROPERTY ImplementsStream
