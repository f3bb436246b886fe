CONSTANTS
  Absent = Absent
  Empty = Empty
  Invalid = Invalid
  Gone = Gone
  h = h
  d = d
  w = w
  mth = mth
  y = y
  Missing = Missing
  Unknown = Unknown
  TooLarge = TooLarge
  Sec = 2
  Word = 5124096
  Exact <- Standard
  Custom <- Longer
  Ticks <- Hours
  Texts <- AnyTexts
  Values = {1, 2}
SPECIFICATION InputsSpec
INVARIANTS UnsignedIsNotPast
CHECK_DEADLOCK FALSE
