SPECIFICATION Spec
CONSTANTS
  a = a
  b = b
  d = d
  None = None
  Signals = {a, b, d}
  TypeOf <- MCTypeOf
  EventDate <- MCEventDate
  Filters <- MCFilters
  Limits = {1}
  RowLimit = 2
  MaxRewrites = 3
SYMMETRY Alike
INVARIANTS
  TypeOK
  MissedOnlyIfOthersLeft
  RepeatedOnlyIfOthersCame
  OnlyOldSignalsAreCutOff
  HeadingCountsRows
