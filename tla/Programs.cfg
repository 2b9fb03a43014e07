CONSTANTS
  MaxSent = 6
  Absent = Absent
  Directory = Directory
  None = None
  File <- TwoNames
  Text <- SomeTexts
  Key <- SomeKeys
  MaxRuns = 2
  BaseLen = 2
  Typed <- SomeTyped
  Garbage <- SomeGarbage
  Number <- SomeNumbers
SPECIFICATION ProgramsSpec
CHECK_DEADLOCK FALSE
INVARIANTS OneIsArmed ObeysWhenUnhurried EncodesByLine RoundTrip CallsOnlyTheMenu
PROPERTIES IntEnds
