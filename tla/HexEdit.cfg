CONSTANTS
  BufLen = 4
  MaxFile = 5
  Wrap = 64
  Base = 48
  Byte <- Bits
  Number <- Numbers
  UnitSize <- UnitSizes
SPECIFICATION StagesSpec
CHECK_DEADLOCK FALSE
INVARIANTS TypeOK InRangeOfVersion
PROPERTIES SaveIsExact CountOutgrowsOnlyByWrap
