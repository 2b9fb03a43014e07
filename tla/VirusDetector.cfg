CONSTANTS
  Byte <- Bits
  NOP = 1
  Sig <- SomeSigs
  MaxSig = 2
  BufLen = 2
  MaxRecords = 2
  MaxFile = 3
  MaxStreams = 2
  Number <- SmallNumbers
SPECIFICATION StagesSpec
CHECK_DEADLOCK FALSE
INVARIANTS ResourcesOfVersion ReportsRight
PROPERTIES LoadsOfVersion
