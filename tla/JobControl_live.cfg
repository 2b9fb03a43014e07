CONSTANTS
  p1 = p1
  p2 = p2
  NoPid = NoPid
  Pid <- TwoPids
  MaxForks = 2
  MaxExt = 1
  Stubborn <- NoneStubborn
  ReapModes <- Off
  ForeignModes <- Off
SPECIFICATION FairSpec
CHECK_DEADLOCK FALSE
PROPERTIES TableSpec QuitExits SuspendedKillEnds
