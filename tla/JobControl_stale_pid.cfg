CONSTANTS
  p1 = p1
  p2 = p2
  NoPid = NoPid
  Pid <- OnePid
  MaxForks = 1
  MaxExt = 0
  Stubborn <- NoneStubborn
  ReapModes <- Off
  ForeignModes <- On
SPECIFICATION Spec
CHECK_DEADLOCK FALSE
INVARIANTS ShownAliveIsUnreaped
