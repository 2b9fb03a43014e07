CONSTANTS
  p1 = p1
  p2 = p2
  NoPid = NoPid
  Pid <- TwoPids
  MaxForks = 2
  MaxExt = 1
  Stubborn <- FirstStubborn
  ReapModes <- EitherMode
  ForeignModes <- EitherMode
SPECIFICATION Spec
SYMMETRY PidSymmetry
CHECK_DEADLOCK FALSE
INVARIANTS Tracked SignalsOwnChild OwnedListIsLive AloneShownAliveIsUnreaped QuitNotifies
PROPERTIES TerminatedIsFinal ContFinishesKill
