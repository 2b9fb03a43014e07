CONSTANTS
  MaxLines = 1
  MaxFd = 4
  Cap = 1
SPECIFICATION Spec
CHECK_DEADLOCK FALSE
INVARIANTS RedirectionsHold
