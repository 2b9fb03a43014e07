CONSTANTS
  MAX_ARGUMENTS = 5
  MaxVars = 2
  MaxAtoms = 2
  MaxLen = 4
  Typed <- SomeTyped
  Word <- SomeWord
  Count <- SomeCount
SPECIFICATION Spec
CHECK_DEADLOCK FALSE
INVARIANTS ParserAgrees HeapExact DiesOnlyOfRedirections
PROPERTIES ImplementsEnvironment
