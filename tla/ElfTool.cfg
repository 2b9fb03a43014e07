CONSTANTS
  MaxSection = 2
  File <- SomeFiles
SPECIFICATION StagesSpec
CHECK_DEADLOCK FALSE
INVARIANTS ResourcesExact TablesAreCurrent 
