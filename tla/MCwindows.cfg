SPECIFICATION FairSpec
CONSTANTS
  Capacity <- SmallTables
  MenuOnLoad <- MenuRegisters
  CallbackKeys <- AppRegisters
  MaxLoads = 6
INVARIANTS
  TypeOK
  OnlyCurrentWindow
PROPERTIES
  NoStaleCallback
  LoadingEnds
CHECK_DEADLOCK FALSE
