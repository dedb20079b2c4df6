SPECIFICATION Spec
CONSTANTS
  GUI_MAX_KEY_RESERVES = 5
  KeyCodes = {1, 14}
  USHORT_SPAN = 512
  WindowStates <- MenuStates
  MoreStates <- ChangedStates
  MaxReps = 133
INVARIANTS
  TypeOK
  ReleaseMeansUp
  LongPressOnce
PROPERTIES
  DeregisterIsExact
