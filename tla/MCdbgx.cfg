SPECIFICATION Spec
CONSTANTS
  NUM_MAX_MESSAGES = 1
  SHMMNI = 0
  MaxSeq = 1
  SendMayFail = TRUE
  SIZE = 8
  PARAM_NUM = 0
  MaxLines = 2
  Commands <- TypedCommands
  Values <- TypedValues
  Garbage <- GarbageValues
INVARIANTS
  TypeOK
  LineWellFormed
PROPERTIES
  PostedWasTyped
CHECK_DEADLOCK FALSE
