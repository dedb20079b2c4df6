SPECIFICATION Spec
CONSTANTS
  NUM_MAX_MESSAGES = 2
  SHMMNI = 2
  MaxSeq = 2
  SendMayFail = FALSE
  GUI_MAX_REQUESTS = 2
  USHORT_SPAN = 65536
  AppRequestIds = {769, 1025}
  AppSizes = {8}
  CanTimeOut = TRUE
  CanLoadWindow = TRUE
  Servers = {3, 4}
  RespSizes = {32}
  InitReqSizes = {8}
  CanKill = FALSE
  ConsoleRequestIds = {}
  ConsoleSizes = {4}
PROPERTIES
  DeclaredRequestServed
CHECK_DEADLOCK FALSE
