SPECIFICATION Spec
CONSTANTS
  NUM_MAX_MESSAGES = 2
  SHMMNI = 2
  MaxSeq = 5
  SendMayFail = FALSE
  GUI_MAX_REQUESTS = 2
  USHORT_SPAN = 3
  AppRequestIds = {769, 257}
  AppSizes = {505}
  CanTimeOut = TRUE
  CanLoadWindow = FALSE
  Servers = {3}
  RespSizes = {32, 505}
  InitReqSizes = {600}
  CanKill = FALSE
  ConsoleRequestIds = {}
  ConsoleSizes = {4}
PROPERTIES
  AnswerIsOwn
CHECK_DEADLOCK FALSE
