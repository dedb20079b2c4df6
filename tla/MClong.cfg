SPECIFICATION Spec
CONSTANTS
  NUM_MAX_MESSAGES = 2
  SHMMNI = 2
  MaxSeq = 3
  SendMayFail = TRUE
  GUI_MAX_REQUESTS = 2
  USHORT_SPAN = 65536
  AppRequestIds = {769, 8}
  AppSizes = {8, 505}
  CanTimeOut = TRUE
  CanLoadWindow = FALSE
  Servers = {3}
  RespSizes = {32, 505}
  InitReqSizes = {8, 600}
  CanKill = TRUE
  ConsoleRequestIds = {769}
  ConsoleSizes = {4}
INVARIANTS
  LongMessagesHaveTheirData
  SegmentsAccounted
CHECK_DEADLOCK FALSE
