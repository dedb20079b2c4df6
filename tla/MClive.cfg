SPECIFICATION FairSpec
CONSTANTS
  NUM_MAX_MESSAGES = 1
  SHMMNI = 2
  MaxSeq = 4
  SendMayFail = FALSE
  GUI_MAX_REQUESTS = 2
  USHORT_SPAN = 3
  AppRequestIds = {769}
  AppSizes = {8}
  CanTimeOut = TRUE
  CanLoadWindow = FALSE
  Servers = {3}
  RespSizes = {32}
  InitReqSizes = {8}
  CanKill = TRUE
  ConsoleRequestIds = {769}
  ConsoleSizes = {4}
PROPERTIES
  EveryRequestEnds
  StuckForACause
CHECK_DEADLOCK FALSE
