SPECIFICATION FairSpec
CONSTANTS
  NUM_MAX_MESSAGES = 2
  SHMMNI = 2
  MaxSeq = 4
  SendMayFail = FALSE
  GUI_MAX_REQUESTS = 2
  USHORT_SPAN = 65536
  AppRequestIds = {769}
  AppSizes = {8}
  CanTimeOut = FALSE
  CanLoadWindow = FALSE
  Servers = {3}
  RespSizes = {32}
  InitReqSizes = {8}
  CanKill = FALSE
  ConsoleRequestIds = {769}
  ConsoleSizes = {8}
PROPERTIES
  EveryRequestAnswered
