SPECIFICATION Spec
CONSTANTS
  NUM_MAX_MESSAGES = 2
  SHMMNI = 2
  MaxSeq = 3
  SendMayFail = FALSE
  GUI_MAX_REQUESTS = 2
  USHORT_SPAN = 65536
  AppRequestIds = {769}
  AppSizes = {8}
  CanTimeOut = TRUE
  CanLoadWindow = TRUE
  Servers = {3, 4}
  RespSizes = {32}
  InitReqSizes = {8}
  CanKill = TRUE
  ConsoleRequestIds = {1025, 257, 2}
  ConsoleSizes = {4}
INVARIANTS
  TypeOK
  OneSlotPerRequest
  InFlightOnce
  PendingIsInFlight
  RoutedToOwner
  BlockedMeansAbandoned
  OwnerAnswers
PROPERTIES
  KeepsRequestService
CHECK_DEADLOCK FALSE
