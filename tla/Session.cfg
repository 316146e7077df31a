SPECIFICATION SessionSpec
CONSTANTS
  QueueSize = 3
  WIFI_STA_MAX_RETRIES = 1
  MaxPresses = 6
  MaxDrops = 0
  CanFail = FALSE
  CalmWifi = TRUE
  HostCanFail = FALSE
  MaySigint = TRUE
INVARIANTS AcceptIsAwaited SessionWhole
PROPERTIES SessionComes SuspendedIsDeleted PortalAnswers
CHECK_DEADLOCK FALSE
