SPECIFICATION Spec
CONSTANTS
  QueueSize = 3
  WIFI_STA_MAX_RETRIES = 1
  MaxPresses = 2
  MaxDrops = 0
  CanFail = FALSE
  CalmWifi = FALSE
PROPERTIES SuspendedIsDeleted
CHECK_DEADLOCK FALSE
