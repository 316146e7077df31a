SPECIFICATION Spec
CONSTANTS
  QueueSize = 4
  WIFI_STA_MAX_RETRIES = 1
  MaxPresses = 4
  MaxDrops = 3
  CanFail = TRUE
  CalmWifi = FALSE
INVARIANTS PlayingSession PlaysForHost
CHECK_DEADLOCK FALSE
