SPECIFICATION SessionSpec
CONSTANTS
  QueueSize = 3
  WIFI_STA_MAX_RETRIES = 1
  MaxPresses = 2
  MaxDrops = 1
  CanFail = TRUE
  CalmWifi = FALSE
  HostCanFail = TRUE
  MaySigint = TRUE
INVARIANTS PlayingIsServed
PROPERTIES SessionFreed SigintStops PlayingEnds
CHECK_DEADLOCK FALSE
