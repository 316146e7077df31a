SPECIFICATION PeriphSpec
CONSTANTS
  DEBOUNCE = 3
  LONG_CLICK = 8
  Bounce = 0
  BLINK_INTV = 1
  FLASH_INTV = 3
  FLASH_LIT = 1
INVARIANTS Recognised LongPressReports DarkWhenOff
PROPERTIES LedSignals
