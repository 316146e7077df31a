SPECIFICATION HostSpec
CONSTANTS
  PASS_RING_DEPTH = 2
  Frames = {a, b}
  Silence = Silence
  FRAME_SAMPLES = 2
  MaxCall = 3
  Numbers = 5
INVARIANTS NoSampleLost
PROPERTIES IsFifo
CHECK_DEADLOCK FALSE
