SPECIFICATION StreamSpec
CONSTANTS
  SeqMod = 24
  HalfSeq = 12
  SlotCap = 6
  TargetDepth = 3
  MaxNack = 2
  ConcealMode = "NONE"
  FullGain = 1
  Payloads = {a}
  NoFrame = NoFrame
  MaxBurst = 1
  MaxAhead = 9
INVARIANTS PrebufferFills NacksAreMissing
PROPERTIES PlaybackResumes SkipsEnd
