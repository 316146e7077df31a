SPECIFICATION Spec
CONSTANTS
  SeqMod = 12
  HalfSeq = 6
  SlotCap = 3
  TargetDepth = 2
  MaxNack = 2
  ConcealMode = "PCM"
  FullGain = 2
  Payloads = {a}
  NoFrame = NoFrame
INVARIANTS TypeOK CountExact
PROPERTIES PendingKept NoLevelJump
