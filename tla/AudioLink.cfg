SPECIFICATION LinkSpec
CONSTANTS
  SeqMod = 18
  HalfSeq = 9
  SlotCap = 3
  TargetDepth = 1
  MaxNack = 2
  ConcealMode = "NONE"
  FullGain = 1
  Payloads = {0,1,2,3,4,5,6,7,8,9,10,11,12,13,14,15,16,17}
  NoFrame = NoFrame
  HistSize = 2
  FirstSeq = 16
  MaxFrames = 4
  MaxLag = 3
  NACK_MAX_SEQS = 2
  AUDIO_BUF_SIZE = 1
INVARIANTS AskedOnce HeardTrue BlocksParse
PROPERTIES GivesUpOnOldOnly YoungIntact ImplementsListener
