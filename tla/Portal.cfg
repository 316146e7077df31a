SPECIFICATION Spec
CONSTANTS
  Networks = {home, office, far}
  LongOnes = {far}
  Part = Part
  Nul = Nul
  Clients = {c1, c2}
  NoPair = NoPair
INVARIANTS StationPair SavedSurvives DnsHandleKept 
CHECK_DEADLOCK FALSE
