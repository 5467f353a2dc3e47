SPECIFICATION Spec
CONSTANTS
  N = 3
  Macs = {m1, m2}
  Misc = Misc
  Other = Other
  NoMac = NoMac
  MaxSearch = 7
  AnswersBefore <- Trickling
  KeysGetLost = FALSE
INVARIANTS LastLineCounts
CHECK_DEADLOCK FALSE
