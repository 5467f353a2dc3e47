SPECIFICATION Spec
CONSTANTS
  N = 3
  Macs = {m1, m2}
  Misc = Misc
  Other = Other
  NoMac = NoMac
  MaxSearch = 7
  AnswersBefore <- AnyLatency
  KeysGetLost = TRUE
INVARIANTS DetectExact
CHECK_DEADLOCK FALSE
