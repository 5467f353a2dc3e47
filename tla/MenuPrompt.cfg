SPECIFICATION Spec
CONSTANTS
  N = 5
  Macs = {m1, m2}
  Misc = Misc
  Other = Other
  NoMac = NoMac
  MaxSearch = 10
  AnswersBefore <- Prompt
  KeysGetLost = FALSE
INVARIANTS TypeOK LeavesAboveMarker
PROPERTY KeepsPromise
CHECK_DEADLOCK FALSE
