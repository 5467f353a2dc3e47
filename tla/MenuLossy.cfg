SPECIFICATION Spec
CONSTANTS
  N = 4
  Macs = {m1, m2}
  Misc = Misc
  Other = Other
  NoMac = NoMac
  MaxSearch = 9
  AnswersBefore <- Prompt
  KeysGetLost = TRUE
INVARIANTS BootsRequestedEntry CursorInv
PROPERTY CallsEnd
CHECK_DEADLOCK FALSE
