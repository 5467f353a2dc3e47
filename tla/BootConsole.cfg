SPECIFICATION Spec
CONSTANT RetryCount = 5
INVARIANTS
  TypeOK
  SelectsDevice
  EntersBootMenu
  OthersUntouched
  FlashesPrepared
  DialogueInv
PROPERTY DialogueEnds
CHECK_DEADLOCK FALSE
