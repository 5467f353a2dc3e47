SPECIFICATION Spec
CONSTANTS
  m1 = m1
  m2 = m2
  Macs = {m1, m2}
  NoMac = NoMac
  RandomMacs = {m1}
  PxeMenus <- MenusOfTwo
  Indices = {0, 1}
  MaxTry = 3
INVARIANTS TypeOK SerialScope SelectInMenu PromptNotInMenu DhcpServesDpu BootsConfiguredDevice TriesFailOnlyOnFault RunInv
PROPERTY Ends
CHECK_DEADLOCK FALSE
