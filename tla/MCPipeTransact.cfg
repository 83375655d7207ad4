CONSTANTS
  tray = tray
  copy = copy
  Clients = {tray, copy}
  Copies = {copy}
  NoClient = NoClient
  NoFrame = NoFrame
  MaxCalls = 2
  MaxStarts = 2
SPECIFICATION FairSpec
CHECK_DEADLOCK FALSE
INVARIANTS
  TypeOK
  OwnReply
PROPERTIES
  NoReplyDropped
  StopHonoured
  InstanceFreed
  Implements
