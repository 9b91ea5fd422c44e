CONSTANTS
  Client = {c1}
  SubBuf = 2
  HubBuf = 1
  SendBuf = 1
  MaxEvent = 4
SPECIFICATION FairSpec
INVARIANTS TypeOK RegisteredIsOpen InOrder NoGap
PROPERTIES ImplementsStream DeadClientRemoved ForwarderEnds
